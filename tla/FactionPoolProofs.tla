-------------------------- MODULE FactionPoolProofs --------------------------
(***************************************************************************)
(* Proofs about FactionPoolAmm, for any set of routes, any chain history,  *)
(* any faults a fetch may deliver and any width of u64.                    *)
(*                                                                         *)
(* The inductive invariant is IInv: ActiveIsCoherent alone is not          *)
(* inductive, because an inactive route may become active by a tick of the *)
(* clock; what every step keeps is RouteInv, which speaks of refreshed     *)
(* routes whether or not the gates are open.                               *)
(***************************************************************************)
EXTENDS FactionPoolAmm, AmmMathProofs

(* Lemmas on update(): what each outcome leaves behind *)

\* A rejected refresh leaves a well-typed, unrefreshed route with the identity
\* and the roles it had.
LEMMA DeactivatedRoute ==
  ASSUME NEW a \in AmmState
  PROVE  /\ Deactivated(a) \in AmmState
         /\ Deactivated(a).pool = a.pool
         /\ Deactivated(a).factionMint = a.factionMint
         /\ Deactivated(a).quoteMint = a.quoteMint
         /\ ~Deactivated(a).stateRefreshed
  BY DEF Deactivated, AmmState

\* The tax of an epoch is a u16 whichever faction and direction it is for.
LEMMA TaxIsU16 ==
  ASSUME NEW e \in EpochState, NEW isCrime \in BOOLEAN, NEW isBuy \in BOOLEAN
  PROVE  GetTaxBps(e, isCrime, isBuy) \in U16
  BY DEF GetTaxBps, EpochState

\* Writing the epoch fields touches nothing else.
LEMMA WithEpochRoute ==
  ASSUME NEW a \in AmmState, NEW e \in EpochState
  PROVE  /\ WithEpoch(a, e) \in AmmState
         /\ WithEpoch(a, e).pool = a.pool
         /\ WithEpoch(a, e).factionMint = a.factionMint
         /\ WithEpoch(a, e).quoteMint = a.quoteMint
         /\ WithEpoch(a, e).stateRefreshed = a.stateRefreshed
  <1>1. /\ GetTaxBps(e, a.factionMint = CRIME_MINT, TRUE) \in U16
        /\ GetTaxBps(e, a.factionMint = CRIME_MINT, FALSE) \in U16
    BY TaxIsU16
  <1>2. /\ e.pauseEndSlot \in U64
        /\ e.tradingPaused \in BOOLEAN
        /\ e.initialized \in BOOLEAN
    BY DEF EpochState
  <1> QED BY <1>1, <1>2 DEF WithEpoch, AmmState

\* The identity and the roles of a route of this pool.
OfThisPool(a) ==
  a.pool.id = PoolId /\ a.factionMint = Faction /\ a.quoteMint = Quoted

\* The checks of update() let a map through exactly when it is sound: its pool
\* and epoch cells are this pool's own, and its quote mint is safe.
LEMMA AcceptedIffSound ==
  ASSUME NEW a \in AmmState, OfThisPool(a), NEW m \in AccountMap
  PROVE  AllAccepted(a, m) <=> MapSound(m)
  <1>1. AcceptsPool(a, m.pool) <=> m.pool \in [owner : {AMM_PROGRAM_ID}, data : Pools]
    <2>1. m.pool = Absent \/ m.pool \in PoolFaults
            \/ m.pool \in [owner : {AMM_PROGRAM_ID}, data : Pools]
      BY DEF AccountMap, PoolCells
    <2>2. AcceptsPool(a, m.pool) => m.pool \notin PoolFaults /\ m.pool # Absent
      BY FaultAssumption DEF AcceptsPool, Parses, OfThisPool
    <2>3. ASSUME m.pool \in [owner : {AMM_PROGRAM_ID}, data : Pools]
          PROVE  AcceptsPool(a, m.pool)
      BY <2>3, SentinelAssumption, PoolAssumption DEF AcceptsPool, Parses, OfThisPool
    <2> QED BY <2>1, <2>2, <2>3
  <1>2. AcceptsEpoch(m.epoch) <=> m.epoch \in [owner : {EPOCH_PROGRAM_ID}, data : EpochStates]
    <2>1. m.epoch = Absent \/ m.epoch \in EpochFaults
            \/ m.epoch \in [owner : {EPOCH_PROGRAM_ID}, data : EpochStates]
      BY DEF AccountMap, EpochCells
    <2>2. AcceptsEpoch(m.epoch) => m.epoch \notin EpochFaults /\ m.epoch # Absent
      BY FaultAssumption DEF AcceptsEpoch, Parses
    <2>3. ASSUME m.epoch \in [owner : {EPOCH_PROGRAM_ID}, data : EpochStates]
          PROVE  AcceptsEpoch(m.epoch)
      BY <2>3, SentinelAssumption, PoolAssumption DEF AcceptsEpoch, Parses
    <2> QED BY <2>1, <2>2, <2>3
  <1>3. AcceptsMint(a, m.mint) <=> SafeQuoteMint(m.mint)
    BY DEF AcceptsMint, SafeQuoteMint, OfThisPool
  <1> QED BY <1>1, <1>2, <1>3 DEF AllAccepted, MapSound

\* What one update() makes of a route, whatever the map: the route it was, and
\* refreshed exactly when the map is sound, as the route the map describes.
LEMMA UpdateRoute ==
  ASSUME NEW a \in AmmState, OfThisPool(a), NEW m \in AccountMap, NEW b,
         \/ (PoolRejected(a, m) \/ EpochRejected(a, m)) /\ b = Deactivated(a)
         \/ MintRejected(a, m) /\ b = AfterMintRejected(a, m)
         \/ AllAccepted(a, m) /\ b = AfterAccepted(a, m)
  PROVE  /\ b \in AmmState
         /\ OfThisPool(b)
         /\ b.stateRefreshed <=> MapSound(m)
         /\ MapSound(m) => b = Decoded(m)
  <1>1. CASE (PoolRejected(a, m) \/ EpochRejected(a, m)) /\ b = Deactivated(a)
    BY <1>1, DeactivatedRoute, AcceptedIffSound
       DEF PoolRejected, EpochRejected, AllAccepted, OfThisPool
  <1>2. CASE MintRejected(a, m) /\ b = AfterMintRejected(a, m)
    <2>1. m.epoch.data \in EpochState
      <3>1. m.epoch \in [owner : {EPOCH_PROGRAM_ID}, data : EpochStates]
        BY <1>2, FaultAssumption
           DEF MintRejected, AcceptsEpoch, Parses, AccountMap, EpochCells
      <3> QED BY <3>1, PoolAssumption
    <2>2. ~MapSound(m)
      BY <1>2, AcceptedIffSound DEF MintRejected, AllAccepted
    <2> QED BY <1>2, <2>1, <2>2, DeactivatedRoute, WithEpochRoute
            DEF AfterMintRejected, OfThisPool
  <1>3. CASE AllAccepted(a, m) /\ b = AfterAccepted(a, m)
    <2>1. MapSound(m)
      BY <1>3, AcceptedIffSound
    <2>2. m.epoch.data \in EpochState /\ m.pool.data \in PoolState
            /\ m.pool.data.id = PoolId
      BY <2>1, PoolAssumption DEF MapSound
    <2>3. WithEpoch(a, m.epoch.data) \in AmmState
      BY <2>2, WithEpochRoute
    <2>4. b = Decoded(m)
      BY <1>3, <2>2 DEF AfterAccepted, WithEpoch, Decoded, OfThisPool, AmmState
    <2>5. b \in AmmState
      BY <1>3, <2>2, <2>3 DEF AfterAccepted, AmmState
    <2> QED BY <2>1, <2>2, <2>4, <2>5 DEF Decoded, OfThisPool
  <1> QED BY <1>1, <1>2, <1>3

-----------------------------------------------------------------------------
(* The inductive invariant *)

\* A delivered map is a map of this pool's cells, whatever was declared.
LEMMA DeliveredMap ==
  ASSUME NEW a, NEW cells \in AccountMap
  PROVE  Delivered(a, cells) \in AccountMap
  BY DEF Delivered, AccountMap

LEMMA CurrentMap ==
  ASSUME TypeOK
  PROVE  Current \in AccountMap
  BY DEF TypeOK, Current, AccountMap, PoolCells, EpochCells, MintCells

\* A constructed route is a well-typed route of this pool, unrefreshed.
LEMMA FreshRoute ==
  ASSUME NEW cell \in PoolCells, Admits(Key, cell)
  PROVE  /\ Fresh(cell.data) \in AmmState
         /\ OfThisPool(Fresh(cell.data))
         /\ ~Fresh(cell.data).stateRefreshed
  <1>1. cell \in [owner : {AMM_PROGRAM_ID}, data : Pools]
    BY FaultAssumption DEF PoolCells, Admits, Parses
  <1>2. cell.data \in PoolState /\ cell.data.id = PoolId
    BY <1>1, PoolAssumption
  <1>3. /\ FactionMint(cell.data.id) \in FactionMints
        /\ QuoteMint(cell.data.id) \in STRING \ FactionMints
    <2>1. HasOneFactionSide(cell.data.id)
      BY DEF Admits
    <2> QED BY <1>2, <2>1 DEF FactionMint, QuoteMint, HasOneFactionSide, PoolState, Identity
  <1>4. 0 \in U16 /\ 0 \in U64
    BY U64MaxAssumption DEF U16, U64
  <1> QED BY <1>2, <1>3, <1>4 DEF Fresh, AmmState, OfThisPool, Faction, Quoted

\* A refresh, sound or lapsed, keeps the invariant.
LEMMA UpdateKeepsIInv ==
  ASSUME IInv, NEW r \in Routes, NEW m \in AccountMap, amm[r] # Unborn,
         Update(r, m), lapses' \in 0 .. MaxLapses
  PROVE  IInv'
  <1> DEFINE a == amm[r]
             b == amm'[r]
  <1>1. /\ a \in AmmState /\ OfThisPool(a)
        /\ amm \in [Routes -> AmmState \cup {Unborn}]
        /\ applied \in [Routes -> AccountMap \cup {NoMap}]
    BY DEF IInv, TypeOK, RouteInv, OfThisPool
  <1>2. /\ amm' = [amm EXCEPT ![r] = b]
        /\ \/ (PoolRejected(a, m) \/ EpochRejected(a, m)) /\ b = Deactivated(a)
           \/ MintRejected(a, m) /\ b = AfterMintRejected(a, m)
           \/ AllAccepted(a, m) /\ b = AfterAccepted(a, m)
    BY <1>1 DEF Update
  <1>3. /\ b \in AmmState /\ OfThisPool(b)
        /\ b.stateRefreshed <=> MapSound(m)
        /\ MapSound(m) => b = Decoded(m)
    <2> HIDE DEF a, b
    <2> QED BY <1>1, <1>2, UpdateRoute
  <1>4. /\ applied' = [applied EXCEPT ![r] = applied'[r]]
        /\ applied'[r] = IF MapSound(m) THEN m ELSE NoMap
    BY <1>1 DEF Update
  <1>5. TypeOK'
    <2>1. amm' \in [Routes -> AmmState \cup {Unborn}]
      BY <1>1, <1>2, <1>3
    <2>2. applied' \in [Routes -> AccountMap \cup {NoMap}]
      BY <1>1, <1>4
    <2>3. chain' = chain /\ slot' = slot /\ clock' = clock
      BY DEF Update
    <2> QED BY <2>1, <2>2, <2>3 DEF IInv, TypeOK
  <1>6. RouteInv(r)'
    BY <1>3, <1>4, SentinelAssumption DEF RouteInv, OfThisPool
  <1>7. ASSUME NEW s \in Routes, s # r
        PROVE  RouteInv(s)'
    <2>1. amm'[s] = amm[s] /\ applied'[s] = applied[s]
      BY <1>1, <1>2, <1>4, <1>7
    <2>2. RouteInv(s)
      BY DEF IInv
    <2> QED BY <2>1, <2>2 DEF RouteInv
  <1> QED BY <1>5, <1>6, <1>7 DEF IInv

\* Building a route from a keyed account keeps the invariant.
LEMMA ConstructionKeepsIInv ==
  ASSUME IInv, NEW r \in Routes, NEW cell \in PoolCells,
         FromKeyedAccount(r, Key, cell)
  PROVE  IInv'
  <1> DEFINE b == Fresh(cell.data)
  <1>1. b \in AmmState /\ OfThisPool(b) /\ ~b.stateRefreshed
    BY FreshRoute DEF FromKeyedAccount
  <1> HIDE DEF b
  <1>2. amm' = [amm EXCEPT ![r] = b] /\ amm \in [Routes -> AmmState \cup {Unborn}]
    BY DEF FromKeyedAccount, IInv, TypeOK, b
  <1>3. TypeOK'
    BY <1>1, <1>2 DEF IInv, TypeOK, FromKeyedAccount
  <1>4. RouteInv(r)'
    <2>1. applied[r] = NoMap
      BY DEF IInv, RouteInv, FromKeyedAccount
    <2>2. amm'[r] = b /\ applied'[r] = NoMap
      BY <1>2, <2>1 DEF FromKeyedAccount
    <2>3. b # Unborn
      BY <1>1, SentinelAssumption
    <2> QED BY <1>1, <2>2, <2>3 DEF RouteInv, OfThisPool
  <1>5. ASSUME NEW s \in Routes, s # r
        PROVE  RouteInv(s)'
    <2>1. amm'[s] = amm[s] /\ applied'[s] = applied[s]
      BY <1>2, <1>5 DEF FromKeyedAccount
    <2> QED BY <2>1 DEF IInv, RouteInv
  <1> QED BY <1>3, <1>4, <1>5 DEF IInv

\* A clone starts with the very state, and the history, of its original.
LEMMA CloneKeepsIInv ==
  ASSUME IInv, NEW r \in Routes, NEW s \in Routes, CloneAmm(r, s)
  PROVE  IInv'
  <1>1. /\ amm \in [Routes -> AmmState \cup {Unborn}]
        /\ applied \in [Routes -> AccountMap \cup {NoMap}]
    BY DEF IInv, TypeOK
  <1>2. TypeOK'
    BY <1>1 DEF IInv, TypeOK, CloneAmm
  <1>3. ASSUME NEW t \in Routes
        PROVE  RouteInv(t)'
    <2>1. \E u \in Routes : amm'[t] = amm[u] /\ applied'[t] = applied[u]
      BY <1>1 DEF CloneAmm
    <2>2. PICK u \in Routes : amm'[t] = amm[u] /\ applied'[t] = applied[u]
      BY <2>1
    <2>3. RouteInv(u)
      BY DEF IInv
    <2> QED BY <2>2, <2>3 DEF RouteInv
  <1> QED BY <1>2, <1>3 DEF IInv

\* The chain, the clock and a stuttering step leave every route alone.
LEMMA EnvironmentKeepsIInv ==
  ASSUME IInv, amm' = amm, applied' = applied, TypeOK'
  PROVE  IInv'
  BY DEF IInv, RouteInv

LEMMA InitIInv == Init => IInv
  <1> SUFFICES ASSUME Init PROVE IInv
    OBVIOUS
  <1>1. TypeOK
    BY BoundAssumption DEF Init, TypeOK
  <1>2. ASSUME NEW r \in Routes PROVE RouteInv(r)
    BY DEF Init, RouteInv
  <1> QED BY <1>1, <1>2 DEF IInv

LEMMA NextIInv == IInv /\ [Next]_vars => IInv'
  <1> SUFFICES ASSUME IInv, [Next]_vars PROVE IInv'
    OBVIOUS
  <1>1. ASSUME NEW r \in Routes, NEW cell \in PoolCells, FromKeyedAccount(r, Key, cell)
        PROVE  IInv'
    BY <1>1, ConstructionKeepsIInv
  <1>2. ASSUME NEW r \in Routes, NEW s \in Routes, CloneAmm(r, s)
        PROVE  IInv'
    BY <1>2, CloneKeepsIInv
  <1>3. ASSUME NEW r \in Routes, Refresh(r)
        PROVE  IInv'
    <2>1. Delivered(amm[r], Current) \in AccountMap
      BY CurrentMap, DeliveredMap DEF IInv
    <2>2. lapses' \in 0 .. MaxLapses
      BY <1>3 DEF Refresh, IInv, TypeOK
    <2> QED BY <1>3, <2>1, <2>2, UpdateKeepsIInv DEF Refresh
  <1>4. ASSUME NEW r \in Routes, NEW cells \in AccountMap, LapsedRefresh(r, cells)
        PROVE  IInv'
    <2>1. Delivered(amm[r], cells) \in AccountMap
      BY DeliveredMap
    <2>2. lapses' \in 0 .. MaxLapses
      BY <1>4, BoundAssumption DEF LapsedRefresh, IInv, TypeOK
    <2> QED BY <1>4, <2>1, <2>2, UpdateKeepsIInv DEF LapsedRefresh
  <1>5. ASSUME NEW p \in Pools, PoolChanges(p)
        PROVE  IInv'
    BY <1>5, EnvironmentKeepsIInv DEF PoolChanges, IInv, TypeOK
  <1>6. ASSUME NEW e \in EpochStates, EpochChanges(e)
        PROVE  IInv'
    BY <1>6, EnvironmentKeepsIInv DEF EpochChanges, IInv, TypeOK
  <1>7. ASSUME NEW c \in QuoteMints, QuoteMintChanges(c)
        PROVE  IInv'
    BY <1>7, EnvironmentKeepsIInv DEF QuoteMintChanges, IInv, TypeOK
  <1>8. CASE Tick
    <2>1. TypeOK'
      BY <1>8, BoundAssumption DEF Tick, IInv, TypeOK
    <2> QED BY <1>8, <2>1, EnvironmentKeepsIInv DEF Tick
  <1>9. CASE ClockAdvances
    <2>1. TypeOK'
      BY <1>9, BoundAssumption DEF ClockAdvances, IInv, TypeOK
    <2> QED BY <1>9, <2>1, EnvironmentKeepsIInv DEF ClockAdvances
  <1>10. CASE UNCHANGED vars
    BY <1>10, EnvironmentKeepsIInv DEF vars, IInv, TypeOK
  <1> QED BY <1>1, <1>2, <1>3, <1>4, <1>5, <1>6, <1>7, <1>8, <1>9, <1>10 DEF Next

\* No step of the routing engine takes a route away.
LEMMA RoutesStay ==
  ASSUME IInv, Next, NEW s \in Routes, amm[s] # Unborn
  PROVE  amm'[s] # Unborn
  <1>1. /\ amm[s] \in AmmState /\ OfThisPool(amm[s])
        /\ amm \in [Routes -> AmmState \cup {Unborn}]
    BY DEF IInv, TypeOK, RouteInv, OfThisPool
  <1>2. ASSUME NEW r \in Routes, NEW m \in AccountMap, amm[r] # Unborn, Update(r, m)
        PROVE  amm'[s] # Unborn
    <2>1. CASE r = s
      <3>1. amm'[s] \in AmmState
        BY <1>1, <1>2, <2>1, UpdateRoute DEF Update
      <3> QED BY <3>1, SentinelAssumption
    <2>2. CASE r # s
      BY <1>1, <1>2, <2>2 DEF Update
    <2> QED BY <2>1, <2>2
  <1>3. ASSUME NEW r \in Routes, Refresh(r)
        PROVE  amm'[s] # Unborn
    BY <1>2, <1>3, CurrentMap, DeliveredMap DEF Refresh, IInv
  <1>4. ASSUME NEW r \in Routes, NEW cells \in AccountMap, LapsedRefresh(r, cells)
        PROVE  amm'[s] # Unborn
    BY <1>2, <1>4, DeliveredMap DEF LapsedRefresh
  <1>5. ASSUME NEW r \in Routes, NEW cell \in PoolCells, FromKeyedAccount(r, Key, cell)
        PROVE  amm'[s] # Unborn
    BY <1>1, <1>5 DEF FromKeyedAccount
  <1>6. ASSUME NEW r \in Routes, NEW t \in Routes, CloneAmm(r, t)
        PROVE  amm'[s] # Unborn
    BY <1>1, <1>6 DEF CloneAmm
  <1> QED BY <1>3, <1>4, <1>5, <1>6
          DEF Next, PoolChanges, EpochChanges, QuoteMintChanges, Tick, ClockAdvances

-----------------------------------------------------------------------------
(* Theorems *)

\* In every behaviour of a pool's routes the inductive invariant holds.
THEOREM InductiveInvariant == Spec => []IInv
  BY InitIInv, NextIInv, PTL DEF Spec

\* Types: no refresh, however bad the map, leaves an ill-formed route.
THEOREM TypeCorrect == Spec => []TypeOK
  <1>1. IInv => TypeOK
    BY DEF IInv
  <1> QED BY <1>1, InductiveInvariant, PTL

\* An active route serves the contents of one fully validated account map.
THEOREM CoherentWhenActive == Spec => []ActiveIsCoherent
  <1>1. IInv => ActiveIsCoherent
    BY DEF IInv, RouteInv, ActiveIsCoherent, Active, IsActive
  <1> QED BY <1>1, InductiveInvariant, PTL

\* A route in sync with the chain holds the chain's own pool and epoch, and its
\* quote mint is safe.
LEMMA SyncedRoute ==
  ASSUME IInv, NEW r \in Routes, InSync(r)
  PROVE  /\ amm[r] = Decoded(applied[r]) /\ OfThisPool(amm[r])
         /\ applied[r].pool.data = chain.pool /\ applied[r].epoch.data = chain.epoch
         /\ SafeQuoteMint(chain.mint)
  <1>1. MapSound(applied[r]) /\ amm[r] = Decoded(applied[r]) /\ OfThisPool(amm[r])
    BY DEF InSync, IInv, RouteInv, OfThisPool
  <1>2. applied[r].pool.data = chain.pool /\ applied[r].epoch.data = chain.epoch
    BY DEF InSync, Delivered, Current, GetAccountsToUpdate
  <1>3. SafeQuoteMint(chain.mint)
    BY <1>1 DEF InSync, Delivered, Current, GetAccountsToUpdate, MapSound, SafeQuoteMint,
                OfThisPool
  <1> QED BY <1>1, <1>2, <1>3

\* A route refreshed from the chain's present state is never open before the
\* programs admit a swap, and is open exactly then once the clock is current.
LEMMA SyncedGate == IInv => GateMirrorsChain
  <1> SUFFICES ASSUME IInv, NEW r \in Routes, InSync(r)
               PROVE  /\ IsActive(amm[r]) => OnChainAdmits
                      /\ clock = slot /\ OnChainAdmits => IsActive(amm[r])
    BY DEF GateMirrorsChain
  <1>1. /\ amm[r] = Decoded(applied[r]) /\ SafeQuoteMint(chain.mint)
        /\ applied[r].pool.data = chain.pool /\ applied[r].epoch.data = chain.epoch
    BY SyncedRoute
  <1>2. /\ amm[r].pool = chain.pool
        /\ amm[r].epochInitialized = chain.epoch.initialized
        /\ amm[r].stateRefreshed
        /\ amm[r].tradingPaused = chain.epoch.tradingPaused
        /\ amm[r].pauseEndSlot = chain.epoch.pauseEndSlot
    BY <1>1 DEF Decoded
  <1>3. chain.epoch.pauseEndSlot \in Nat /\ slot \in Nat /\ clock \in 0 .. slot
    BY PoolAssumption, U64MaxAssumption DEF IInv, TypeOK, EpochState, U64
  <1> QED BY <1>1, <1>2, <1>3 DEF IsActive, OnChainAdmits

\* The adapter's gate and the programs' open and close together.
THEOREM GateIsMirrored == Spec => []GateMirrorsChain
  BY SyncedGate, InductiveInvariant, PTL

\* No step, and in particular no refresh, changes the pool a route is for.
THEOREM IdentityNeverChanges == Spec => IdentityImmutable
  <1> DEFINE Kept == \A r \in Routes : amm[r] # Unborn =>
                       /\ amm'[r] # Unborn
                       /\ amm'[r].pool.id = amm[r].pool.id
                       /\ amm'[r].factionMint = amm[r].factionMint
                       /\ amm'[r].quoteMint = amm[r].quoteMint
  <1>1. IInv /\ IInv' /\ [Next]_vars => [Kept]_vars
    <2> SUFFICES ASSUME IInv, IInv', Next, NEW r \in Routes, amm[r] # Unborn
                 PROVE  /\ amm'[r] # Unborn
                        /\ amm'[r].pool.id = amm[r].pool.id
                        /\ amm'[r].factionMint = amm[r].factionMint
                        /\ amm'[r].quoteMint = amm[r].quoteMint
      BY DEF vars
    <2>1. amm'[r] # Unborn
      BY RoutesStay
    <2> QED BY <2>1 DEF IInv, RouteInv
  <1>2. IInv /\ [Next]_vars => [Kept]_vars
    BY <1>1, NextIInv
  <1> QED BY <1>2, InductiveInvariant, PTL DEF Spec, IdentityImmutable

-----------------------------------------------------------------------------
(* The routes implement RouteMirror *)

\* An offer is the terms of a sound map, or Closed.
LEMMA OfferType ==
  ASSUME NEW m \in AccountMap
  PROVE  MirrorOffer(m) \in SoundTerms \cup {Closed}
  BY DEF MirrorOffer, SoundTerms

\* What a route asks for is all that its terms depend on.
LEMMA DeliveredOffer ==
  ASSUME NEW a, a.quoteMint = Quoted, NEW m
  PROVE  MirrorOffer(Delivered(a, m)) = MirrorOffer(m)
  <1>1. /\ Delivered(a, m).pool = m.pool /\ Delivered(a, m).epoch = m.epoch
        /\ Quoted # NATIVE_MINT => Delivered(a, m).mint = m.mint
    BY DEF Delivered, GetAccountsToUpdate
  <1>2. MapSound(Delivered(a, m)) <=> MapSound(m)
    BY <1>1 DEF MapSound, SafeQuoteMint
  <1> QED BY <1>1, <1>2 DEF MirrorOffer, Decoded

\* update() hands the route's mirror the map as a whole.
LEMMA UpdateIsHand ==
  ASSUME IInv, NEW r \in Routes, NEW m \in AccountMap, amm[r] # Unborn, Update(r, m)
  PROVE  Mirror!Hand(r, MirrorOffer(m))
  <1> DEFINE a == amm[r]
             b == amm'[r]
  <1>1. /\ a \in AmmState /\ OfThisPool(a)
        /\ amm \in [Routes -> AmmState \cup {Unborn}]
        /\ applied \in [Routes -> AccountMap \cup {NoMap}]
    BY DEF IInv, TypeOK, RouteInv, OfThisPool
  <1>2. /\ amm' = [amm EXCEPT ![r] = b]
        /\ \/ (PoolRejected(a, m) \/ EpochRejected(a, m)) /\ b = Deactivated(a)
           \/ MintRejected(a, m) /\ b = AfterMintRejected(a, m)
           \/ AllAccepted(a, m) /\ b = AfterAccepted(a, m)
    BY <1>1 DEF Update
  <1>3. /\ b \in AmmState
        /\ b.stateRefreshed <=> MapSound(m)
        /\ MapSound(m) => b = Decoded(m)
    <2> HIDE DEF a, b
    <2> QED BY <1>1, <1>2, UpdateRoute
  <1>4. applied' = [applied EXCEPT ![r] = IF MapSound(m) THEN m ELSE NoMap]
    BY DEF Update
  <1>5. MirrorOffered' = [MirrorOffered EXCEPT ![r] = MirrorOffer(m)]
    BY <1>1, <1>2, <1>3, SentinelAssumption DEF MirrorOffered, MirrorOffer
  <1>6. MirrorHanded' = [MirrorHanded EXCEPT ![r] = MirrorOffer(m)]
    BY <1>1, <1>4, SentinelAssumption DEF MirrorHanded, MirrorOffer
  <1>7. MirrorOffer(Current)' = MirrorOffer(Current)
    BY DEF Update, MirrorOffer, Current, Decoded, MapSound, SafeQuoteMint
  <1>8. MirrorOffered[r] # Unborn
    BY <1>1, SentinelAssumption DEF MirrorOffered
  <1> QED BY <1>5, <1>6, <1>7, <1>8 DEF Mirror!Hand

LEMMA RegistrationIsRegister ==
  ASSUME IInv, NEW r \in Routes, NEW cell \in PoolCells, FromKeyedAccount(r, Key, cell)
  PROVE  Mirror!Register(r)
  <1> DEFINE b == Fresh(cell.data)
  <1>1. b \in AmmState /\ ~b.stateRefreshed
    BY FreshRoute DEF FromKeyedAccount
  <1> HIDE DEF b
  <1>2. amm' = [amm EXCEPT ![r] = b] /\ amm \in [Routes -> AmmState \cup {Unborn}]
    BY DEF FromKeyedAccount, IInv, TypeOK, b
  <1>3. MirrorOffered' = [MirrorOffered EXCEPT ![r] = Closed]
    BY <1>1, <1>2, SentinelAssumption DEF MirrorOffered
  <1>4. MirrorOffered[r] = Unborn
    BY DEF MirrorOffered, FromKeyedAccount
  <1>5. /\ MirrorOffer(Current)' = MirrorOffer(Current)
        /\ MirrorHanded' = MirrorHanded /\ lapses' = lapses
    BY DEF FromKeyedAccount, MirrorOffer, Current, Decoded, MapSound, SafeQuoteMint,
           MirrorHanded
  <1> QED BY <1>3, <1>4, <1>5 DEF Mirror!Register

LEMMA CloningIsClone ==
  ASSUME IInv, NEW r \in Routes, NEW s \in Routes, CloneAmm(r, s)
  PROVE  Mirror!Clone(r, s)
  <1>1. /\ amm \in [Routes -> AmmState \cup {Unborn}]
        /\ applied \in [Routes -> AccountMap \cup {NoMap}]
    BY DEF IInv, TypeOK
  <1>2. MirrorOffered' = [MirrorOffered EXCEPT ![s] = MirrorOffered[r]]
    BY <1>1 DEF CloneAmm, MirrorOffered
  <1>3. MirrorHanded' = [MirrorHanded EXCEPT ![s] = MirrorHanded[r]]
    BY <1>1 DEF CloneAmm, MirrorHanded, MirrorOffer, Decoded, MapSound, SafeQuoteMint
  <1>4. MirrorOffered[r] # Unborn /\ MirrorOffered[s] = Unborn
    BY <1>1, SentinelAssumption DEF CloneAmm, MirrorOffered
  <1>5. MirrorOffer(Current)' = MirrorOffer(Current) /\ lapses' = lapses
    BY DEF CloneAmm, MirrorOffer, Current, Decoded, MapSound, SafeQuoteMint
  <1> QED BY <1>2, <1>3, <1>4, <1>5 DEF Mirror!Clone

\* A step that touches no route at most moves the market.
LEMMA EnvironmentMovesMarket ==
  ASSUME IInv', amm' = amm, applied' = applied, lapses' = lapses
  PROVE  Mirror!MarketMoves
  <1>1. Current' \in AccountMap
    BY DEF IInv, TypeOK, Current, AccountMap, PoolCells, EpochCells, MintCells
  <1>2. MirrorOffer(Current') \in SoundTerms \cup {Closed}
    BY <1>1, OfferType
  <1>3. MirrorOffered' = MirrorOffered /\ MirrorHanded' = MirrorHanded
    BY DEF MirrorOffered, MirrorHanded
  <1> QED BY <1>2, <1>3 DEF Mirror!MarketMoves, Mirror!Offers

LEMMA InitMirror == Init => Mirror!Init
  <1> SUFFICES ASSUME Init PROVE Mirror!Init
    OBVIOUS
  <1>1. TypeOK
    BY BoundAssumption DEF Init, TypeOK
  <1>2. MirrorOffer(Current) \in SoundTerms \cup {Closed}
    BY <1>1, CurrentMap, OfferType
  <1>3. /\ MirrorOffered = [r \in Routes |-> Unborn]
        /\ MirrorHanded = [r \in Routes |-> Closed]
    BY DEF Init, MirrorOffered, MirrorHanded
  <1> QED BY <1>2, <1>3 DEF Init, Mirror!Init, Mirror!Offers

LEMMA NextMirror == IInv /\ IInv' /\ [Next]_vars => [Mirror!Next]_(Mirror!vars)
  <1> SUFFICES ASSUME IInv, IInv', [Next]_vars
               PROVE  Mirror!Next \/ UNCHANGED Mirror!vars
    OBVIOUS
  <1>1. ASSUME NEW r \in Routes, NEW cell \in PoolCells, FromKeyedAccount(r, Key, cell)
        PROVE  Mirror!Next
    BY <1>1, RegistrationIsRegister DEF Mirror!Next
  <1>2. ASSUME NEW r \in Routes, NEW s \in Routes, CloneAmm(r, s)
        PROVE  Mirror!Next
    BY <1>2, CloningIsClone DEF Mirror!Next
  <1>3. ASSUME NEW r \in Routes, Refresh(r)
        PROVE  Mirror!Next
    <2>1. Delivered(amm[r], Current) \in AccountMap
      BY CurrentMap, DeliveredMap DEF IInv
    <2>2. Mirror!Hand(r, MirrorOffer(Delivered(amm[r], Current)))
      BY <1>3, <2>1, UpdateIsHand DEF Refresh
    <2>3. MirrorOffer(Delivered(amm[r], Current)) = MirrorOffer(Current)
      BY <1>3, DeliveredOffer DEF Refresh, IInv, RouteInv
    <2> QED BY <1>3, <2>2, <2>3 DEF Refresh, Mirror!Refresh, Mirror!Next
  <1>4. ASSUME NEW r \in Routes, NEW cells \in AccountMap, LapsedRefresh(r, cells)
        PROVE  Mirror!Next
    <2> DEFINE m == Delivered(amm[r], cells)
    <2>1. m \in AccountMap
      BY DeliveredMap
    <2>2. Mirror!Hand(r, MirrorOffer(m))
      BY <1>4, <2>1, UpdateIsHand DEF LapsedRefresh
    <2>3. MirrorOffer(m) \in Mirror!Offers
      BY <2>1, OfferType DEF Mirror!Offers
    <2> QED BY <1>4, <2>2, <2>3 DEF LapsedRefresh, Mirror!Lapse, Mirror!Next
  <1>5. CASE (\E p \in Pools : PoolChanges(p)) \/ (\E e \in EpochStates : EpochChanges(e))
               \/ (\E c \in QuoteMints : QuoteMintChanges(c)) \/ Tick \/ ClockAdvances
    BY <1>5, EnvironmentMovesMarket
       DEF PoolChanges, EpochChanges, QuoteMintChanges, Tick, ClockAdvances, Mirror!Next
  <1>6. CASE UNCHANGED vars
    BY <1>6, EnvironmentMovesMarket DEF vars, Mirror!Next
  <1> QED BY <1>1, <1>2, <1>3, <1>4, <1>5, <1>6 DEF Next

\* Whatever update() is handed and wherever it stops, a route behaves as a
\* mirror that takes one whole snapshot at a time.
THEOREM RoutesMirrorTheMarket == Spec => ImplementsMirror
  BY InitMirror, NextMirror, InductiveInvariant, PTL
     DEF Spec, ImplementsMirror, Mirror!Spec

-----------------------------------------------------------------------------
(* Quotes: every amount, every reserve, fee and tax a live pool and epoch can have *)

\* A pool with liquidity and rates of at most the whole, which is what the
\* programs keep in these accounts; its identity is one that is admitted.
LiveNumbers ==
  /\ \A p \in Pools : p.reserveA > 0 /\ p.reserveB > 0 /\ p.lpFeeBps \in Rate
  /\ \A e \in EpochStates :
       {e.crimeBuy, e.crimeSell, e.fraudBuy, e.fraudSell} \subseteq Rate
  /\ Amounts \subseteq U64
  /\ HasOneFactionSide(PoolId)

(* The formula, without the checked arithmetic *)

TaxOf(amount, bps)   == (amount * bps) \div 10000
AfterFee(amount, bps) == (amount * (10000 - bps)) \div 10000
CurveOut(rin, rout, eff) == (rout * eff) \div (rin + eff)

\* Nothing in, nothing out.
LEMMA NothingForNothing ==
  ASSUME NEW bps \in Rate, NEW rin \in Nat, rin > 0, NEW rout \in Nat
  PROVE  AfterFee(0, bps) = 0 /\ CurveOut(rin, rout, 0) = 0
  <1>1. 0 * (10000 - bps) = 0 /\ rout * 0 = 0
    BY Z3 DEF Rate, BPS_DENOM
  <1>2. 0 \div 10000 = 0 /\ 0 \div rin = 0
    BY Z3
  <1> QED BY <1>1, <1>2 DEF AfterFee, CurveOut

\* quote_buy succeeds on a live pool, and its output is the formula's.
LEMMA BuyIsFormula ==
  ASSUME NEW rq \in U64, NEW rf \in U64, rq > 0, NEW fee \in Rate, NEW bps \in Rate,
         NEW amount \in U64
  PROVE  LET q == QuoteBuy(rq, rf, fee, bps, amount)
         IN  /\ q.ok
             /\ q.out = CurveOut(rq, rf, AfterFee(amount - TaxOf(amount, bps), fee))
  <1> DEFINE taxed == CalculateTax(amount, bps)
             net   == amount - taxed
             eff   == CalculateEffectiveInput(net, fee)
             out   == CalculateSwapOutput(rq, rf, eff)
  <1>1. amount \in Nat /\ amount <= U64Max /\ U64Max \in Nat /\ rq \in Nat /\ rf \in Nat
    BY U64MaxAssumption DEF U64
  <1>2. taxed \in 0 .. amount /\ taxed = TaxOf(amount, bps)
    BY TaxNeverExceedsAmount DEF TaxOf, BPS_DENOM
  <1>3. net \in U64
    <2> HIDE DEF taxed
    <2> QED BY <1>1, <1>2 DEF U64
  <1> HIDE DEF taxed
  <1>4. eff \in 0 .. net /\ eff = AfterFee(net, fee)
    <2> HIDE DEF net
    <2> QED BY <1>3, EffectiveNeverExceedsInput DEF AfterFee, BPS_DENOM
  <1>5. net \in Nat /\ net <= U64Max
    BY <1>1, <1>3 DEF U64
  <1> HIDE DEF net
  <1> HIDE DEF eff
  <1>6. eff \in U64 /\ eff \in Nat
    BY <1>4, <1>5, <1>1 DEF U64
  <1>7. rq + eff > 0
    BY <1>1, <1>6
  <1>8. out = CurveOut(rq, rf, eff) /\ out \in 0 .. rf
    BY <1>6, <1>7, SwapOutputInRange DEF CurveOut
  <1> HIDE DEF out
  <1>9. taxed # None /\ ~(taxed > amount) /\ eff # None /\ out # None
    BY <1>1, <1>2, <1>6, <1>8 DEF None
  <1>10. QuoteBuy(rq, rf, fee, bps, amount)
           = IF net = 0 THEN QuoteOk(0, taxed, fee + bps)
             ELSE QuoteOk(out, BuyFee(taxed, net, eff), fee + bps)
    BY <1>9 DEF QuoteBuy, taxed, net, eff, out
  <1>11. net = 0 => CurveOut(rq, rf, AfterFee(net, fee)) = 0
    BY <1>1, NothingForNothing
  <1>12. net = amount - TaxOf(amount, bps)
    BY <1>2 DEF net
  <1> QED BY <1>4, <1>8, <1>10, <1>11, <1>12 DEF QuoteOk

\* quote_sell likewise.
LEMMA SellIsFormula ==
  ASSUME NEW rq \in U64, NEW rf \in U64, rf > 0, NEW fee \in Rate, NEW bps \in Rate,
         NEW amount \in U64
  PROVE  LET q     == QuoteSell(rq, rf, fee, bps, amount)
             gross == CurveOut(rf, rq, AfterFee(amount, fee))
         IN  q.ok /\ q.out = gross - TaxOf(gross, bps)
  <1> DEFINE eff   == CalculateEffectiveInput(amount, fee)
             gross == CalculateSwapOutput(rf, rq, eff)
             taxed == CalculateTax(gross, bps)
  <1>1. amount \in Nat /\ amount <= U64Max /\ U64Max \in Nat /\ rq \in Nat /\ rf \in Nat
        /\ rq <= U64Max
    BY U64MaxAssumption DEF U64
  <1>2. eff \in 0 .. amount /\ eff = AfterFee(amount, fee)
    BY EffectiveNeverExceedsInput DEF AfterFee, BPS_DENOM
  <1> HIDE DEF eff
  <1>3. eff \in U64 /\ eff \in Nat
    BY <1>1, <1>2 DEF U64
  <1>4. rf + eff > 0
    BY <1>1, <1>3
  <1>5. gross = CurveOut(rf, rq, eff) /\ gross \in 0 .. rq
    BY <1>3, <1>4, SwapOutputInRange DEF CurveOut
  <1> HIDE DEF gross
  <1>6. gross \in U64 /\ gross \in Nat
    BY <1>1, <1>5 DEF U64
  <1>7. taxed \in 0 .. gross /\ taxed = TaxOf(gross, bps)
    BY <1>6, TaxNeverExceedsAmount DEF TaxOf, BPS_DENOM
  <1> HIDE DEF taxed
  <1>8. eff # None /\ gross # None /\ taxed # None /\ ~(taxed > gross)
    BY <1>3, <1>6, <1>7 DEF None
  <1>9. QuoteSell(rq, rf, fee, bps, amount) = QuoteOk(gross - taxed, taxed, fee + bps)
    BY <1>8 DEF QuoteSell, eff, gross, taxed
  <1> QED BY <1>2, <1>5, <1>7, <1>9 DEF QuoteOk

(* The route's side *)

\* An admitted identity has its two mints in the two roles.
LEMMA Roles ==
  ASSUME HasOneFactionSide(PoolId)
  PROVE  /\ Faction # Quoted
         /\ \/ PoolId.mintA = Quoted /\ PoolId.mintB = Faction
            \/ PoolId.mintA = Faction /\ PoolId.mintB = Quoted
         /\ Faction \in FactionMints
  BY DEF HasOneFactionSide, Faction, Quoted, FactionMint, QuoteMint

\* What a route in sync quotes for its two pairs, by role.
LEMMA SyncedQuote ==
  ASSUME IInv, LiveNumbers, NEW r \in Routes, InSync(r), OnChainAdmits, clock = slot,
         NEW input, NEW output, NEW amount \in Amounts
  PROVE  LET q == Quote(amm[r], input, output, amount)
         IN  /\ q.ok <=> <<input, output>> \in {<<Quoted, Faction>>, <<Faction, Quoted>>}
             /\ q.ok => q.out = IF input = Quoted THEN ExecutedBuy(amount)
                                                  ELSE ExecutedSell(amount)
  <1> DEFINE a  == amm[r]
             p  == chain.pool
             e  == chain.epoch
             rq == ReserveOf(p, Quoted)
             rf == ReserveOf(p, Faction)
             isCrime == Faction = CRIME_MINT
             buy  == GetTaxBps(e, isCrime, TRUE)
             sell == GetTaxBps(e, isCrime, FALSE)
  <1>1. /\ a.pool = p /\ a.quoteMint = Quoted /\ a.factionMint = Faction
        /\ a.buyTaxBps = buy /\ a.sellTaxBps = sell
    <2>1. /\ a = Decoded(applied[r])
          /\ applied[r].pool.data = p /\ applied[r].epoch.data = e
      BY SyncedRoute
    <2> QED BY <2>1 DEF Decoded
  <1>2. IsActive(a)
    BY SyncedGate DEF GateMirrorsChain
  <1>3. p \in Pools /\ e \in EpochStates /\ p \in PoolState /\ p.id = PoolId
    BY PoolAssumption DEF IInv, TypeOK
  <1>4. /\ p.reserveA \in U64 /\ p.reserveB \in U64 /\ p.reserveA > 0 /\ p.reserveB > 0
        /\ p.lpFeeBps \in Rate /\ buy \in Rate /\ sell \in Rate /\ amount \in U64
    BY <1>3 DEF LiveNumbers, PoolState, GetTaxBps
  <1>5. ReserveQuote(a) = rq /\ ReserveFaction(a) = rf
    BY <1>1, <1>3, Roles DEF LiveNumbers, ReserveQuote, ReserveFaction, ReserveOf
  <1>6. rq \in U64 /\ rf \in U64 /\ rq > 0 /\ rf > 0
    BY <1>4 DEF ReserveOf
  <1>7. ExecutedBuy(amount)
          = CurveOut(rq, rf, AfterFee(amount - TaxOf(amount, buy), p.lpFeeBps))
    BY DEF ExecutedBuy, GetTaxBps, CurveOut, AfterFee, TaxOf
  <1>8. ExecutedSell(amount)
          = LET gross == CurveOut(rf, rq, AfterFee(amount, p.lpFeeBps))
            IN  gross - TaxOf(gross, sell)
    BY DEF ExecutedSell, GetTaxBps, CurveOut, AfterFee, TaxOf
  <1> HIDE DEF rq, rf, buy, sell
  <1>9. ValidateMintPair(a, input, output)
          <=> <<input, output>> \in {<<Quoted, Faction>>, <<Faction, Quoted>>}
    BY <1>1, Roles DEF ValidateMintPair, LiveNumbers
  <1>10. CASE ~ValidateMintPair(a, input, output)
    <2>1. ~Quote(a, input, output, amount).ok
      BY <1>10 DEF Quote, Err
    <2> QED BY <1>9, <1>10, <2>1
  <1>11. CASE ValidateMintPair(a, input, output) /\ input = Quoted
    <2>1. Quote(a, input, output, amount) = QuoteBuy(rq, rf, p.lpFeeBps, buy, amount)
      BY <1>1, <1>2, <1>5, <1>11 DEF Quote
    <2> DEFINE fee == p.lpFeeBps
               q   == QuoteBuy(rq, rf, fee, buy, amount)
    <2>2. fee \in Rate
      BY <1>4
    <2> HIDE DEF fee
    <2>3. q.ok /\ q.out = CurveOut(rq, rf, AfterFee(amount - TaxOf(amount, buy), fee))
      BY <1>4, <1>6, <2>2, BuyIsFormula
    <2>4. /\ Quote(a, input, output, amount).ok
          /\ Quote(a, input, output, amount).out = ExecutedBuy(amount)
      BY <1>7, <2>1, <2>3 DEF fee
    <2> QED BY <1>9, <1>11, <2>4
  <1>12. CASE ValidateMintPair(a, input, output) /\ input # Quoted
    <2>1. Quote(a, input, output, amount) = QuoteSell(rq, rf, p.lpFeeBps, sell, amount)
      BY <1>1, <1>2, <1>5, <1>12 DEF Quote
    <2> DEFINE fee == p.lpFeeBps
               q   == QuoteSell(rq, rf, fee, sell, amount)
    <2>2. fee \in Rate
      BY <1>4
    <2> HIDE DEF fee
    <2>3. q.ok /\ q.out = LET gross == CurveOut(rf, rq, AfterFee(amount, fee))
                           IN  gross - TaxOf(gross, sell)
      BY <1>4, <1>6, <2>2, SellIsFormula
    <2>4. /\ Quote(a, input, output, amount).ok
          /\ Quote(a, input, output, amount).out = ExecutedSell(amount)
      BY <1>8, <2>1, <2>3 DEF fee
    <2> QED BY <1>9, <1>12, <2>4
  <1> QED BY <1>10, <1>11, <1>12

\* An open route in sync with the chain quotes exactly what the swap pays, for
\* the two directed pairs of its pool and no other.
THEOREM QuotesAreExecuted ==
  ASSUME LiveNumbers
  PROVE  Spec => []QuotesMatchExecution
  <1>1. IInv => QuotesMatchExecution
    BY SyncedQuote DEF QuotesMatchExecution
  <1> QED BY <1>1, InductiveInvariant, PTL
=============================================================================
