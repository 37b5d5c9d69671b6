\* The SPL-quoted pool under clock fairness; refresh fairness is a premise.
SPECIFICATION FairSpec
CONSTANTS
  r1 = r1
  r2 = r2
  Routes = {r1, r2}
  Absent = Absent
  Malformed = Malformed
  Unborn = Unborn
  NoMap = NoMap
  Closed = Closed
  U64Max = 32767
  MaxSlot = 2
  MaxLapses = 1
  MintRank <- MCMintRank
  Amounts <- MCAmounts
  PoolId <- SplId
  Pools <- LivePools
  EpochStates <- LiveEpochs
  QuoteMints <- SplMints
  PoolFaults <- LiveFaults
  EpochFaults <- LiveFaults
  MintFaults <- LiveFaults
PROPERTIES EventuallyRoutable ImplementsMirror TornMapsHeal ReopensOnClock
