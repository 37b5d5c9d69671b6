\* The CRIME/WSOL pool, safety.
SPECIFICATION Spec
CONSTANTS
  r1 = r1
  r2 = r2
  Routes = {r1, r2}
  Absent = Absent
  Malformed = Malformed
  Unborn = Unborn
  NoMap = NoMap
  Closed = Closed
  U64Max = 32767
  MaxSlot = 2
  MaxLapses = 2
  MintRank <- MCMintRank
  Amounts <- MCAmounts
  PoolId <- SolId
  Pools <- SolPools
  EpochStates <- SolEpochs
  QuoteMints <- SolMints
  PoolFaults <- SolPoolFaults
  EpochFaults <- MCEpochFaults
  MintFaults <- MCMintFaults
SYMMETRY Symmetry
INVARIANTS GateMirrorsChain QuotesMatchExecution
