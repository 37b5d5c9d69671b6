\* The documented liquidity cap, which a failed update() breaks.
SPECIFICATION Spec
CONSTANTS
  Absent = Absent
  Malformed = Malformed
  NoRoute = NoRoute
  U64Max = 32767
  MaxLapses = 1
  InitUser <- MCUser
  InitVault <- MCVault
  Amounts <- MCAmounts
  StaleAmounts <- MCStale
INVARIANT QuotesWithinLiquidity
