\* Caps under refresh fairness.
SPECIFICATION FairSpec
CONSTANTS
  Absent = Absent
  Malformed = Malformed
  NoRoute = NoRoute
  U64Max = 32767
  MaxLapses = 1
  InitUser <- LiveUser
  InitVault <- LiveVault
  Amounts <- LiveAmounts
  StaleAmounts <- MCStale
PROPERTY CapsCatchUp
