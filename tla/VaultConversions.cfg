\* Quotes, routes and their execution against a moving vault.
SPECIFICATION Spec
CONSTANTS
  Absent = Absent
  Malformed = Malformed
  NoRoute = NoRoute
  U64Max = 32767
  MaxLapses = 1
  InitUser <- MCUser
  InitVault <- MCVault
  Amounts <- MCAmounts
  StaleAmounts <- MCStale
INVARIANTS TypeOK SyncedQuoteIsPayable
PROPERTIES ExactSpendsExact DeltaSparesSnapshot OverlapIsDeclared
