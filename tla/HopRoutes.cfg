\* Pools and vault composed into atomic routes.
SPECIFICATION Spec
CONSTANTS
  NoRoute = NoRoute
  U64Max = 16383
  LpFeeBps = 100
  MaxMoves = 3
  InitPools <- MCPools
  InitVault <- MCVault
  InitUser <- MCUser
  Taxes <- MCTaxes
  Paths <- MCPaths
  Amounts <- MCAmounts
  Slippages <- MCSlippages
  OtherAmounts <- MCOther
INVARIANTS TypeOK UnmovedRoutePaysQuote
PROPERTIES HeldTokensSpared NothingLeftBehind
