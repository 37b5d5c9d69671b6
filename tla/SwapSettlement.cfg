\* Account lists built by every instance, read and executed by the programs.
SPECIFICATION Spec
CONSTANTS
  Absent = Absent
  Malformed = Malformed
  NoOrder = NoOrder
  U64Max = 16383
  LpFeeBps = 100
  BuyTaxBps = 400
  SellTaxBps = 1300
  InitReserve = 3000
  Slippage = 40
  MaxSwaps = 2
  MintRank <- MCMintRank
  Pools <- MCPools
  Holders <- MCHolders
  InitTrader <- MCTrader
  Amounts <- MCAmounts
INVARIANTS TypeOK BuiltSwapsAreAccepted ListsAskForNoMore
PROPERTIES SettlesAsOrdered RoutedSwapsSpareLamports
CHECK_DEADLOCK FALSE
