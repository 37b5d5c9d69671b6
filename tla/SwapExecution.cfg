\* Quoted swaps executed against a pool and taxes that move in between.
SPECIFICATION Spec
CONSTANTS
  NoOrder = NoOrder
  U64Max = 16383
  LpFeeBps = 100
  MaxSwaps = 3
  InitReserves <- MCReserves
  InitWallet <- MCWallet
  Taxes <- MCTaxes
  Amounts <- MCAmounts
  Slippages <- MCSlippages
INVARIANTS TypeOK NoProfitFromThePool ReportedFeeIsWithheld
PROPERTIES UnmovedMarketPaysQuote KNeverDecreases
