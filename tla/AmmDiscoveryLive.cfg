\* Scans that recur find every pool; the bootstrap set is complete.
SPECIFICATION FairSpec
CONSTANTS
  Absent = Absent
  Malformed = Malformed
  NoParams = NoParams
  Invalid = Invalid
  Nothing = Nothing
  MintRank <- MCMintRank
  CellsAt <- LiveCellsAt
  Genesis <- LiveGenesis
  VaultListings <- NoListings
PROPERTIES PoolsGetListed BootstrapServesEveryDirection
