\* Scans of arbitrary accounts beside the factory and listed vaults.
SPECIFICATION Spec
CONSTANTS
  Absent = Absent
  Malformed = Malformed
  NoParams = NoParams
  Invalid = Invalid
  Nothing = Nothing
  MintRank <- MCMintRank
  CellsAt <- MCCellsAt
  Genesis <- MCGenesis
  VaultListings <- MCListings
INVARIANTS TypeOK OneRoutePerMarket AdvertisedIsBuildable DependenciesCoverLists KnownPoolsAgree
