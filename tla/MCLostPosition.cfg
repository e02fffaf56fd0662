CONSTANTS
  Pools = {1, 2}
  Accounts = {1, 2, 3}
  MaxShares = 2
  MaxMoves = 2
  InitialLedgers <- OverlappingHolders
  NoManifest = NoManifest
  AccountPageSize = 2
SPECIFICATION Spec
PROPERTIES
  SightedPositionsAreOnFile
