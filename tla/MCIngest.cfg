CONSTANTS
  Pools = {1, 2, 3}
  Accounts = {1, 2}
  MaxShares = 1
  MaxMoves = 1
  InitialLedgers <- ThreePools
  NoManifest = NoManifest
  TornManifest = TornManifest
  NoPass = NoPass
  AccountPageSize = 2
  PoolPageSize = 2
  TradePageSize = 2
  MinNative = 5
  NativeLeg <- Legs
  Swaps <- Histories
  Flags <- CommandLinesInUse
SPECIFICATION FairRunSpec
INVARIANTS
  RunTypeOK
  ManifestMatchesFiles
  OnlyTheDiskLosesTheManifest
  CleanExitIsComplete
  TradesAreRecentWindows
PROPERTIES
  KeepsTheDirectory
  RunMovesOn
  RunEnds
