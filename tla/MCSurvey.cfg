CONSTANTS
  Pools = {1, 2}
  Accounts = {1, 2, 3}
  MaxShares = 2
  MaxMoves = 1
  InitialLedgers <- TwoPools
  NoManifest = NoManifest
  TornManifest = TornManifest
  NoPass = NoPass
  AccountPageSize = 2
  PoolPageSize = 2
  TradePageSize = 2
  MinNative = 5
  MIN_XLM = 5
  NativeLeg <- EnoughNative
  Swaps <- OneSwap
  Flags <- FullRun
SPECIFICATION ReadersSpec
INVARIANTS
  SurveyUsesTheRereadRow
