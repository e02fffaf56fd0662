CONSTANTS
  Pools = {1, 2, 3}
  Accounts = {1, 2, 3}
  MaxShares = 2
  MaxMoves = 2
  InitialLedgers <- OverlappingHolders
  NoManifest = NoManifest
  AccountPageSize = 2
SPECIFICATION Spec
INVARIANTS
  TypeOK
  QuietPoolsReconcile
  NoPositionTwice
  NoUnlabelledHole
  OwnWalkNeverFallsShort
  MismatchMeansMoved
  ShortfallsAreEarlierSightings
PROPERTIES
  KeepsThePromise
