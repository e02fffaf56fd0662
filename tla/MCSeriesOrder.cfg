CONSTANTS
  CloseTimes = {1, 2}
  Prices = {0, 1, 2, 3}
  MaxTrades = 4
  DUST_THRESHOLD = 1
  Amounts <- AmountsInUse
SPECIFICATION Spec
INVARIANTS
  DeclineRanForward
