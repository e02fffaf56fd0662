CONSTANTS
  MaxShares = 2
  MaxEffects = 5
  PageSize = 2
  MAX_PAGES = 2
SPECIFICATION Spec
INVARIANTS
  TypeOK
  CompleteIsRecoverable
  PartialPredates
  InconclusiveMeansUnseen
