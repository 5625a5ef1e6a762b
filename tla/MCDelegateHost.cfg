SPECIFICATION FairSpec
CONSTANTS
  MaxWord = 1000
  MaxSn = 9
  None = None
  Keys <- MCKeys
  NonTransferable = {}
  Digestive = {"G", "D", "R", "F", "S"}
  Saids <- MCSaids
  Thresholds <- MCThresholds
  Storms <- WorldOnly
  Errands <- RivalsOnly
  Evidence <- AnyEvents
  Chains <- AnyChains
  Stored <- KnownOrNot
INVARIANTS
  SealedByDelegator
PROPERTIES
  RivalsSettle
CHECK_DEADLOCK FALSE
