SPECIFICATION FairSpec
CONSTANTS
  MaxWord = 1000
  MaxSn = 9
  None = None
  Keys <- MCKeys
  NonTransferable <- MCWitnesses
  Digestive = {"E"}
  Saids <- MCSaids
  Thresholds <- MCThresholds
  Storms <- AnyStorm
  Errands <- AnyErrand
  Evidence <- OnlyNone
  Chains <- NoChains
  Stored <- KnownOrNot
INVARIANTS
  FoldsAgree
  Attested
  SupersedesIsAntisymmetric
PROPERTIES
  KeepsPromise
  ErrandSettles
CHECK_DEADLOCK FALSE
