SPECIFICATION Spec
CONSTANTS
  MaxWord = 1000
  MaxSn = 9
  None = None
  Keys <- MCKeys
  NonTransferable = {}
  Digestive = {"G", "D", "R", "F", "S"}
  Saids <- MCSaids
  Thresholds <- MCThresholds
  Storms <- RivalsOnly
  Errands = {}
  Evidence <- MixedEvents
  Chains <- MixedChains
  Stored <- Known
INVARIANT
  SupersedesIsAntisymmetric
