SPECIFICATION Spec
CONSTANTS
  MaxWord = 1000
  MaxSn = 9
  None = None
  Keys <- MCKeys
  NonTransferable <- MCWitnesses
  Digestive = {"E"}
  Saids <- MCSaids
  Thresholds <- MCThresholds
  Storms <- HonestOnly
  Errands = {}
  Evidence <- OnlyNone
  Chains <- NoChains
  Stored <- Known
PROPERTY
  TerminalIsFinal
