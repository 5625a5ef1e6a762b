SPECIFICATION FairSpec
CONSTANTS
  MaxWord = 1000
  MaxSn = 9
  None = None
  Keys <- MCKeys
  NonTransferable <- MCKeys
  Digestive = {"E", "V", "W", "c1", "c2"}
  Saids <- MCSaids
  Thresholds <- MCThresholds
  Registries = {"V", "W"}
  Credentials = {"c1", "c2"}
  TelStorms <- AnyStorm
  TelErrands <- AnyErrand
  BackerWishes <- AnyWishes
  IssuerEvents <- AnyEvents
INVARIANTS
  BackersOfTheirTime
  SealedByIssuer
  BuiltIsAdmitted
PROPERTIES
  KeepsPromise
  TerminalIsFinal
  TelSettles
CHECK_DEADLOCK FALSE
