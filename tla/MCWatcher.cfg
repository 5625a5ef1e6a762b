SPECIFICATION FairSpec
CONSTANTS
  MaxWord = 1000
  MaxSn = 9
  None = None
  Keys <- MCKeys
  NonTransferable <- MCWitnesses
  Digestive = {"E", "T"}
  Saids <- MCSaids
  Thresholds <- MCThresholds
  Events <- MCEvents
  Mails <- MCMails
  Repeated <- MCRepeated
  Acquaintances <- MCAcquaintances
INVARIANTS
  WitnessedByToad
  StandingIsBacked
PROPERTIES
  NewerOnly
  Settles
CHECK_DEADLOCK FALSE
