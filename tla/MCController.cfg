SPECIFICATION Spec
CONSTANTS
  None = None
  n0 = n0  n1 = n1  n2 = n2  n3 = n3  n4 = n4
  w1 = w1  w2 = w2  w3 = w3  w4 = w4  w5 = w5
  MaxWord = 100
  Base = 2
  MaxIndex = 7
  MaxSn = 4
  Stem <- MCStem
  Keys <- MCKeys
  NonTransferable <- MCNonTransferable
  Digestive <- MCDigestive
  Saids <- MCSaids
  Thresholds <- MCThresholds
  Names <- MCNames
  Specs <- MCSpecs
  Wishes <- MCWishes
INVARIANTS
  NoKeyServesTwice
  FoldAccepts
  Recoverable
  HonestOverlap
