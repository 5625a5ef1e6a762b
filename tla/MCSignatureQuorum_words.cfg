SPECIFICATION Spec
CONSTANTS
  MaxWord = 100
  MaxKeys = 4
  Thresholds <- Studied
INVARIANTS
  JudgesAsRationals
