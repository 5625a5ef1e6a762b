SPECIFICATION Spec
CONSTANTS
  Messages <- MCMessages
  Data <- Data1
  Marks <- MCMarks
  Reach = 12
INVARIANTS
  ReadsAsBuilt
  CutMeansMore
  RewritesAlike
  FormsAgree
  VerifiesAsSigned
CHECK_DEADLOCK FALSE
