SPECIFICATION Spec
CONSTANTS
  Messages <- MCMessages
  Strays <- MCStrays
  MaxAlterations = 1
  MaxHops = 1
  MaxFields = 18
  MaxDepth = 5
INVARIANTS
  WrittenIsRead
  AlterationsShow
  ForwardedAsWritten
CHECK_DEADLOCK FALSE
