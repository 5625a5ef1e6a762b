SPECIFICATION Spec
CONSTANT Scenarios <- AnyScenario
INVARIANTS
  FramesAsWritten
  ReadAsWritten
  LimitsAreExact
  ChunksDoNotMatter
  AsksInReason
CHECK_DEADLOCK FALSE
