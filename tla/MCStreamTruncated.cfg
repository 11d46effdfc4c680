CONSTANTS
  Kinds <- TwoNative
  MaxUsage = 1
  HasDeadline = TRUE
SPECIFICATION Spec
INVARIANT RecordedAtMostOnce
