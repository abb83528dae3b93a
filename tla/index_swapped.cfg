CONSTANTS
  Captures <- StaticCaptures
SPECIFICATION Spec
INVARIANTS SwappedIndexAsWritten
CHECK_DEADLOCK FALSE
