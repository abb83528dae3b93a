CONSTANTS
  Captures <- StaticCaptures
SPECIFICATION Spec
INVARIANTS HeaderOnlyAccepted
CHECK_DEADLOCK FALSE
