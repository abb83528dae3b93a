CONSTANTS
  Captures <- UsedCaptures
  MaxCalls = 2
  MayCut = FALSE
SPECIFICATION FairReadSpec
INVARIANTS ReadTypeOK UnreadableOnlyIfLast
PROPERTIES CallsEnd CallsAdvance
\* The client may stop using the object at any time.
CHECK_DEADLOCK FALSE
