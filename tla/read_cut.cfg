CONSTANTS
  Captures <- FlakyCaptures
  MaxCalls = 3
  MayCut = TRUE
SPECIFICATION ReadSpec
INVARIANTS CacheMatchesIndex ReadsAsWritten LoopVisitsAll
PROPERTIES EditsLostOnlyByRereading
\* The client may stop using the object at any time.
CHECK_DEADLOCK FALSE
