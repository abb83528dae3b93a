CONSTANTS
  Streams <- ShortStreams
  Rooms = {0, 1, 4, 6, 7, 20}
  BufferLen = 3
  Modulus = 8
SPECIFICATION FairGzSpec
INVARIANTS GzTypeOK SuccessIsComplete FailureHasReason
PROPERTIES CopySpec ExtractEnds ExtractAdvances
\* decompress_to() returns; its caller is not part of this model.
CHECK_DEADLOCK FALSE
