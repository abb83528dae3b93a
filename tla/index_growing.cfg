\* A capture that its writer may still be appending to, with and without I/O
\* errors.
CONSTANTS
  Captures <- GrowingCaptures
SPECIFICATION FairSpec
INVARIANTS TypeOK IndexTiles  EmptyIndexOnlyIfBornEmpty
           IndexAsWritten HeaderAsWritten 
PROPERTIES ScanSpec Constructed ConstructAdvances
\* The constructor returns; its caller is not part of this model.
CHECK_DEADLOCK FALSE
