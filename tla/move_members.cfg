\* Three objects and three captures, moved about in every way, also in a loop.
SPECIFICATION Spec
CONSTANTS
  Objects = {o1, o2, o3}
  Captures = {c1, c2, c3}
  None = None
SYMMETRY Symmetry
INVARIANTS TypeOK HeaderStaysWithFile OneOwner 
PROPERTY LoopReadsOpen
