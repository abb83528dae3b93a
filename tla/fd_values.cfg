\* Numbers of two and four bytes through two descriptors; all versions.
CONSTANTS
  Base = 2
  Types <- SomeTypes
  Numbers <- SomeNumbers
  Offsets = {0, 2, 6}
  Room = 4
  MaxChanges = 2
  Halves <- SmallAndLargest
SPECIFICATION ValuesSpec
INVARIANTS FdTypeOK NumbersSurvive  GreaterMeansLater
PROPERTIES TailLands 
