\* One move is enough.
SPECIFICATION Spec
CONSTANTS
  Objects = {o1, o2, o3}
  Captures = {c1, c2}
  None = None
INVARIANT IndexOfItsFile
