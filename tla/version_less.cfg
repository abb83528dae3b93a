SPECIFICATION Spec
CONSTANT Halves <- SmallAndLargest
INVARIANT LessMeansEarlier
