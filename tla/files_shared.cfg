\* Clients that construct captures as they please, or one at a time.
SPECIFICATION Spec
CONSTANTS
  Threads = {t1, t2}
  Paths = {plain, zipped}
  Gz = {zipped}
  TempNames = {tmp1, tmp2, tmp3, tmp4}
  Descriptors <- ThreeDescriptors
SYMMETRY Symmetry
INVARIANTS TypeOK DescriptorsKept NoDescriptorLeaks TempsRemoved
