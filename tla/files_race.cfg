\* One thread destroys a gzfile_t while another opens a capture.
SPECIFICATION Spec
CONSTANTS
  Threads = {t1, t2}
  Paths = {plain, zipped}
  Gz = {zipped}
  TempNames = {tmp1, tmp2}
  Descriptors <- ThreeDescriptors
SYMMETRY Symmetry
INVARIANT ValidIsOpen
