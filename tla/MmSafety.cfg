CONSTANTS
  Junk = Junk
  CHUNKSIZE = 32
  MAX_HEAP = 128
  SizeValues = 512
  Ids = {i1, i2, i3}
  HighIds = {i3}
  LowByte <- MCLowByte
  Sizes = {8, 12, 24, 40, 248}
  TraceBound = 4
  n = 2
SPECIFICATION Spec
INVARIANTS TypeOK TagsTile FreeListExact AllocatedAreLive RunsRepeat UtilizationSound
PROPERTIES NeverBad ImplementsAllocator
VIEW View
SYMMETRY Symmetry
