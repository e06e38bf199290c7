\* Three threads that may be wrong about the sizes of their buffers.
CONSTANTS
  Threads = {p1, p2, p3}
  Blocks = {b1, b2, b3, b4}
  Sizes = {0, 1, 3}
  Calls = 5
  NoBuffer = NoBuffer
  Null = Null
  ZeroArea = ZeroArea
SPECIFICATION Spec
INVARIANTS
  TypeOK
  HeapMatchesOwners
  BytesExact
  PeakSound
SYMMETRY Symmetry
CHECK_DEADLOCK FALSE
