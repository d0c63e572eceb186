\* Two buffers through all allocators, moves, conversions and failures.  After
\* a release that is undefined nothing more is modelled: the run may end there.
CONSTANTS
  a1 = a1
  a2 = a2
  a3 = a3
  b1 = b1
  b2 = b2
  Null = Null
  Modulus = 16
  PageSizes <- MCPageSizes
  PoolPages = 4
  ElementSize = 2
  OtherSize = 4
  Buffers <- MCBuffers
  Counts <- MCCounts
  Addrs <- MCAddrs
SYMMETRY Symmetry
SPECIFICATION Spec
CHECK_DEADLOCK FALSE
INVARIANTS
  TypeOK
  OwnedOnce
  ElementsFit
  PagesConserved
  NoOtherLeak
