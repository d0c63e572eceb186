\* Blocks from a heap that is moved between two allocator objects.
CONSTANTS
  Modulus = 32
  Heaps <- MCHeaps
  Requests <- MCRequests
  Objects = {o1, o2}
  Null = Null
  MaxBlocks = 3
SPECIFICATION Spec
INVARIANTS
  TypeOK
  OneOwner
  BlocksApart
CHECK_DEADLOCK FALSE
