\* Clocks, features and memory, as told and as shown.
CONSTANTS
  Machines <- MCMachines
  Null = Null
SPECIFICATION Spec
INVARIANTS
  UnderlyingIsTheClocks
  
  MemoryShown
