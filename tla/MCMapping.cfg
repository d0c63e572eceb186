\* create_mapping_numa and create_mapping_phte on every small topology and
\* on the machines of the unit tests; workers pinned by them.
CONSTANTS
  Trees <- MCTrees
  Programs <- MCPrograms
  CpuSetSize = 3
  MaxHotplug = 2
SPECIFICATION Program
INVARIANTS
  TypeOK
  MappedOnce
  AllMapped
  Balanced
  DefaultThreadsOnOwnCores
  AsTested
  PinnedApart
  PinnedUnlessRefused
PROPERTIES
  PolicySpec
  Terminates
