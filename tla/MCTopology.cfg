\* The topology builds with CPUs coming and going under them.
CONSTANTS
  Cpus <- MCCpus
  Hardware <- MCHardware
  NoLlc = NoLlc
  OfflineSets <- AnyOffline
  GroupSize = 2
  KeepsCapacity = TRUE
  MaxHotplug = 2
  LevelCounts <- MCLevels
  Platforms <- AllPlatforms
SPECIFICATION FairSpec
INVARIANTS
  TypeOK
  EveryCpuOnce
  LevelsCounted
  UntouchedInPlace
  TiersFollowCapacity
PROPERTY BuildEnds
