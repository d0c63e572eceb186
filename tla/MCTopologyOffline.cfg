\* An offline CPU is merged into core 0 and can demote it.
CONSTANTS
  Cpus <- MCCpus
  Hardware <- MCHardware
  NoLlc = NoLlc
  OfflineSets <- AnyOffline
  GroupSize = 2
  KeepsCapacity = TRUE
  MaxHotplug = 0
  LevelCounts <- MCLevels
  Platforms <- LinuxOnly
SPECIFICATION Spec
INVARIANT HighestIsTierZero
