\* A counter in the range taken for an HPET is above its threshold.
CONSTANTS
  Machines <- MCMachines
  Null = Null
SPECIFICATION Spec
INVARIANT TooHighForHpet
