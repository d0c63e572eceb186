\* Without a crystal frequency the frequency of the TSC is in kHz.
CONSTANTS
  Machines <- MCMachines
  Null = Null
SPECIFICATION Spec
INVARIANT TscFrequencyInHz
