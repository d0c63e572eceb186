\* The estimated total time leaves out most of the pauses.
CONSTANTS
  HarnessVariables <- MCVariables
  VarNames <- MCVarNames
  OptStrings <- MCOptions
  SubRuns <- MCSubRuns
  WaitTimes <- MCWaits
  Scores <- MCScores
  Null = Null
  Modulus = 256
  Tiny = 2
  Huge = 10
  MaxCalls = 1
SPECIFICATION Spec
INVARIANT EstimateCoversSweep
