\* Two calls of run(): results, progress, pauses and statistics.
CONSTANTS
  HarnessVariables <- MCVariables
  VarNames <- MCVarNames
  OptStrings <- MCOptions
  SubRuns <- MCSubRuns
  WaitTimes <- OneWait
  Scores <- MCScores
  Null = Null
  Modulus = 256
  Tiny = 2
  Huge = 10
  MaxCalls = 2
SPECIFICATION FairSpec
INVARIANTS
  TypeOK
  ScoresInPlace
  RowsSound
  ResultsComplete
PROPERTIES
  PlanSpec
  CallReturns
