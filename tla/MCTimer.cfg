\* Questions about overflow and measurements, up to the largest reading of
\* the counter and past it.
CONSTANTS
  Top <- MCTop
  Frequencies <- MCFrequencies
  Units <- MCUnits
  Windows <- MCWindows
  Null = Null
  MaxTime = 18
  MaxMarks = 3
SPECIFICATION Spec
INVARIANTS
  TypeOK
  DurationExact
  OverflowForeseen
