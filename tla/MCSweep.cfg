\* Every short option string against the grammar, and the loop of expand_range.
CONSTANTS
  Modulus <- MCModulus
  Ranges <- MCRanges
  Tokens <- MCTokens
  Strings <- MCStrings
  Value <- MCValue
  Null = Null
  Begin = 3
  End = 8
  ValidValues <- MCValid
  DefaultMin = 5
  DefaultMax = 11
  ValidNames <- MCNames
  NameMin = "2"
  NameMax = "4"
SPECIFICATION SweepSpec
INVARIANTS
  Progression
  NumericAsAsked
  FilteredAsAsked
PROPERTY NeverWraps
