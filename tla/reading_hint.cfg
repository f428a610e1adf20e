SPECIFICATION ReadingSpec
CONSTANTS
  InlineChars = 4
  MinHalf = 2
  DocLength = 10
  MaxSteps = 9
  Hits <- MCHits
  Keeps = {1, 2, 9}
CHECK_DEADLOCK FALSE
INVARIANT SaysWhatIsNext
