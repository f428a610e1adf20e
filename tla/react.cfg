SPECIFICATION FairSpec
CONSTANTS
  Tools <- MCTools
  Gated <- MCGated
  Questions <- MCQuestions
  Harness <- MCHarness
  Unknown = "nosuch"
  MaxSteps = 3
  CompactKeep = 1
  Compacts = TRUE
  MaxRuns = 2
INVARIANTS
  StepPerAct
  EntersAsAllowed
  FoldedOnce
  EndStatus
PROPERTIES
  ImplementsContract
  RunsEnd
CHECK_DEADLOCK FALSE
