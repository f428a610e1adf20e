SPECIFICATION FairSpec
CONSTANTS
  Plans <- MCPlans
  Registry <- MCRegistry
INVARIANTS
  SortedOrKnotted
  LoopMatchesDefinition
PROPERTY Terminates
CHECK_DEADLOCK FALSE
