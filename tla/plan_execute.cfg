SPECIFICATION FairSpec
CONSTANTS
  Id <- MCId
  Registry <- MCRegistry
  Gated <- MCGated
  Asking <- MCAsking
  Plans <- MCPlans
  Edits <- MCEdits
  MaxIterations = 3
  MaxRuns = 2
INVARIANTS
  ApprovedBeforeRun
  DeniedNeverRuns
  ApprovalIsUsed
  RunsOnCleanLevels
  ResultsMatchCursor
  EndStatus
  OnlyBlessedPlansRun
PROPERTIES
  ImplementsContract
  RunsEnd
CHECK_DEADLOCK FALSE
