SPECIFICATION Spec
CONSTANTS
  Tools <- MCTools
  Gated <- MCGated
  Questions <- MCQuestions
  Writing = {"write"}
  Overflows = TRUE
  MaxRuns = 2
  Patterns <- MCPatterns
  Steps <- MCSteps
  Routes = {"pay", "agent", "write"}
  Agents = {"agent"}
  Fallbacks = {"none", "agent", "typo"}
  Sections <- MCSections
  Aggregate = "llm"
  Generators = {"llm", "pay", "hire"}
  MaxDrafts = 3
  Workers = {"hire", "write"}
  MaxWorkers = 2
  MaxRounds = 2
  ReadOnlyWorkers = TRUE
INVARIANTS
  EntersAsAllowed
  EndStatus
  StepsInOrder
  OneRoute
  BranchesCombine
  DraftsAreJudged
  SynthesisIsFresh
PROPERTIES
  ImplementsContract
  RunsEnd
CHECK_DEADLOCK FALSE
