SPECIFICATION SessionsSpec
CONSTANTS
  p1 = p1
  p2 = p2
  p3 = p3
  Processes = {p1, p2, p3}
  Resumers = {"r"}
  Steps <- MCSteps
  Says = {"", "no"}
  Keep = 2
  MayDie = TRUE
CHECK_DEADLOCK FALSE
SYMMETRY Symmetry
INVARIANTS AnswersFit PruningFits
