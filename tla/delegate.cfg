SPECIFICATION Spec
CONSTANTS
  Agents = {"lead", "helper", "price"}
  Functions = {"ask", "save", "pay"}
  Gated = {"pay", "save"}
  Writing = {"save"}
  ReadOnly = {"lead"}
  MaxSteps = 2
  Offers <- MCOffers
  Calls <- MCCalls
  Schema <- MCSchema
  Results <- MCResults
  Questions <- MCQuestions
CHECK_DEADLOCK FALSE
INVARIANTS EntersAsAllowed NoStandIn
PROPERTY StepEnds
