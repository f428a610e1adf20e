SPECIFICATION Spec
CONSTANTS
  Threads = {"main", "worker"}
  UserSpecs <- MCUserSpecs
  Tools <- MCTools
  Policies <- MCPolicies
CHECK_DEADLOCK FALSE
INVARIANT TablesWhole
PROPERTIES PatternsStay CallsStay
