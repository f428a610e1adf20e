SPECIFICATION Spec
CONSTANTS
  Nodes = {"n1", "n2"}
  Threads = {"t1", "t2"}
  Kinds = {"planner", "policy", "compact", "workflow"}
  Clients = {"openai", "anthropic", "any"}
  Tracing = TRUE
  Renders <- MCRenders
  Window = 3
  Replies <- MCReplies
  Retries = 1
INVARIANT OverflowIsGraceful
