\* One worker; the model values and limits of the code.
SPECIFICATION Spec
CONSTANTS
  Workers = {"w1"}
  MaxAgents = 1
  MaxAttempts = 3
  NoAgent = NoAgent
  MaxErrors = 3
  MaxFailures = 5
CHECK_DEADLOCK FALSE
INVARIANT FailingAgentRetired
