\* One chunk, and a client that may disconnect.
SPECIFICATION FairSpec
CONSTANTS
  s1 = s1
  s2 = s2
  Subtasks <- OneSubtask
  ChunkSize = 1
  MaxData = 1
  MaxRetries = 0
  ProgressCap = 1
  ClientMayLeave = TRUE
  MinAgents = 1
  MaxAgents = 2
  MaxAttempts = 2
  NoAgent = NoAgent
  NoFile = NoFile
CHECK_DEADLOCK FALSE
PROPERTY TaskTerminates
