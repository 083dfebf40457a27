\* A file of size 0 has no chunks.
SPECIFICATION FairSpec
CONSTANTS
  s1 = s1
  s2 = s2
  Subtasks <- NoSubtasks
  ChunkSize = 1
  MaxData = 1
  MaxRetries = 0
  ProgressCap = 1
  ClientMayLeave = FALSE
  MinAgents = 1
  MaxAgents = 2
  MaxAttempts = 2
  NoAgent = NoAgent
  NoFile = NoFile
CHECK_DEADLOCK FALSE
PROPERTY TaskTerminates
