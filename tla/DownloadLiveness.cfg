\* Two chunks, a client that stays, and an agent list that does not dry up.
SPECIFICATION FairSpec
CONSTANTS
  s1 = s1
  s2 = s2
  Subtasks <- TwoSubtasks
  ChunkSize = 1
  MaxData = 1
  MaxRetries = 0
  ProgressCap = 1
  ClientMayLeave = FALSE
  MinAgents = 1
  MaxAgents = 2
  MaxAttempts = 2
  NoAgent = NoAgent
  NoFile = NoFile
\* After the task has ended and all agents have registered, nothing is left to do.
CHECK_DEADLOCK FALSE
PROPERTIES
  TaskTerminates
  ReporterEnds
