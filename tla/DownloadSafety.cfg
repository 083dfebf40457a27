\* Two chunks of one piece, short and long deliveries, agents that leave at
\* any time, a client that leaves at any time.  All goroutines may block (no
\* agents, or no reader of the progress channel): the system may stop.
SPECIFICATION Spec
CONSTANTS
  s1 = s1
  s2 = s2
  Subtasks <- TwoSubtasks
  ChunkSize = 1
  MaxData = 2
  MaxRetries = 1
  ProgressCap = 1
  ClientMayLeave = TRUE
  MinAgents = 0
  MaxAgents = 2
  MaxAttempts = 2
  NoAgent = NoAgent
  NoFile = NoFile
SYMMETRY Symmetry
CHECK_DEADLOCK FALSE
INVARIANTS
  TypeOK
  WorkersQuiescent
  OnlyWholeFiles
  SuccessMeansDelivered
