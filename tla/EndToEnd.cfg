SPECIFICATION E2EFairSpec
CONSTANTS
  s1 = s1
  Subtasks <- OneSubtask
  ChunkSize = 3
  MaxData = 3
  MaxRetries = 0
  ProgressCap = 1
  ClientMayLeave = TRUE
  MinAgents = 1
  MaxAgents = 1
  MaxAttempts = 2
  NoAgent = NoAgent
  NoFile = NoFile
  ChannelCap = 1
  StreamCap = 1
  ScreenWidth = 12
  FrameWidth = 2
  LineWidth <- MCLineWidth
  InboxCap = 1
CHECK_DEADLOCK FALSE
INVARIANTS E2ETypeOK CompletedFileIsWhole EofMeansWhole NoConcurrentSend CountedOnce BarSafe SentMeansOk
PROPERTIES PartServed ClientAnswered
