SPECIFICATION NodeFairSpec
CONSTANTS
  Workers = {}
  MaxAgents = 5
  MaxAttempts = 1
  NoAgent = NoAgent
  Nobody = Nobody
  NoProc = NoProc
  Procs = {p1, p2}
  Machines <- MCMachines
  Spent = 1
  TimerTicks = 3
  MaxErrors = 1
  MaxFaults = 2
INVARIANTS NodeTypeOK TimerForEveryAgent OwnHeartbeats AtMostOneDaemon RunningIsNamed
PROPERTIES LiveAgentKept LiveAgentListed DeadAgentDropped
