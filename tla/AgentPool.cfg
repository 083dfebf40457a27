\* Three subtasks, three registrations, the code's three attempts.  Without
\* symmetry, for the liveness property.
SPECIFICATION FairSpec
CONSTANTS
  w1 = w1
  w2 = w2
  w3 = w3
  NoAgent = NoAgent
  Workers <- ThreeWorkers
  MaxAgents = 3
  MaxAttempts = 3
\* All agents may have left while every worker waits: the list then stops.
CHECK_DEADLOCK FALSE
INVARIANTS
  TypeOK
  Exclusive
  BusyIffHeld
  NoLostWakeup
PROPERTIES
  RemovedStaysRemoved
  ImplementsLease
  FreeAgentIsUsed
