------------------------- MODULE AgentRegistryProofs --------------------------
(***************************************************************************)
(* Proofs about AgentRegistry, for any number of agent processes, any      *)
(* length of the heartbeat timer and any number of faults.                 *)
(***************************************************************************)
EXTENDS AgentRegistry, TLAPS

\* Identifiers are given out in order: those still to come are not in use.
InOrder ==
  /\ \A i \in Registered : i < nextID
  /\ \A i \in AgentIds : i \in timers \/ waiter[i] # "none" => i < nextID

\* A goroutine has dropped its agent before it deletes the timer.
DroppedFirst == \A i \in AgentIds : waiter[i] = "deleting" => i \notin Registered

\* Between the two steps of a Register its agent has no goroutine that could
\* drop it, and nobody else stores its timer.
OwnStore ==
  \A p \in Procs : handler[p] = "map" =>
    /\ callID[p] \in Registered
    /\ owner[callID[p]] = p
    /\ waiter[callID[p]] = "none"

\* A process that has registered with this server uses its own identifier, in
\* its loop and in the call that is open.
Owns(p, i) == i \in AgentIds /\ (p \notin stale => i < nextID /\ owner[i] = p)
OwnIds ==
  \A p \in Procs :
    /\ loop[p] \in {"beating", "awaiting"} => Owns(p, id[p])
    /\ handler[p] \in {"find", "reset"} => Owns(p, callID[p])

Inv == TypeOK /\ InOrder /\ DroppedFirst /\ OwnStore /\ OwnIds /\ TimerForEveryAgent

LEMMA InitInv ==
  ASSUME NEW f \in 0..MaxFaults
  PROVE  RegistryInit(f) => Inv
  BY RegistryAssumption, AgentsAssumption
  DEF RegistryInit, Inv, TypeOK, InOrder, DroppedFirst, OwnStore, OwnIds, Owns,
      TimerForEveryAgent, Registered, AgentIds, Pool!Init, Pool!TypeOK, Pool!Registered,
      Pool!AgentIds, Pool!PCs, Pool!Holding

LEMMA StartInv == ASSUME NEW p \in Procs PROVE Inv /\ Start(p) => Inv'
  BY DEF Inv, TypeOK, InOrder, DroppedFirst, OwnStore, OwnIds, Owns, TimerForEveryAgent,
      Registered, AgentIds, Pool!TypeOK, Pool!Registered, Pool!AgentIds,
      poolVars, timerVars, callVars, loopVars,
      Start

LEMMA DieInv == ASSUME NEW p \in Procs PROVE Inv /\ Die(p) => Inv'
  BY DEF Inv, TypeOK, InOrder, DroppedFirst, OwnStore, OwnIds, Owns, TimerForEveryAgent,
      Registered, AgentIds, Pool!TypeOK, Pool!Registered, Pool!AgentIds,
      poolVars, timerVars, callVars, loopVars,
      Die

\* The loops of the agent processes; those with an identifier in use.
Loops == {"off", "idle", "registering", "beating", "awaiting", "dead"}
InUse(p) == loop[p] \in {"beating", "awaiting"}

\* The variables of the loops have their types, and no process but those in P
\* begins to use an identifier, or to be known to this server.
LoopsKept(P) ==
  /\ loop' \in [Procs -> Loops]
  /\ id' \in [Procs -> AgentIds \cup {NoAgent}]
  /\ errCount' \in [Procs -> 0..MaxErrors]
  /\ due' \in [Procs -> BOOLEAN]
  /\ stale' \in SUBSET Procs
  /\ \A q \in Procs \ P :
       InUse(q)' => InUse(q) /\ id'[q] = id[q] /\ (q \in stale => q \in stale')

\* Calls that end with an error: the loops have their types, none waits for an
\* answer and none begins to use an identifier.
LEMMA CallsFailEffect ==
  ASSUME TypeOK, NEW P \in SUBSET Procs, CallsFail(P)
  PROVE  /\ loop' \in [Procs -> Loops]
         /\ id' = id
         /\ errCount' \in [Procs -> 0..MaxErrors]
         /\ due' \in [Procs -> BOOLEAN]
         /\ \A q \in Procs : InUse(q)' => InUse(q)
         /\ \A q \in P : loop'[q] # "awaiting"
<1>1. \A p \in Procs : LoopAfterError(p) \in Loops \ {"awaiting"}
  BY DEF LoopAfterError, Loops, TypeOK
<1>2. \A p \in Procs : LoopAfterError(p) \in {"beating", "awaiting"} => InUse(p)
  BY DEF LoopAfterError, InUse
<1>3. \A p \in Procs : CountAfterError(p) \in 0..MaxErrors
  BY RegistryAssumption DEF CountAfterError, TypeOK
<1>4. loop' \in [Procs -> Loops] /\ \A q \in P : loop'[q] # "awaiting"
  BY <1>1 DEF CallsFail, Loops, TypeOK
<1>5. errCount' \in [Procs -> 0..MaxErrors]
  BY <1>3 DEF CallsFail, TypeOK
<1>6. due' \in [Procs -> BOOLEAN] /\ id' = id
  BY DEF CallsFail, TypeOK
<1>7. \A q \in Procs : InUse(q)' => InUse(q)
  BY <1>2 DEF CallsFail, InUse
<1> QED BY <1>4, <1>5, <1>6, <1>7

\* The answer to a Heartbeat.
LEMMA AnswerEffect ==
  ASSUME TypeOK, NEW p \in Procs, Accepted(p) \/ Rejected(p)
  PROVE  LoopsKept({}) /\ faults' \in 0..MaxFaults /\ stale' = stale
<1>1. CASE CallsFail({p}) /\ UNCHANGED stale /\ (Fault \/ UNCHANGED faults)
  BY <1>1, CallsFailEffect, RegistryAssumption DEF LoopsKept, TypeOK, Fault
<1>2. CASE Unheard(p)
  BY <1>2 DEF Unheard, loopVars, LoopsKept, Loops, InUse, TypeOK
<1>3. CASE /\ loop[p] = "awaiting"
           /\ loop' = [loop EXCEPT ![p] = "beating"]
           /\ errCount' = [errCount EXCEPT ![p] = IF @ > 0 THEN @ - 1 ELSE 0]
           /\ UNCHANGED <<id, due, stale, faults>>
  BY <1>3, RegistryAssumption DEF LoopsKept, Loops, InUse, TypeOK
<1> QED BY <1>1, <1>2, <1>3 DEF Accepted, Rejected, AnswerLost

\* The answer to a Register: the process may begin to use the identifier.
LEMMA RegistrationEffect ==
  ASSUME TypeOK, NEW p \in Procs, callID[p] \in AgentIds, Registration(p)
  PROVE  /\ LoopsKept({p}) /\ faults' \in 0..MaxFaults
         /\ \A q \in Procs \ {p} : q \in stale <=> q \in stale'
         /\ InUse(p)' => id'[p] = callID[p] \/ (InUse(p) /\ id'[p] = id[p] /\ stale' = stale)
<1>1. CASE AnswerLost(p)
  <2>1. LoopsKept({})
    BY <1>1, CallsFailEffect DEF AnswerLost, LoopsKept, TypeOK
  <2> QED BY <1>1, <2>1, RegistryAssumption DEF AnswerLost, LoopsKept, TypeOK, Fault
<1>2. CASE Unheard(p)
  BY <1>2 DEF Unheard, loopVars, LoopsKept, Loops, InUse, TypeOK
<1>3. CASE /\ loop[p] = "registering"
           /\ loop' = [loop EXCEPT ![p] = "beating"]
           /\ id' = [id EXCEPT ![p] = callID[p]]
           /\ errCount' = [errCount EXCEPT ![p] = 0]
           /\ stale' = stale \ {p}
           /\ UNCHANGED <<due, faults>>
  BY <1>3, RegistryAssumption DEF LoopsKept, Loops, InUse, TypeOK
<1> QED BY <1>1, <1>2, <1>3 DEF Registration

\* A new agent gives the pool no ill-typed value.
LEMMA PoolAddType == Pool!TypeOK /\ Pool!AddAgent => Pool!TypeOK'
<1> SUFFICES ASSUME Pool!TypeOK, Pool!AddAgent PROVE Pool!TypeOK'
  OBVIOUS
<1>1. pc' \in [Workers -> Pool!PCs]
  BY DEF Pool!TypeOK, Pool!AddAgent, Pool!Signalled, Pool!PCs
<1>2. nextID' \in 0..MaxAgents /\ freeAgents' \in SUBSET Pool!AgentIds
  BY AgentsAssumption DEF Pool!TypeOK, Pool!AddAgent, Pool!AgentIds
<1> QED BY <1>1, <1>2 DEF Pool!TypeOK, Pool!AddAgent

LEMMA CallRegisterInv == ASSUME NEW p \in Procs PROVE Inv /\ CallRegister(p) => Inv'
  <1> SUFFICES ASSUME Inv, CallRegister(p) PROVE Inv'
    OBVIOUS
  <1> USE RegistryAssumption, AgentsAssumption
      DEF Inv, TypeOK, InOrder, DroppedFirst, OwnStore, OwnIds, Owns, TimerForEveryAgent,
         Registered, AgentIds, Pool!TypeOK, Pool!Registered, Pool!AgentIds,
         poolVars, timerVars, callVars,
         CallRegister, Call
  <1>1. TypeOK'
    OBVIOUS
  <1>2. InOrder'
    OBVIOUS
  <1>3. DroppedFirst'
    OBVIOUS
  <1>4. OwnStore'
    OBVIOUS
  <1>5. OwnIds'
    OBVIOUS
  <1>6. TimerForEveryAgent'
    OBVIOUS
  <1> QED BY <1>1, <1>2, <1>3, <1>4, <1>5, <1>6 DEF Inv

LEMMA CallHeartbeatInv == ASSUME NEW p \in Procs PROVE Inv /\ CallHeartbeat(p) => Inv'
  <1> SUFFICES ASSUME Inv, CallHeartbeat(p) PROVE Inv'
    OBVIOUS
  <1> USE RegistryAssumption, AgentsAssumption
      DEF Inv, TypeOK, InOrder, DroppedFirst, OwnStore, OwnIds, Owns, TimerForEveryAgent,
         Registered, AgentIds, Pool!TypeOK, Pool!Registered, Pool!AgentIds,
         poolVars, timerVars, callVars,
         CallHeartbeat, Call
  <1>1. TypeOK'
    OBVIOUS
  <1>2. InOrder'
    OBVIOUS
  <1>3. DroppedFirst'
    OBVIOUS
  <1>4. OwnStore'
    OBVIOUS
  <1>5. OwnIds'
    OBVIOUS
  <1>6. TimerForEveryAgent'
    OBVIOUS
  <1> QED BY <1>1, <1>2, <1>3, <1>4, <1>5, <1>6 DEF Inv

LEMMA CallLostInv == ASSUME NEW p \in Procs PROVE Inv /\ CallLost(p) => Inv'
  <1> SUFFICES ASSUME Inv, CallLost(p) PROVE Inv'
    OBVIOUS
  <1>1. TypeOK'
    <2>1. Pool!TypeOK'
      BY RegistryAssumption DEF Inv, TypeOK, CallLost, timerVars, callVars, Fault, Pool!TypeOK, poolVars
    <2>2. /\ up' \in BOOLEAN /\ owner' \in [AgentIds -> Procs \cup {Nobody}]
          /\ timers' \in SUBSET AgentIds
          /\ left' \in [AgentIds -> 0..TimerTicks]
          /\ waiter' \in [AgentIds -> {"none", "waiting", "deleting"}]
      BY RegistryAssumption DEF Inv, TypeOK, CallLost, timerVars, callVars, Fault
    <2>3. /\ handler' \in [Procs -> {"none", "add", "map", "find", "reset"}]
          /\ callID' \in [Procs -> AgentIds \cup {NoAgent}]
      BY RegistryAssumption DEF Inv, TypeOK, CallLost, timerVars, callVars, Fault
    <2>4. /\ loop' \in [Procs -> {"off", "idle", "registering", "beating", "awaiting", "dead"}]
          /\ id' \in [Procs -> AgentIds \cup {NoAgent}]
          /\ errCount' \in [Procs -> 0..MaxErrors]
          /\ due' \in [Procs -> BOOLEAN]
      BY RegistryAssumption DEF Inv, TypeOK, CallLost, timerVars, callVars, Fault
    <2>5. stale' \in SUBSET Procs /\ faults' \in 0..MaxFaults
      BY RegistryAssumption DEF Inv, TypeOK, CallLost, timerVars, callVars, Fault
    <2> QED BY <2>1, <2>2, <2>3, <2>4, <2>5 DEF TypeOK
  <1> USE RegistryAssumption, AgentsAssumption
      DEF Inv, TypeOK, InOrder, DroppedFirst, OwnStore, OwnIds, Owns, TimerForEveryAgent,
         Registered, AgentIds, Pool!TypeOK, Pool!Registered, Pool!AgentIds,
         poolVars, timerVars, callVars,
         CallLost, Fault
  <1>2. InOrder'
    OBVIOUS
  <1>3. DroppedFirst'
    OBVIOUS
  <1>4. OwnStore'
    OBVIOUS
  <1>5. OwnIds'
    OBVIOUS
  <1>6. TimerForEveryAgent'
    OBVIOUS
  <1> QED BY <1>1, <1>2, <1>3, <1>4, <1>5, <1>6 DEF Inv

LEMMA AddAgentInv == ASSUME NEW p \in Procs PROVE Inv /\ AddAgent(p) => Inv'
  <1> SUFFICES ASSUME Inv, AddAgent(p) PROVE Inv'
    OBVIOUS
  <1> USE RegistryAssumption, AgentsAssumption
      DEF Inv, TypeOK, InOrder, DroppedFirst, OwnStore, OwnIds, Owns, TimerForEveryAgent,
         Registered, AgentIds, Pool!TypeOK, Pool!Registered, Pool!AgentIds,
         poolVars, timerVars, callVars,
         AddAgent, loopVars, Pool!AddAgent, Pool!Signalled, Pool!PCs, Pool!Holding
  <1>1. TypeOK'
    <2>1. Pool!TypeOK'
      BY PoolAddType
    <2>2. /\ up' \in BOOLEAN /\ owner' \in [AgentIds -> Procs \cup {Nobody}]
          /\ timers' \in SUBSET AgentIds
          /\ left' \in [AgentIds -> 0..TimerTicks]
          /\ waiter' \in [AgentIds -> {"none", "waiting", "deleting"}]
      OBVIOUS
    <2>3. /\ handler' \in [Procs -> {"none", "add", "map", "find", "reset"}]
          /\ callID' \in [Procs -> AgentIds \cup {NoAgent}]
      OBVIOUS
    <2>4. /\ loop' \in [Procs -> {"off", "idle", "registering", "beating", "awaiting", "dead"}]
          /\ id' \in [Procs -> AgentIds \cup {NoAgent}]
          /\ errCount' \in [Procs -> 0..MaxErrors]
          /\ due' \in [Procs -> BOOLEAN]
      OBVIOUS
    <2>5. stale' \in SUBSET Procs /\ faults' \in 0..MaxFaults
      OBVIOUS
    <2> QED BY <2>1, <2>2, <2>3, <2>4, <2>5
  <1>2. InOrder'
    OBVIOUS
  <1>3. DroppedFirst'
    OBVIOUS
  <1>4. OwnStore'
    OBVIOUS
  <1>5. OwnIds'
    OBVIOUS
  <1>6. TimerForEveryAgent'
    OBVIOUS
  <1> QED BY <1>1, <1>2, <1>3, <1>4, <1>5, <1>6 DEF Inv

LEMMA StoreTimerInv == ASSUME NEW p \in Procs PROVE Inv /\ StoreTimer(p) => Inv'
  <1> SUFFICES ASSUME Inv, StoreTimer(p) PROVE Inv'
    OBVIOUS
  <1>a. /\ handler[p] = "map"
        /\ callID[p] \in AgentIds /\ callID[p] \in Registered /\ owner[callID[p]] = p
        /\ callID[p] < nextID
    BY DEF StoreTimer, Inv, OwnStore, InOrder, TypeOK, Registered, Pool!TypeOK,
         Pool!Registered, AgentIds, Pool!AgentIds
  <1>b. /\ LoopsKept({p}) /\ faults' \in 0..MaxFaults
        /\ \A q \in Procs \ {p} : q \in stale <=> q \in stale'
        /\ InUse(p)' => id'[p] = callID[p] \/ (InUse(p) /\ id'[p] = id[p] /\ stale' = stale)
    BY <1>a, RegistrationEffect DEF StoreTimer, Inv
  <1>1. TypeOK'
    <2>1. Pool!TypeOK'
      BY <1>a, <1>b DEF Inv, TypeOK, StoreTimer, Return, LoopsKept, Loops, timerVars, Pool!TypeOK, poolVars
    <2>2. /\ up' \in BOOLEAN /\ owner' \in [AgentIds -> Procs \cup {Nobody}]
          /\ timers' \in SUBSET AgentIds
          /\ left' \in [AgentIds -> 0..TimerTicks]
          /\ waiter' \in [AgentIds -> {"none", "waiting", "deleting"}]
      BY <1>a, <1>b, RegistryAssumption DEF Inv, TypeOK, StoreTimer, Return, LoopsKept, Loops, timerVars
    <2>3. /\ handler' \in [Procs -> {"none", "add", "map", "find", "reset"}]
          /\ callID' \in [Procs -> AgentIds \cup {NoAgent}]
      BY <1>a, <1>b DEF Inv, TypeOK, StoreTimer, Return, LoopsKept, Loops, timerVars
    <2>4. /\ loop' \in [Procs -> {"off", "idle", "registering", "beating", "awaiting", "dead"}]
          /\ id' \in [Procs -> AgentIds \cup {NoAgent}]
          /\ errCount' \in [Procs -> 0..MaxErrors]
          /\ due' \in [Procs -> BOOLEAN]
      BY <1>a, <1>b DEF Inv, TypeOK, StoreTimer, Return, LoopsKept, Loops, timerVars
    <2>5. stale' \in SUBSET Procs /\ faults' \in 0..MaxFaults
      BY <1>a, <1>b DEF Inv, TypeOK, StoreTimer, Return, LoopsKept, Loops, timerVars
    <2> QED BY <2>1, <2>2, <2>3, <2>4, <2>5 DEF TypeOK
  <1> USE RegistryAssumption, AgentsAssumption
      DEF Inv, TypeOK, InOrder, DroppedFirst, OwnStore, OwnIds, Owns, TimerForEveryAgent,
         Registered, AgentIds, Pool!TypeOK, Pool!Registered, Pool!AgentIds,
         poolVars, timerVars, callVars,
         StoreTimer, Return, LoopsKept, Loops, InUse
  <1>2. InOrder'
    BY <1>a, <1>b
  <1>3. DroppedFirst'
    BY <1>a, <1>b
  <1>4. OwnStore'
    BY <1>a, <1>b
  <1>5. OwnIds'
    <2>1. nextID' = nextID /\ owner' = owner /\ AgentIds' = AgentIds
      OBVIOUS
    <2>2. ASSUME NEW q \in Procs, loop'[q] \in {"beating", "awaiting"} PROVE Owns(q, id[q])'
      <3>1. CASE q = p
        BY <1>a, <1>b, <2>1, <2>2, <3>1
      <3>2. CASE q # p
        BY <1>b, <2>1, <2>2, <3>2
      <3> QED BY <3>1, <3>2
    <2>3. ASSUME NEW q \in Procs, handler'[q] \in {"find", "reset"} PROVE Owns(q, callID[q])'
      <3>1. q # p /\ handler[q] \in {"find", "reset"} /\ callID'[q] = callID[q]
        BY <1>a, <2>3
      <3> QED BY <1>b, <2>1, <3>1
    <2> QED BY <2>2, <2>3
  <1>6. TimerForEveryAgent'
    BY <1>a, <1>b
  <1> QED BY <1>1, <1>2, <1>3, <1>4, <1>5, <1>6 DEF Inv

LEMMA FindAgentInv == ASSUME NEW p \in Procs PROVE Inv /\ FindAgent(p) => Inv'
  <1> SUFFICES ASSUME Inv, FindAgent(p) PROVE Inv'
    OBVIOUS
  <1>a. /\ faults' \in 0..MaxFaults
        /\ \/ callID[p] \in Registered /\ UNCHANGED <<callID, loopVars, stale>>
              /\ handler' = [handler EXCEPT ![p] = "reset"]
           \/ LoopsKept({}) /\ stale' = stale /\ Return(p)
    BY AnswerEffect DEF FindAgent, Inv, TypeOK
  <1>1. TypeOK'
    <2>1. Pool!TypeOK'
      BY <1>a DEF Inv, TypeOK, FindAgent, Return, LoopsKept, Loops, timerVars, loopVars, Pool!TypeOK, poolVars
    <2>2. /\ up' \in BOOLEAN /\ owner' \in [AgentIds -> Procs \cup {Nobody}]
          /\ timers' \in SUBSET AgentIds
          /\ left' \in [AgentIds -> 0..TimerTicks]
          /\ waiter' \in [AgentIds -> {"none", "waiting", "deleting"}]
      BY <1>a DEF Inv, TypeOK, FindAgent, Return, LoopsKept, Loops, timerVars, loopVars
    <2>3. /\ handler' \in [Procs -> {"none", "add", "map", "find", "reset"}]
          /\ callID' \in [Procs -> AgentIds \cup {NoAgent}]
      BY <1>a DEF Inv, TypeOK, FindAgent, Return, LoopsKept, Loops, timerVars, loopVars
    <2>4. /\ loop' \in [Procs -> {"off", "idle", "registering", "beating", "awaiting", "dead"}]
          /\ id' \in [Procs -> AgentIds \cup {NoAgent}]
          /\ errCount' \in [Procs -> 0..MaxErrors]
          /\ due' \in [Procs -> BOOLEAN]
      BY <1>a DEF Inv, TypeOK, FindAgent, Return, LoopsKept, Loops, timerVars, loopVars
    <2>5. stale' \in SUBSET Procs /\ faults' \in 0..MaxFaults
      BY <1>a DEF Inv, TypeOK, FindAgent, Return, LoopsKept, Loops, timerVars, loopVars
    <2> QED BY <2>1, <2>2, <2>3, <2>4, <2>5 DEF TypeOK
  <1>b. \A q \in Procs :
          /\ handler'[q] \in {"map", "find"} => handler'[q] = handler[q]
          /\ handler'[q] = "reset" => handler[q] \in {"find", "reset"}
          /\ handler'[q] # "none" => callID'[q] = callID[q]
          /\ handler[q] = "map" => handler'[q] = "map" /\ callID'[q] = callID[q]
    BY <1>a DEF Inv, TypeOK, FindAgent, Return
  <1>c. \A q \in Procs :
          /\ InUse(q)' => InUse(q) /\ id'[q] = id[q]
          /\ q \in stale <=> q \in stale'
    BY <1>a DEF InUse, LoopsKept, loopVars
  <1>d. UNCHANGED <<nextID, owner, freeAgents, busyAgents, timers, waiter>>
    BY DEF FindAgent, poolVars, timerVars
  <1>5. OwnIds'
    <2>1. OwnIds
      BY DEF Inv
    <2> QED BY <1>b, <1>c, <1>d, <2>1 DEF OwnIds, Owns, InUse, AgentIds, Pool!AgentIds
  <1>6. TimerForEveryAgent'
    <2>1. TimerForEveryAgent
      BY DEF Inv
    <2> QED BY <1>b, <1>d, <2>1 DEF TimerForEveryAgent, Registered, Pool!Registered
  <1> USE RegistryAssumption, AgentsAssumption
      DEF Inv, TypeOK, InOrder, DroppedFirst, OwnStore, OwnIds, Owns, TimerForEveryAgent,
         Registered, AgentIds, Pool!TypeOK, Pool!Registered, Pool!AgentIds,
         poolVars, timerVars, callVars,
         FindAgent, Return, LoopsKept, Loops, InUse, loopVars
  <1>2. InOrder'
    BY <1>a
  <1>3. DroppedFirst'
    BY <1>a
  <1>4. OwnStore'
    BY <1>a
  <1> QED BY <1>1, <1>2, <1>3, <1>4, <1>5, <1>6 DEF Inv

LEMMA ResetTimerInv == ASSUME NEW p \in Procs PROVE Inv /\ ResetTimer(p) => Inv'
  <1> SUFFICES ASSUME Inv, ResetTimer(p) PROVE Inv'
    OBVIOUS
  <1>a. LoopsKept({}) /\ faults' \in 0..MaxFaults /\ stale' = stale
    BY AnswerEffect DEF ResetTimer, Inv
  <1>1. TypeOK'
    <2>1. Pool!TypeOK'
      BY <1>a DEF Inv, TypeOK, ResetTimer, Return, LoopsKept, Loops, timerVars, Pool!TypeOK, poolVars
    <2>2. /\ up' \in BOOLEAN /\ owner' \in [AgentIds -> Procs \cup {Nobody}]
          /\ timers' \in SUBSET AgentIds
          /\ left' \in [AgentIds -> 0..TimerTicks]
          /\ waiter' \in [AgentIds -> {"none", "waiting", "deleting"}]
      BY <1>a, RegistryAssumption DEF Inv, TypeOK, ResetTimer, Return, LoopsKept, Loops, timerVars
    <2>3. /\ handler' \in [Procs -> {"none", "add", "map", "find", "reset"}]
          /\ callID' \in [Procs -> AgentIds \cup {NoAgent}]
      BY <1>a DEF Inv, TypeOK, ResetTimer, Return, LoopsKept, Loops, timerVars
    <2>4. /\ loop' \in [Procs -> {"off", "idle", "registering", "beating", "awaiting", "dead"}]
          /\ id' \in [Procs -> AgentIds \cup {NoAgent}]
          /\ errCount' \in [Procs -> 0..MaxErrors]
          /\ due' \in [Procs -> BOOLEAN]
      BY <1>a DEF Inv, TypeOK, ResetTimer, Return, LoopsKept, Loops, timerVars
    <2>5. stale' \in SUBSET Procs /\ faults' \in 0..MaxFaults
      BY <1>a DEF Inv, TypeOK, ResetTimer, Return, LoopsKept, Loops, timerVars
    <2> QED BY <2>1, <2>2, <2>3, <2>4, <2>5 DEF TypeOK
  <1> USE RegistryAssumption, AgentsAssumption
      DEF Inv, TypeOK, InOrder, DroppedFirst, OwnStore, OwnIds, Owns, TimerForEveryAgent,
         Registered, AgentIds, Pool!TypeOK, Pool!Registered, Pool!AgentIds,
         poolVars, timerVars, callVars,
         ResetTimer, Return, LoopsKept, Loops, InUse
  <1>2. InOrder'
    BY <1>a
  <1>3. DroppedFirst'
    BY <1>a
  <1>4. OwnStore'
    BY <1>a
  <1>5. OwnIds'
    BY <1>a
  <1>6. TimerForEveryAgent'
    BY <1>a
  <1> QED BY <1>1, <1>2, <1>3, <1>4, <1>5, <1>6 DEF Inv

LEMMA ServerDiesInv == Inv /\ ServerDies /\ faults' \in 0..MaxFaults => Inv'
  <1> SUFFICES ASSUME Inv, ServerDies /\ faults' \in 0..MaxFaults PROVE Inv'
    OBVIOUS
  <1>a. /\ loop' \in [Procs -> Loops] /\ id' = id
        /\ errCount' \in [Procs -> 0..MaxErrors] /\ due' \in [Procs -> BOOLEAN]
        /\ \A q \in Procs : InUse(q)' => InUse(q) /\ q \in stale'
    BY CallsFailEffect DEF ServerDies, Inv, InUse
  <1>1. TypeOK'
    <2>1. Pool!TypeOK'
      BY <1>a, AgentsAssumption DEF Inv, TypeOK, ServerDies, Loops, Pool!TypeOK, poolVars
    <2>2. /\ up' \in BOOLEAN /\ owner' \in [AgentIds -> Procs \cup {Nobody}]
          /\ timers' \in SUBSET AgentIds
          /\ left' \in [AgentIds -> 0..TimerTicks]
          /\ waiter' \in [AgentIds -> {"none", "waiting", "deleting"}]
      <3>1. owner' = [i \in AgentIds |-> Nobody] /\ left' = [i \in AgentIds |-> 0]
        BY DEF ServerDies
      <3>2. waiter' = [i \in AgentIds |-> "none"]
        BY DEF ServerDies
      <3>3. timers' = {} /\ up' = FALSE
        BY DEF ServerDies
      <3>4. 0 \in 0..TimerTicks
        BY RegistryAssumption
      <3> QED BY <3>1, <3>2, <3>3, <3>4
    <2>3. /\ handler' \in [Procs -> {"none", "add", "map", "find", "reset"}]
          /\ callID' \in [Procs -> AgentIds \cup {NoAgent}]
      BY <1>a DEF Inv, TypeOK, ServerDies, Loops
    <2>4. /\ loop' \in [Procs -> {"off", "idle", "registering", "beating", "awaiting", "dead"}]
          /\ id' \in [Procs -> AgentIds \cup {NoAgent}]
          /\ errCount' \in [Procs -> 0..MaxErrors]
          /\ due' \in [Procs -> BOOLEAN]
      BY <1>a DEF Inv, TypeOK, ServerDies, Loops
    <2>5. stale' \in SUBSET Procs /\ faults' \in 0..MaxFaults
      BY <1>a DEF Inv, TypeOK, ServerDies, Loops
    <2> QED BY <2>1, <2>2, <2>3, <2>4, <2>5 DEF TypeOK
  <1> USE RegistryAssumption, AgentsAssumption
      DEF Inv, TypeOK, InOrder, DroppedFirst, OwnStore, OwnIds, Owns, TimerForEveryAgent,
         Registered, AgentIds, Pool!TypeOK, Pool!Registered, Pool!AgentIds,
         poolVars, timerVars, callVars,
         ServerDies, LoopsKept, Loops, InUse
  <1>2. InOrder'
    OBVIOUS
  <1>3. DroppedFirst'
    OBVIOUS
  <1>4. OwnStore'
    OBVIOUS
  <1>5. OwnIds'
    BY <1>a
  <1>6. TimerForEveryAgent'
    OBVIOUS
  <1> QED BY <1>1, <1>2, <1>3, <1>4, <1>5, <1>6 DEF Inv

LEMMA ExpireInv == ASSUME NEW i \in AgentIds PROVE Inv /\ Expire(i) => Inv'
  BY DEF Inv, TypeOK, InOrder, DroppedFirst, OwnStore, OwnIds, Owns, TimerForEveryAgent,
      Registered, AgentIds, Pool!TypeOK, Pool!Registered, Pool!AgentIds,
      poolVars, timerVars, callVars, loopVars,
      Expire, Pool!RemoveAgent

LEMMA DeleteTimerInv == ASSUME NEW i \in AgentIds PROVE Inv /\ DeleteTimer(i) => Inv'
  BY DEF Inv, TypeOK, InOrder, DroppedFirst, OwnStore, OwnIds, Owns, TimerForEveryAgent,
      Registered, AgentIds, Pool!TypeOK, Pool!Registered, Pool!AgentIds,
      poolVars, timerVars, callVars, loopVars,
      DeleteTimer

LEMMA RestartInv == Inv /\ ServerRestarts => Inv'
  BY DEF Inv, TypeOK, InOrder, DroppedFirst, OwnStore, OwnIds, Owns, TimerForEveryAgent,
      Registered, AgentIds, Pool!TypeOK, Pool!Registered, Pool!AgentIds,
      poolVars, timerVars, callVars, loopVars,
      ServerRestarts

LEMMA TimePassesInv == Inv /\ TimePasses /\ faults' \in 0..MaxFaults => Inv'
  BY RegistryAssumption, AgentsAssumption DEF Inv, TypeOK, InOrder, DroppedFirst, OwnStore, OwnIds, Owns, TimerForEveryAgent,
      Registered, AgentIds, Pool!TypeOK, Pool!Registered, Pool!AgentIds,
      poolVars, timerVars, callVars, loopVars,
      TimePasses

\* The steps of the registry, without the birth and death of agent processes.
LEMMA RegistryStepInv == Inv /\ RegistryStep => Inv'
<1> SUFFICES ASSUME Inv, RegistryStep PROVE Inv'
  OBVIOUS
<1>1. Fault \/ UNCHANGED faults => faults' \in 0..MaxFaults
  BY RegistryAssumption DEF Inv, TypeOK, Fault
<1>2. ASSUME NEW p \in Procs, AgentStep(p) PROVE Inv'
  BY <1>2, CallRegisterInv, CallHeartbeatInv, CallLostInv DEF AgentStep
<1>3. ASSUME NEW p \in Procs, HandlerStep(p) PROVE Inv'
  <2>1. CASE ResetPanics(p)
    BY <1>1, <2>1, ServerDiesInv DEF ResetPanics
  <2> QED BY <1>3, <2>1, AddAgentInv, StoreTimerInv, FindAgentInv, ResetTimerInv DEF HandlerStep
<1>4. ASSUME NEW i \in AgentIds, Expiry(i) PROVE Inv'
  BY <1>4, ExpireInv, DeleteTimerInv DEF Expiry
<1>5. CASE Crash \/ MapRace
  BY <1>1, <1>5, ServerDiesInv DEF Crash, MapRace
<1>6. CASE Tick \/ SlowTick
  BY <1>1, <1>6, TimePassesInv DEF Tick, SlowTick
<1> QED BY <1>2, <1>3, <1>4, <1>5, <1>6, RestartInv DEF RegistryStep

LEMMA StutterInv == Inv /\ UNCHANGED vars => Inv'
  BY DEF Inv, TypeOK, InOrder, DroppedFirst, OwnStore, OwnIds, Owns, TimerForEveryAgent,
      Registered, AgentIds, Pool!TypeOK, Pool!Registered, Pool!AgentIds,
      vars, poolVars, timerVars, callVars, loopVars

LEMMA NextInv == Inv /\ [Next]_vars => Inv'
  BY RegistryStepInv, StartInv, DieInv, StutterInv DEF Next

\* What makes TimerForEveryAgent and OwnHeartbeats inductive holds in every
\* state, whatever faults there are (server_register.go, server_heartbeat.go).
THEOREM Invariance == Spec => []Inv
<1>1. Init => Inv
  BY InitInv, RegistryAssumption DEF Init
<1> QED BY <1>1, NextInv, PTL DEF Spec

\* Values of all variables are of their types.
THEOREM TypeCorrect == Spec => []TypeOK
<1>1. Inv => TypeOK
  BY DEF Inv
<1> QED BY <1>1, Invariance, PTL

\* No agent is in the list without a goroutine that waits for its timer, or a
\* Register about to start it: a silent agent is always dropped in the end.
THEOREM Timed == Spec => []TimerForEveryAgent
<1>1. Inv => TimerForEveryAgent
  BY DEF Inv
<1> QED BY <1>1, Invariance, PTL

\* A heartbeat never prolongs the registration of another process, but after a
\* restart of the server.
THEOREM Own == Spec => []OwnHeartbeats
<1>1. Inv => OwnHeartbeats
  BY DEF Inv, OwnIds, Owns, OwnHeartbeats
<1> QED BY <1>1, Invariance, PTL

-----------------------------------------------------------------------------
(* How many faults it takes for a living agent to lose its place.  Its      *)
(* timer has run for as many ticks as there were faults, and for one more   *)
(* if its heartbeat is due or on its way.                                  *)

\* Without a server process nothing is listed and no call is open.
DownInv == ~up => Registered = {} /\ \A p \in Procs : handler[p] = "none"

\* The open call of a process that is registered is a heartbeat with its own
\* identifier.
OpenCall(p) ==
  InUse(p) => /\ handler[p] \notin {"add", "map"}
              /\ handler[p] \in {"find", "reset"} => callID[p] = id[p]
CallInv == \A p \in Procs : OpenCall(p)

Owing(p) == IF due[p] \/ handler[p] \in {"find", "reset"} THEN 1 ELSE 0
Slack(p) == left[id[p]] + faults + Owing(p)
InTime(p) ==
  InUse(p) /\ p \notin stale /\ id[p] \in Registered => Slack(p) >= TimerTicks
TimeInv == \A p \in Procs : InTime(p)

KeptInv == DownInv /\ CallInv /\ TimeInv

LEMMA KeptInit == ASSUME NEW f \in 0..MaxFaults PROVE RegistryInit(f) => KeptInv
  BY DEF RegistryInit, KeptInv, DownInv, CallInv, OpenCall, TimeInv, InTime, InUse

\* A step that leaves a process no less slack.
LEMMA InTimeKept ==
  ASSUME Inv, TimeInv, NEW p \in Procs,
         InUse(p)' => InUse(p) /\ id'[p] = id[p] /\ (p \in stale => p \in stale'),
         InUse(p) /\ p \notin stale /\ id[p] \in Registered' => id[p] \in Registered,
         \A i \in AgentIds : left'[i] \in Nat /\ left[i] <= left'[i],
         faults' \in Nat, faults <= faults',
         Owing(p) = 0 \/ Owing(p)' = 1
  PROVE  InTime(p)'
<1> SUFFICES ASSUME InUse(p)', p \notin stale', id'[p] \in Registered'
             PROVE  Slack(p)' >= TimerTicks
  BY DEF InTime
<1>1. PICK i \in AgentIds : i = id[p] /\ i = id'[p]
  BY DEF Inv, OwnIds, Owns, InUse
<1>2. /\ left[i] \in Nat /\ left'[i] \in Nat /\ left[i] <= left'[i]
      /\ faults \in Nat /\ TimerTicks \in Nat
  BY RegistryAssumption DEF Inv, TypeOK
<1>3. PICK o, n \in {0, 1} : o = Owing(p) /\ n = Owing(p)' /\ o <= n
  BY DEF Owing
<1>4. left[i] + faults + o >= TimerTicks
  BY <1>1, <1>3 DEF TimeInv, InTime, Slack
<1>5. \A a, b, c, d, e, g, t \in Nat :
        a <= b /\ c <= d /\ e <= g /\ a + c + e >= t => b + d + g >= t
  OBVIOUS
<1>6. left'[i] + faults' + n >= TimerTicks
  BY <1>2, <1>3, <1>4, <1>5
<1> QED BY <1>1, <1>3, <1>6 DEF Slack

\* What the call of one process leaves alone.
SameProc(q) ==
  /\ loop'[q] = loop[q] /\ id'[q] = id[q] /\ due'[q] = due[q]
  /\ handler'[q] = handler[q] /\ callID'[q] = callID[q]
  /\ q \in stale <=> q \in stale'

LEMMA SameEffect ==
  ASSUME TypeOK, NEW p \in Procs, NEW q \in Procs \ {p},
         (CallsFail({p}) /\ stale' = stale) \/ Registration(p) \/ Accepted(p) \/ Rejected(p)
  PROVE  /\ loop'[q] = loop[q] /\ id'[q] = id[q] /\ due'[q] = due[q]
         /\ q \in stale <=> q \in stale'
<1>1. CASE CallsFail({p}) /\ stale' = stale
  BY <1>1 DEF CallsFail, TypeOK
<1>2. CASE Unheard(p)
  BY <1>2 DEF Unheard, loopVars
<1>3. CASE Registration(p)
  BY <1>1, <1>2, <1>3 DEF Registration, AnswerLost, TypeOK
<1>4. CASE Accepted(p)
  BY <1>1, <1>2, <1>4 DEF Accepted, AnswerLost, TypeOK
<1>5. CASE Rejected(p)
  BY <1>1, <1>5 DEF Rejected
<1> QED BY <1>1, <1>3, <1>4, <1>5

LEMMA OthersSame ==
  ASSUME TypeOK, NEW p \in Procs, NEW q \in Procs \ {p},
         AgentStep(p) \/ AddAgent(p) \/ StoreTimer(p) \/ FindAgent(p) \/ ResetTimer(p)
  PROVE  SameProc(q)
<1>1. CASE AgentStep(p)
  BY <1>1 DEF AgentStep, CallRegister, CallHeartbeat, Call, CallLost, callVars, SameProc, TypeOK
<1>2. CASE AddAgent(p)
  BY <1>2 DEF AddAgent, loopVars, SameProc, TypeOK
<1>3. CASE StoreTimer(p)
  BY <1>3, SameEffect DEF StoreTimer, Return, SameProc, TypeOK
<1>4. CASE FindAgent(p)
  BY <1>4, SameEffect DEF FindAgent, Return, loopVars, SameProc, TypeOK
<1>5. CASE ResetTimer(p)
  BY <1>5, SameEffect DEF ResetTimer, Return, SameProc, TypeOK
<1> QED BY <1>1, <1>2, <1>3, <1>4, <1>5

LEMMA FaultsGrow ==
  ASSUME TypeOK, Fault \/ UNCHANGED faults
  PROVE  faults \in Nat /\ faults' \in Nat /\ faults <= faults'
  BY RegistryAssumption DEF TypeOK, Fault

\* A heartbeat or another call takes place.
LEMMA CallFaults ==
  ASSUME NEW p \in Procs,
         AgentStep(p) \/ AddAgent(p) \/ StoreTimer(p) \/ FindAgent(p) \/ ResetTimer(p)
  PROVE  Fault \/ UNCHANGED faults
  BY DEF AgentStep, CallRegister, CallHeartbeat, Call, CallLost, AddAgent, StoreTimer,
      FindAgent, ResetTimer, Registration, Accepted, Rejected, AnswerLost, Unheard

\* The calls of others: their timers may be set anew, which does no harm.
LEMMA TimeOthers ==
  ASSUME Inv, TimeInv, NEW p \in Procs, NEW q \in Procs \ {p},
         AgentStep(p) \/ AddAgent(p) \/ StoreTimer(p) \/ FindAgent(p) \/ ResetTimer(p)
  PROVE  InTime(q)'
<1>1. SameProc(q)
  BY OthersSame DEF Inv
<1>2. faults \in Nat /\ faults' \in Nat /\ faults <= faults'
  BY CallFaults, FaultsGrow DEF Inv
<1>3. \A i \in AgentIds : left'[i] \in Nat /\ left[i] <= left'[i]
  <2>1. left \in [AgentIds -> 0..TimerTicks] /\ TimerTicks \in Nat
    BY RegistryAssumption DEF Inv, TypeOK
  <2>2. UNCHANGED left \/ \E P : left' = [left EXCEPT ![P] = TimerTicks]
    BY <2>1 DEF AgentStep, CallRegister, CallHeartbeat, Call, CallLost, AddAgent, StoreTimer,
       FindAgent, ResetTimer, timerVars
  <2> QED BY <2>1, <2>2
<1>4. InUse(q) /\ q \notin stale /\ id[q] \in Registered' => id[q] \in Registered
  <2>1. nextID \in Nat /\ (InUse(q) /\ q \notin stale => id[q] < nextID /\ id[q] \in Nat)
    BY DEF Inv, OwnIds, Owns, InUse, TypeOK, Pool!TypeOK, AgentIds, Pool!AgentIds
  <2>2. Registered' \subseteq Registered \cup {nextID}
    BY DEF AgentStep, CallRegister, CallHeartbeat, Call, CallLost, AddAgent, StoreTimer,
       FindAgent, ResetTimer, poolVars, Pool!AddAgent, Registered, Pool!Registered
  <2> QED BY <2>1, <2>2
<1>5. Owing(q)' = Owing(q) /\ Owing(q) \in {0, 1}
  BY <1>1 DEF SameProc, Owing
<1> QED BY <1>1, <1>2, <1>3, <1>4, <1>5, InTimeKept DEF SameProc, InUse

LEMMA CallKept ==
  ASSUME Inv, CallInv, NEW p \in Procs,
         AgentStep(p) \/ AddAgent(p) \/ StoreTimer(p) \/ FindAgent(p) \/ ResetTimer(p)
  PROVE  CallInv'
<1>1. ASSUME NEW q \in Procs \ {p} PROVE OpenCall(q)'
  <2>1. SameProc(q)
    BY <1>1, OthersSame DEF Inv
  <2> QED BY <1>1, <2>1 DEF CallInv, OpenCall, SameProc, InUse
<1>2. OpenCall(p)'
  <2>1. OpenCall(p) /\ TypeOK
    BY DEF CallInv, Inv
  <2>2. CASE AgentStep(p)
    BY <2>1, <2>2 DEF AgentStep, CallRegister, CallHeartbeat, Call, CallLost, callVars, OpenCall,
       InUse, TypeOK
  <2>3. CASE AddAgent(p)
    BY <2>1, <2>3 DEF AddAgent, loopVars, OpenCall, InUse, TypeOK
  <2>4. CASE StoreTimer(p) \/ ResetTimer(p)
    BY <2>1, <2>4 DEF StoreTimer, ResetTimer, Return, OpenCall, TypeOK
  <2>5. CASE FindAgent(p)
    BY <2>1, <2>5 DEF FindAgent, Return, loopVars, OpenCall, InUse, TypeOK
  <2> QED BY <2>2, <2>3, <2>4, <2>5
<1> QED BY <1>1, <1>2 DEF CallInv

LEMMA DownKept ==
  ASSUME Inv, DownInv, NEW p \in Procs,
         AgentStep(p) \/ AddAgent(p) \/ StoreTimer(p) \/ FindAgent(p) \/ ResetTimer(p)
  PROVE  DownInv'
<1>1. /\ up' = up /\ (handler[p] = "none" => up \/ UNCHANGED handler)
      /\ AddAgent(p) \/ UNCHANGED poolVars
  BY DEF AgentStep, CallRegister, CallHeartbeat, Call, CallLost, AddAgent, StoreTimer,
     FindAgent, ResetTimer, callVars
<1>2. AddAgent(p) => handler[p] = "add"
  BY DEF AddAgent
<1> QED BY <1>1, <1>2 DEF DownInv, poolVars, Registered, Pool!Registered

\* The call of the process itself.  An agent's own heartbeat sets its timer
\* anew; a call that does not get that far is a fault.
LEMMA TimeAgent ==
  ASSUME Inv, KeptInv, NEW p \in Procs, AgentStep(p)
  PROVE  InTime(p)'
<1>1. TypeOK /\ faults \in Nat /\ faults' \in Nat /\ faults <= faults'
  BY CallFaults, FaultsGrow DEF Inv
<1>2. \A i \in AgentIds : left'[i] = left[i] /\ left[i] \in Nat
  BY <1>1, RegistryAssumption
  DEF TypeOK, AgentStep, CallRegister, CallHeartbeat, Call, CallLost, timerVars
<1>3. Registered' = Registered /\ stale' = stale /\ id' = id
  BY DEF AgentStep, CallRegister, CallHeartbeat, Call, CallLost, poolVars, Registered,
     Pool!Registered
<1>4. CASE CallRegister(p)
  <2>1. ~InUse(p)'
    BY <1>1, <1>4 DEF CallRegister, Call, InUse, TypeOK
  <2> QED BY <2>1 DEF InTime
<1>5. CASE CallHeartbeat(p)
  <2>1. InUse(p) /\ Owing(p)' = 1
    BY <1>1, <1>5 DEF CallHeartbeat, Call, InUse, Owing, TypeOK
  <2> QED BY <1>1, <1>2, <1>3, <2>1, InTimeKept DEF KeptInv
<1>6. CASE CallLost(p)
  <2>1. CASE ~up
    BY <1>3, <2>1 DEF KeptInv, DownInv, InTime
  <2>2. CASE faults' = faults + 1
    <3> SUFFICES ASSUME InUse(p)', p \notin stale', id'[p] \in Registered'
                 PROVE  Slack(p)' >= TimerTicks
      BY DEF InTime
    <3>1. InUse(p)
      BY <1>1, <1>6 DEF CallLost, InUse, TypeOK
    <3>2. PICK i \in AgentIds : i = id[p]
      BY <3>1 DEF Inv, OwnIds, Owns, InUse
    <3>3. PICK o, n \in {0, 1} : o = Owing(p) /\ n = Owing(p)'
      BY DEF Owing
    <3>4. left[i] + faults + o >= TimerTicks /\ TimerTicks \in Nat
      BY <1>3, <3>1, <3>2, <3>3, RegistryAssumption DEF KeptInv, TimeInv, InTime, Slack
    <3>5. \A a, b, t \in Nat : \A u, v \in {0, 1} : a + b + u >= t => a + (b + 1) + v >= t
      OBVIOUS
    <3>6. left[i] + (faults + 1) + n >= TimerTicks
      BY <1>1, <1>2, <3>3, <3>4, <3>5
    <3> QED BY <1>2, <1>3, <2>2, <3>2, <3>3, <3>6 DEF Slack
  <2> QED BY <1>6, <2>1, <2>2 DEF CallLost, Fault
<1> QED BY <1>4, <1>5, <1>6 DEF AgentStep

\* A timer of full length leaves slack enough.
LEMMA FullTimer ==
  ASSUME NEW p \in Procs, faults' \in Nat, InUse(p)' => left'[id'[p]] = TimerTicks
  PROVE  InTime(p)'
<1>1. PICK n \in {0, 1} : n = Owing(p)'
  BY DEF Owing
<1>2. \A a, b \in Nat : \A u \in {0, 1} : a + b + u >= a
  OBVIOUS
<1> QED BY <1>1, <1>2, RegistryAssumption DEF InTime, Slack

LEMMA TimeHandler ==
  ASSUME Inv, KeptInv, NEW p \in Procs,
         AddAgent(p) \/ StoreTimer(p) \/ FindAgent(p) \/ ResetTimer(p)
  PROVE  InTime(p)'
<1>1. TypeOK /\ faults \in Nat /\ faults' \in Nat /\ faults <= faults'
  BY CallFaults, FaultsGrow DEF Inv
<1>2. OpenCall(p) /\ InTime(p)
  BY DEF KeptInv, CallInv, TimeInv
<1>3. CASE AddAgent(p)
  <2>1. ~InUse(p)'
    BY <1>2, <1>3 DEF AddAgent, loopVars, OpenCall, InUse
  <2> QED BY <2>1 DEF InTime
<1>4. CASE StoreTimer(p)
  <2>1. handler[p] = "map" /\ ~InUse(p) /\ callID[p] \in AgentIds
    BY <1>2, <1>4 DEF StoreTimer, OpenCall, Inv, OwnStore, TypeOK, Pool!TypeOK, Registered,
       Pool!Registered, AgentIds, Pool!AgentIds
  <2>2. InUse(p)' => id'[p] = callID[p]
    BY <1>1, <1>4, <2>1, RegistrationEffect DEF StoreTimer
  <2>3. left'[callID[p]] = TimerTicks
    BY <1>1, <1>4, <2>1 DEF StoreTimer, TypeOK
  <2> QED BY <1>1, <2>2, <2>3, FullTimer
<1>5. CASE FindAgent(p)
  <2>1. UNCHANGED <<left, freeAgents, busyAgents>> /\ handler[p] = "find"
    BY <1>5 DEF FindAgent, timerVars, poolVars
  <2>2. CASE callID[p] \in Registered
    <3>1. UNCHANGED <<loopVars, stale, faults>> /\ handler'[p] = "reset"
      BY <1>1, <1>5, <2>2 DEF FindAgent, TypeOK
    <3>2. Owing(p)' = 1
      BY <3>1 DEF Owing
    <3>3. \A i \in AgentIds : left'[i] \in Nat /\ left[i] <= left'[i]
      BY <1>1, <2>1, RegistryAssumption DEF TypeOK
    <3> QED BY <1>1, <2>1, <3>1, <3>2, <3>3, InTimeKept
            DEF KeptInv, InUse, loopVars, Registered, Pool!Registered
  <2>3. CASE callID[p] \notin Registered
    <3>1. Rejected(p)
      BY <1>5, <2>3 DEF FindAgent
    <3>2. InUse(p)' => InUse(p) /\ id'[p] = id[p]
      BY <1>1, <3>1, AnswerEffect DEF LoopsKept
    <3> QED BY <1>2, <2>1, <2>3, <3>2 DEF OpenCall, InTime, Registered, Pool!Registered
  <2> QED BY <2>2, <2>3
<1>6. CASE ResetTimer(p)
  <2> SUFFICES ASSUME InUse(p)', id'[p] \in Registered', p \notin stale'
               PROVE  left'[id'[p]] = TimerTicks
    BY <1>1, FullTimer DEF InTime
  <2>1. UNCHANGED <<freeAgents, busyAgents, stale>> /\ handler[p] = "reset"
    BY <1>1, <1>6, AnswerEffect DEF ResetTimer, poolVars
  <2>2. InUse(p) /\ id'[p] = id[p] /\ p \notin stale
    BY <1>1, <1>6, <2>1, AnswerEffect DEF ResetTimer, LoopsKept
  <2>3. callID[p] = id[p] /\ id[p] \in AgentIds /\ owner[id[p]] = p /\ id[p] \in Registered
    BY <1>2, <2>1, <2>2 DEF OpenCall, Inv, OwnIds, Owns, InUse, Registered, Pool!Registered
  <2>4. waiter[id[p]] = "waiting"
    BY <2>1, <2>3 DEF Inv, TimerForEveryAgent, OwnStore
  <2> QED BY <1>1, <1>6, <2>2, <2>3, <2>4 DEF ResetTimer, TypeOK
<1> QED BY <1>3, <1>4, <1>5, <1>6

\* The server ends: no one is listed.
LEMMA KeptDies == ASSUME Inv, KeptInv, ServerDies PROVE KeptInv'
<1>1. Registered' = {} /\ ~up' /\ \A p \in Procs : handler'[p] = "none"
  BY DEF ServerDies, Registered, Pool!Registered
<1> QED BY <1>1 DEF KeptInv, DownInv, CallInv, OpenCall, TimeInv, InTime

\* A tick in time finds no heartbeat owing, and leaves one; another is a fault.
LEMMA KeptTick == ASSUME Inv, KeptInv, Tick \/ SlowTick PROVE KeptInv'
<1>1. /\ TimePasses /\ faults \in Nat /\ TypeOK
      /\ (Tick /\ faults' = faults) \/ faults' = faults + 1
  BY RegistryAssumption DEF Tick, SlowTick, Fault, Inv, TypeOK
<1>2. UNCHANGED <<up, freeAgents, busyAgents, handler, callID, loop, id, stale>>
  BY <1>1 DEF TimePasses, poolVars, callVars
<1>3. ASSUME NEW p \in Procs PROVE InTime(p)'
  <2> SUFFICES ASSUME InUse(p)', p \notin stale', id'[p] \in Registered'
               PROVE  Slack(p)' >= TimerTicks
    BY DEF InTime
  <2>1. InUse(p) /\ p \notin stale /\ id[p] \in Registered
    BY <1>2 DEF InUse, Registered, Pool!Registered
  <2>2. PICK i \in AgentIds : i = id[p]
    BY <2>1 DEF Inv, OwnIds, Owns, InUse
  <2>3. Owing(p)' = 1
    BY <1>1, <2>1 DEF TimePasses, Owing, InUse, TypeOK
  <2>4. PICK o \in {0, 1} : o = Owing(p)
    BY DEF Owing
  <2>5. left[i] + faults + o >= TimerTicks /\ TimerTicks \in Nat /\ left[i] \in Nat
    BY <1>1, <2>1, <2>2, <2>4, RegistryAssumption DEF KeptInv, TimeInv, InTime, Slack, TypeOK
  <2>6. PICK l \in Nat : l = left'[i] /\ l >= left[i] - 1
    BY <1>1, <2>5 DEF TimePasses
  <2>7. Tick => o = 0
    BY <2>4 DEF Tick, Settled, Owing
  <2>8. CASE Tick /\ faults' = faults
    <3>1. \A a, b, c, t \in Nat : a + b + 0 >= t /\ c >= a - 1 => c + b + 1 >= t
      OBVIOUS
    <3> QED BY <1>1, <1>2, <2>2, <2>3, <2>5, <2>6, <2>7, <2>8, <3>1 DEF Slack
  <2>9. CASE faults' = faults + 1
    <3>1. \A a, b, c, t \in Nat : \A u \in {0, 1} :
            a + b + u >= t /\ c >= a - 1 => c + (b + 1) + 1 >= t
      OBVIOUS
    <3> QED BY <1>1, <1>2, <2>2, <2>3, <2>4, <2>5, <2>6, <2>9, <3>1 DEF Slack
  <2> QED BY <1>1, <2>8, <2>9
<1> QED BY <1>2, <1>3
        DEF KeptInv, DownInv, CallInv, OpenCall, TimeInv, InUse, Registered, Pool!Registered

\* Steps that touch neither calls nor timers, and list nobody.
LEMMA KeptQuiet ==
  ASSUME Inv, KeptInv, UNCHANGED <<left, callVars, id, stale>>,
         up' = up \/ up', Registered' \subseteq Registered,
         faults' \in Nat, faults <= faults',
         \A p \in Procs : InUse(p)' => InUse(p) /\ due'[p] = due[p]
  PROVE  KeptInv'
<1>1. \A i \in AgentIds : left'[i] \in Nat /\ left[i] <= left'[i]
  BY RegistryAssumption DEF Inv, TypeOK
<1>2. ASSUME NEW p \in Procs PROVE InTime(p)'
  <2>1. CASE InUse(p)'
    <3>1. Owing(p)' = Owing(p) /\ Owing(p) \in {0, 1}
      BY <2>1 DEF Owing, callVars
    <3> QED BY <1>1, <3>1, InTimeKept DEF KeptInv
  <2>2. CASE ~InUse(p)'
    BY <2>2 DEF InTime
  <2> QED BY <2>1, <2>2
<1> QED BY <1>2 DEF KeptInv, DownInv, CallInv, OpenCall, TimeInv, callVars

\* A process may begin, and may end.
LEMMA KeptBirth == ASSUME Inv, KeptInv, NEW p \in Procs, Start(p) \/ Die(p) PROVE KeptInv'
<1>1. /\ UNCHANGED <<left, callVars, id, stale, faults, up, poolVars>>
      /\ \A q \in Procs : InUse(q)' => InUse(q) /\ due'[q] = due[q]
  BY DEF Start, Die, Inv, TypeOK, InUse, timerVars
<1>2. faults \in Nat /\ faults <= faults
  BY RegistryAssumption DEF Inv, TypeOK
<1> QED BY <1>1, <1>2, KeptQuiet DEF poolVars, Registered, Pool!Registered

\* A timer fires, or a new server process begins.
LEMMA KeptExpiry ==
  ASSUME Inv, KeptInv, ServerRestarts \/ \E i \in AgentIds : Expiry(i) PROVE KeptInv'
<1>1. faults \in Nat /\ faults <= faults
  BY RegistryAssumption DEF Inv, TypeOK
<1>2. UNCHANGED <<left, callVars, loopVars, stale, faults>> /\ (up' = up \/ up')
  BY DEF Expiry, Expire, DeleteTimer, ServerRestarts, timerVars
<1>3. Registered' \subseteq Registered
  BY DEF Expiry, Expire, DeleteTimer, ServerRestarts, poolVars, Registered, Pool!RemoveAgent,
     Pool!Registered
<1> QED BY <1>1, <1>2, <1>3, KeptQuiet DEF loopVars, InUse

LEMMA KeptStutter ==
  ASSUME Inv, KeptInv,
         \/ UNCHANGED vars
         \/ Fault /\ UNCHANGED <<poolVars, up, owner, timerVars, callVars, loopVars, stale>>
  PROVE  KeptInv'
<1>1. faults \in Nat /\ faults' \in Nat /\ faults <= faults'
  BY RegistryAssumption DEF Inv, TypeOK, Fault, vars
<1>2. UNCHANGED <<poolVars, up, timerVars, callVars, loopVars, stale>>
  BY DEF vars
<1>3. UNCHANGED <<left, id, due, loop, freeAgents, busyAgents>>
  BY <1>2 DEF timerVars, loopVars, poolVars
<1> QED BY <1>1, <1>2, <1>3, KeptQuiet DEF InUse, Registered, Pool!Registered

LEMMA KeptStep == ASSUME Inv, KeptInv, RegistryStep PROVE KeptInv'
<1>1. ASSUME NEW p \in Procs,
             AgentStep(p) \/ AddAgent(p) \/ StoreTimer(p) \/ FindAgent(p) \/ ResetTimer(p)
      PROVE  KeptInv'
  <2>1. InTime(p)'
    BY <1>1, TimeAgent, TimeHandler
  <2>2. \A q \in Procs \ {p} : InTime(q)'
    BY <1>1, TimeOthers DEF KeptInv
  <2>3. DownInv' /\ CallInv'
    BY <1>1, DownKept, CallKept DEF KeptInv
  <2> QED BY <2>1, <2>2, <2>3 DEF KeptInv, TimeInv
<1>2. ASSUME NEW p \in Procs, ResetPanics(p) PROVE KeptInv'
  BY <1>2, KeptDies DEF ResetPanics
<1>3. CASE Crash \/ MapRace
  BY <1>3, KeptDies DEF Crash, MapRace
<1> QED BY <1>1, <1>2, <1>3, KeptTick, KeptExpiry DEF RegistryStep, HandlerStep

\* The step in which a living agent loses its place.
Losing(p) ==
  /\ loop[p] \in {"beating", "awaiting"} /\ p \notin stale
  /\ up' /\ id[p] \in Registered \ Registered'

\* Only its timer takes an agent's place while the server runs, and only after
\* so many faults.
LEMMA LostByExpiry ==
  ASSUME Inv, KeptInv, RegistryStep, NEW p \in Procs, Losing(p)
  PROVE  faults >= TimerTicks - 1
<1>1. ASSUME NEW q \in Procs,
             AgentStep(q) \/ AddAgent(q) \/ StoreTimer(q) \/ FindAgent(q) \/ ResetTimer(q)
      PROVE  Registered \subseteq Registered'
  BY <1>1 DEF AgentStep, CallRegister, CallHeartbeat, Call, CallLost, AddAgent, StoreTimer,
     FindAgent, ResetTimer, poolVars, Pool!AddAgent, Registered, Pool!Registered
<1>2. ASSUME ServerDies PROVE FALSE
  BY <1>2 DEF ServerDies, Losing
<1>3. ASSUME ServerRestarts \/ Tick \/ SlowTick PROVE Registered' = Registered
  BY <1>3 DEF ServerRestarts, Tick, SlowTick, TimePasses, poolVars, Registered, Pool!Registered
<1>4. PICK i \in AgentIds : Expiry(i)
  BY <1>1, <1>2, <1>3 DEF RegistryStep, HandlerStep, ResetPanics, Crash, MapRace, Losing
<1>5. Expire(i) /\ i = id[p]
  BY <1>4 DEF Expiry, Expire, DeleteTimer, Losing, poolVars, Registered, Pool!RemoveAgent,
     Pool!Registered
<1>6. PICK o \in {0, 1} : o = Owing(p)
  BY DEF Owing
<1>7. left[id[p]] = 0 /\ left[id[p]] + faults + o >= TimerTicks
  BY <1>5, <1>6 DEF Expire, Losing, KeptInv, TimeInv, InTime, InUse, Slack
<1>8. \A a, t \in Nat : \A u \in {0, 1} : 0 + a + u >= t => a >= t - 1
  OBVIOUS
<1>9. faults \in Nat /\ TimerTicks \in Nat
  BY RegistryAssumption DEF Inv, TypeOK
<1> QED BY <1>7, <1>8, <1>9

\* Agents that neither begin nor end lose no place.
LEMMA LostInRegistry ==
  ASSUME Inv, KeptInv, NEW p \in Procs, Losing(p),
         RegistryStep \/ UNCHANGED poolVars
  PROVE  faults >= TimerTicks - 1
<1>1. ~UNCHANGED poolVars
  BY DEF Losing, poolVars, Registered, Pool!Registered
<1> QED BY <1>1, LostByExpiry

\* A living agent keeps its place unless TimerTicks - 1 faults have happened: a
\* lost heartbeat or two are made up for by the next (agent_mode.go against the
\* timer of server_register.go).
THEOREM Kept == Spec => LiveAgentKept
<1>1. Init => KeptInv
  BY KeptInit, RegistryAssumption DEF Init
<1>2. Inv /\ KeptInv /\ [Next]_vars => KeptInv'
  BY KeptStep, KeptBirth, KeptStutter DEF Next
<1>3. ASSUME Inv, KeptInv, [Next]_vars
      PROVE  [\A p \in Procs : Losing(p) => faults >= TimerTicks - 1]_vars
  <2>1. ASSUME NEW p \in Procs, Start(p) \/ Die(p) PROVE UNCHANGED poolVars
    BY <2>1 DEF Start, Die
  <2>2. [Next]_vars => RegistryStep \/ UNCHANGED poolVars
    BY <2>1 DEF Next, vars
  <2> QED BY <1>3, <2>2, LostInRegistry
<1>4. Spec => [][\A p \in Procs : Losing(p) => faults >= TimerTicks - 1]_vars
  BY <1>1, <1>2, <1>3, Invariance, PTL DEF Spec
<1> QED BY <1>4 DEF LiveAgentKept, Losing
=============================================================================
