--------------------------- MODULE AgentRegistry ----------------------------
(***************************************************************************)
(* Registration and heartbeats: Register and Heartbeat of the server       *)
(* (cmd/server/server_register.go, server_heartbeat.go), the goroutine     *)
(* behind each registration that waits for its heartbeat timer, and the    *)
(* loop of the agent processes (cmd/client/agent_mode.go).  The agents are *)
(* kept in the list of AgentPool.                                          *)
(*                                                                         *)
(* Every process has at most one call open.  A handler of the server runs  *)
(* in two steps: what it does to the list, under the list's mutex, and     *)
(* what it does to the map heartbeatTimers, under no lock at all.          *)
(*                                                                         *)
(* A tick stands for the 5 seconds between two heartbeats.  Messages that  *)
(* are lost or late, server crashes and races of the map draw on a budget  *)
(* of faults.                                                              *)
(***************************************************************************)
EXTENDS Integers, FiniteSets

CONSTANTS
  Workers, MaxAgents, MaxAttempts, NoAgent,   \* as in AgentPool
  Procs,       \* agent processes; each lives once
  Nobody,      \* owner of an identifier not given out
  TimerTicks,  \* ticks of a heartbeat timer (20 s: 4 in the code)
  MaxErrors,   \* failed heartbeats an agent puts up with (3 in the code)
  MaxFaults    \* bound: faults in a behaviour

ASSUME RegistryAssumption ==
  /\ TimerTicks \in Nat \ {0} /\ MaxErrors \in Nat /\ MaxFaults \in Nat
  /\ Nobody \notin Procs

VARIABLES
  nextID, freeAgents, busyAgents, pc, agent, attempt,   \* AgentPool
  up,        \* whether the server process runs
  owner,     \* the process behind each identifier (the address in its Agent)
  timers,    \* identifiers with an entry in heartbeatTimers
  left,      \* ticks until the timer of each identifier fires
  waiter,    \* the goroutine that Register starts for each identifier
  handler,   \* where the server is in the call of each process
  callID,    \* the identifier that call is about
  loop,      \* where each process is in agent and sendHeartbeats
  id,        \* the identifier it was given
  errCount,  \* its failed heartbeats
  due,       \* whether its ticker or its sleep is over
  stale,     \* processes whose identifier is from an earlier server process
  faults

poolVars == <<nextID, freeAgents, busyAgents, pc, agent, attempt>>
timerVars == <<timers, left, waiter>>
callVars == <<handler, callID>>
loopVars == <<loop, id, errCount, due>>
vars == <<poolVars, up, owner, timerVars, callVars, loopVars, stale, faults>>

Pool == INSTANCE AgentPool

AgentIds == Pool!AgentIds
Registered == Pool!Registered

ASSUME AgentsAssumption ==
  /\ MaxAgents \in Nat /\ MaxAttempts \in Nat
  /\ NoAgent \notin AgentIds

RegistryInit(f) ==
  /\ Pool!Init
  /\ up = TRUE
  /\ owner = [i \in AgentIds |-> Nobody]
  /\ timers = {}
  /\ left = [i \in AgentIds |-> 0]
  /\ waiter = [i \in AgentIds |-> "none"]
  /\ handler = [p \in Procs |-> "none"]
  /\ callID = [p \in Procs |-> NoAgent]
  /\ loop = [p \in Procs |-> "off"]
  /\ id = [p \in Procs |-> NoAgent]
  /\ errCount = [p \in Procs |-> 0]
  /\ due = [p \in Procs |-> FALSE]
  /\ stale = {}
  /\ faults = f

Init == RegistryInit(0)

Alive(p) == loop[p] \notin {"off", "dead"}

Fault == faults < MaxFaults /\ faults' = faults + 1

-----------------------------------------------------------------------------
(* The agent process.  A name that ends in _Mutant is a plausible slip in    *)
(* the definition after it; none is part of the specification.             *)

\* runAgent: the loop begins.
Start(p) ==
  /\ loop[p] = "off"
  /\ loop' = [loop EXCEPT ![p] = "idle"]
  /\ due' = [due EXCEPT ![p] = TRUE]
  /\ UNCHANGED <<poolVars, up, owner, timerVars, callVars, id, errCount, stale, faults>>

\* The process ends; what the server does for it goes on.
Die(p) ==
  /\ Alive(p)
  /\ loop' = [loop EXCEPT ![p] = "dead"]
  /\ due' = [due EXCEPT ![p] = FALSE]
  /\ UNCHANGED <<poolVars, up, owner, timerVars, callVars, id, errCount, stale, faults>>

\* A call ends with an error: Register leaves agent, to sleep; Heartbeat
\* counts it and leaves sendHeartbeats after too many.
LoopAfterError(p) ==
  CASE loop[p] = "awaiting" /\ errCount[p] < MaxErrors -> "beating"
    [] loop[p] \in {"registering", "awaiting"}         -> "idle"
    [] OTHER                                           -> loop[p]

\* One error more is put up with than the loop counts to.
CountAfterError_Mutant(p) ==
  IF loop[p] = "awaiting" /\ errCount[p] <= MaxErrors THEN errCount[p] + 1 ELSE errCount[p]

CountAfterError(p) ==
  CASE loop[p] # "awaiting"    -> errCount[p]
    [] errCount[p] < MaxErrors -> errCount[p] + 1
    [] OTHER                   -> 0

CallsFail(P) ==
  /\ loop' = [p \in Procs |-> IF p \in P THEN LoopAfterError(p) ELSE loop[p]]
  /\ errCount' = [p \in Procs |-> IF p \in P THEN CountAfterError(p) ELSE errCount[p]]
  /\ due' = [p \in Procs |-> due[p] /\ (p \in P => loop'[p] # "idle")]
  /\ UNCHANGED id

\* A process calls: Register when it has slept (or just begun), Heartbeat when
\* its ticker has fired.  The call reaches the server if that is up.
Call(p, from, to, step) ==
  /\ loop[p] = from /\ due[p]
  /\ up /\ handler[p] = "none"
  /\ loop' = [loop EXCEPT ![p] = to]
  /\ due' = [due EXCEPT ![p] = FALSE]
  /\ handler' = [handler EXCEPT ![p] = step]
  /\ callID' = [callID EXCEPT ![p] = IF step = "find" THEN id[p] ELSE NoAgent]
  /\ UNCHANGED <<poolVars, up, owner, timerVars, id, errCount, stale, faults>>

CallRegister(p) == Call(p, "idle", "registering", "add")
CallHeartbeat(p) == Call(p, "beating", "awaiting", "find")

\* The call fails before it reaches the server: always if that is down.
CallLost(p) ==
  /\ loop[p] \in {"idle", "beating"} /\ due[p]
  /\ \/ ~up /\ UNCHANGED faults
     \/ up /\ Fault
  /\ due' = [due EXCEPT ![p] = FALSE]
  /\ IF loop[p] = "beating" /\ errCount[p] < MaxErrors
     THEN errCount' = [errCount EXCEPT ![p] = @ + 1] /\ UNCHANGED loop
     ELSE /\ loop' = [loop EXCEPT ![p] = "idle"]
          /\ errCount' = [errCount EXCEPT ![p] = 0]
  /\ UNCHANGED <<poolVars, up, owner, timerVars, callVars, id, stale>>

-----------------------------------------------------------------------------
(* The answer to a call.  It may get lost, and a dead process does not look  *)
(* at it.                                                                  *)

Return(p) ==
  /\ handler' = [handler EXCEPT ![p] = "none"]
  /\ callID' = [callID EXCEPT ![p] = NoAgent]

AnswerLost(p) == Fault /\ CallsFail({p}) /\ UNCHANGED stale

Unheard(p) == loop[p] = "dead" /\ UNCHANGED <<loopVars, stale, faults>>

\* Heartbeat with Success = FALSE counts like an error.
Rejected(p) == CallsFail({p}) /\ UNCHANGED <<stale, faults>>

\* The identifier in the answer is not taken over.
Registration_Mutant(p) ==
  \/ /\ loop[p] = "registering"
     /\ loop' = [loop EXCEPT ![p] = "beating"]
     /\ id' = [id EXCEPT ![p] = IF @ = NoAgent THEN callID[p] ELSE @]
     /\ errCount' = [errCount EXCEPT ![p] = 0]
     /\ stale' = stale \ {p}
     /\ UNCHANGED <<due, faults>>
  \/ Unheard(p)
  \/ AnswerLost(p)

\* Registered: sendHeartbeats begins with a new ticker and no errors.
Registration(p) ==
  \/ /\ loop[p] = "registering"
     /\ loop' = [loop EXCEPT ![p] = "beating"]
     /\ id' = [id EXCEPT ![p] = callID[p]]
     /\ errCount' = [errCount EXCEPT ![p] = 0]
     /\ stale' = stale \ {p}
     /\ UNCHANGED <<due, faults>>
  \/ Unheard(p)
  \/ AnswerLost(p)

\* One success makes up for one error.
Accepted(p) ==
  \/ /\ loop[p] = "awaiting"
     /\ loop' = [loop EXCEPT ![p] = "beating"]
     /\ errCount' = [errCount EXCEPT ![p] = IF @ > 0 THEN @ - 1 ELSE 0]
     /\ UNCHANGED <<id, due, stale, faults>>
  \/ Unheard(p)
  \/ AnswerLost(p)

-----------------------------------------------------------------------------
(* The server process.                                                     *)

\* It ends, and with it the list, the timers and their goroutines; the open
\* calls fail.  Identifiers given out so far mean nothing to the next one.
ServerDies ==
  /\ up
  /\ up' = FALSE
  /\ nextID' = 0 /\ freeAgents' = {} /\ busyAgents' = {}
  /\ UNCHANGED <<pc, agent, attempt>>
  /\ owner' = [i \in AgentIds |-> Nobody]
  /\ timers' = {}
  /\ left' = [i \in AgentIds |-> 0]
  /\ waiter' = [i \in AgentIds |-> "none"]
  /\ handler' = [p \in Procs |-> "none"]
  /\ callID' = [p \in Procs |-> NoAgent]
  /\ CallsFail(Procs)
  /\ stale' = stale \cup {p \in Procs : loop'[p] = "beating"}

Crash == Fault /\ ServerDies

ServerRestarts ==
  /\ ~up
  /\ up' = TRUE
  /\ UNCHANGED <<poolVars, owner, timerVars, callVars, loopVars, stale, faults>>

\* Register, with the list's mutex.
AddAgent(p) ==
  /\ handler[p] = "add"
  /\ Pool!AddAgent
  /\ owner' = [owner EXCEPT ![nextID] = p]
  /\ callID' = [callID EXCEPT ![p] = nextID]
  /\ handler' = [handler EXCEPT ![p] = "map"]
  /\ UNCHANGED <<up, timerVars, loopVars, stale, faults>>

\* Register, after it: the timer, its goroutine and the answer.
StoreTimer(p) ==
  /\ handler[p] = "map"
  /\ timers' = timers \cup {callID[p]}
  /\ left' = [left EXCEPT ![callID[p]] = TimerTicks]
  /\ waiter' = [waiter EXCEPT ![callID[p]] = "waiting"]
  /\ Registration(p)
  /\ Return(p)
  /\ UNCHANGED <<poolVars, up, owner>>

\* An unknown identifier is no reason to object.
FindAgent_Mutant(p) ==
  /\ handler[p] = "find"
  /\ IF callID[p] \in Registered
     THEN /\ handler' = [handler EXCEPT ![p] = "reset"]
          /\ UNCHANGED <<callID, loopVars, stale, faults>>
     ELSE Accepted(p) /\ Return(p)
  /\ UNCHANGED <<poolVars, up, owner, timerVars>>

\* Heartbeat, with the list's mutex: GetAgentByID.  The name is not compared.
FindAgent(p) ==
  /\ handler[p] = "find"
  /\ IF callID[p] \in Registered
     THEN /\ handler' = [handler EXCEPT ![p] = "reset"]
          /\ UNCHANGED <<callID, loopVars, stale, faults>>
     ELSE Rejected(p) /\ Return(p)
  /\ UNCHANGED <<poolVars, up, owner, timerVars>>

\* The timer is left running.
ResetTimer_Mutant(p) ==
  /\ handler[p] = "reset"
  /\ callID[p] \in timers
  /\ Accepted(p)
  /\ Return(p)
  /\ UNCHANGED <<poolVars, up, owner, timerVars>>

\* Heartbeat, after it: Reset, without effect once the goroutine has received
\* from the timer.
ResetTimer(p) ==
  /\ handler[p] = "reset"
  /\ callID[p] \in timers
  /\ left' = [left EXCEPT ![callID[p]] =
                IF waiter[callID[p]] = "waiting" THEN TimerTicks ELSE @]
  /\ Accepted(p)
  /\ Return(p)
  /\ UNCHANGED <<poolVars, up, owner, timers, waiter>>

\* There is no entry: Reset of a nil timer panics, and no one recovers.  Either
\* the goroutine has just deleted it, or a Register has not stored it yet, a
\* race for which one fault is charged.
ResetPanics(p) ==
  /\ handler[p] = "reset"
  /\ callID[p] \notin timers
  /\ \/ Fault
     \/ /\ \A q \in Procs : ~(handler[q] = "map" /\ callID[q] = callID[p])
        /\ UNCHANGED faults
  /\ ServerDies

\* The timer is forgotten, the agent is not.
Expire_Mutant(i) ==
  /\ waiter[i] = "waiting" /\ left[i] = 0
  /\ waiter' = [waiter EXCEPT ![i] = "deleting"]
  /\ UNCHANGED <<poolVars, up, owner, timers, left, callVars, loopVars, stale, faults>>

\* The goroutine of a registration: the timer has fired, the agent is dropped ...
Expire(i) ==
  /\ waiter[i] = "waiting" /\ left[i] = 0
  /\ waiter' = [waiter EXCEPT ![i] = "deleting"]
  /\ Pool!RemoveAgent(i)
  /\ UNCHANGED <<up, owner, timers, left, callVars, loopVars, stale, faults>>

\* The entry stays in the map.
DeleteTimer_Mutant(i) ==
  /\ waiter[i] = "deleting"
  /\ waiter' = [waiter EXCEPT ![i] = "none"]
  /\ UNCHANGED <<poolVars, up, owner, timers, left, callVars, loopVars, stale, faults>>

\* ... and its timer forgotten.
DeleteTimer(i) ==
  /\ waiter[i] = "deleting"
  /\ waiter' = [waiter EXCEPT ![i] = "none"]
  /\ timers' = timers \ {i}
  /\ UNCHANGED <<poolVars, up, owner, left, callVars, loopVars, stale, faults>>

\* Two goroutines are about to access the map, one of them to write: the
\* runtime may notice and end the process.
MapWriters ==
  {p \in Procs : handler[p] = "map"} \cup {i \in AgentIds : waiter[i] = "deleting"}
MapReaders == {p \in Procs : handler[p] = "reset"}

MapRace ==
  /\ MapWriters # {} /\ Cardinality(MapWriters \cup MapReaders) > 1
  /\ Fault /\ ServerDies

-----------------------------------------------------------------------------
\* Everything that can happen at once has happened.
Settled ==
  /\ \A p \in Procs : ~due[p] /\ handler[p] = "none"
  /\ \A i \in AgentIds : waiter[i] = "none" \/ (waiter[i] = "waiting" /\ left[i] > 0)

TimePasses ==
  /\ left' = [i \in AgentIds |-> IF left[i] > 0 THEN left[i] - 1 ELSE 0]
  /\ due' = [p \in Procs |-> loop[p] \in {"idle", "beating", "awaiting"}]
  /\ UNCHANGED <<poolVars, up, owner, timers, waiter, callVars, loop, id, errCount, stale>>

Tick == Settled /\ TimePasses /\ UNCHANGED faults
SlowTick == ~Settled /\ TimePasses /\ Fault

AgentStep(p) == CallRegister(p) \/ CallHeartbeat(p) \/ CallLost(p)
HandlerStep(p) == AddAgent(p) \/ StoreTimer(p) \/ FindAgent(p) \/ ResetTimer(p) \/ ResetPanics(p)
Expiry(i) == Expire(i) \/ DeleteTimer(i)

\* All but the birth and death of agent processes.
RegistryStep ==
  \/ \E p \in Procs : AgentStep(p) \/ HandlerStep(p)
  \/ \E i \in AgentIds : Expiry(i)
  \/ Crash \/ MapRace \/ ServerRestarts
  \/ Tick \/ SlowTick

Next == RegistryStep \/ \E p \in Procs : Start(p) \/ Die(p)

Spec == Init /\ [][Next]_vars

\* Goroutines that can run do, on both sides; time passes; a server that is
\* down is started again.
Fairness ==
  /\ \A p \in Procs : WF_vars(AgentStep(p)) /\ WF_vars(HandlerStep(p))
  /\ \A i \in AgentIds : WF_vars(Expiry(i))
  /\ WF_vars(Tick)
  /\ WF_vars(ServerRestarts)

FairSpec == Spec /\ Fairness

-----------------------------------------------------------------------------
TypeOK ==
  /\ Pool!TypeOK
  /\ up \in BOOLEAN
  /\ owner \in [AgentIds -> Procs \cup {Nobody}]
  /\ timers \in SUBSET AgentIds
  /\ left \in [AgentIds -> 0..TimerTicks]
  /\ waiter \in [AgentIds -> {"none", "waiting", "deleting"}]
  /\ handler \in [Procs -> {"none", "add", "map", "find", "reset"}]
  /\ callID \in [Procs -> AgentIds \cup {NoAgent}]
  /\ loop \in [Procs -> {"off", "idle", "registering", "beating", "awaiting", "dead"}]
  /\ id \in [Procs -> AgentIds \cup {NoAgent}]
  /\ errCount \in [Procs -> 0..MaxErrors]
  /\ due \in [Procs -> BOOLEAN]
  /\ stale \in SUBSET Procs
  /\ faults \in 0..MaxFaults

\* No agent stays in the list for ever: each one has a goroutine waiting for
\* its timer, or a Register about to start it; and no timer outlives its agent
\* but in the goroutine about to delete it.
TimerForEveryAgent ==
  /\ \A i \in Registered :
       \/ i \in timers /\ waiter[i] = "waiting"
       \/ \E p \in Procs : handler[p] = "map" /\ callID[p] = i
  /\ \A i \in timers : i \in Registered \/ waiter[i] = "deleting"

\* A heartbeat prolongs the registration of the process that sends it, unless
\* the server has been restarted since that process registered.
OwnHeartbeats ==
  \A p \in Procs :
    handler[p] = "reset" /\ p \notin stale => owner[callID[p]] = p

\* A living agent loses its place only after TimerTicks - 1 faults: a lost or
\* late heartbeat or two are made up for.
LiveAgentKept ==
  [][\A p \in Procs :
       /\ loop[p] \in {"beating", "awaiting"} /\ p \notin stale
       /\ up' /\ id[p] \in Registered \ Registered'
       => faults >= TimerTicks - 1]_vars

Listed(p) == \E i \in Registered : owner[i] = p

\* After a restart of the server p goes on with an identifier that now belongs
\* to another process: its heartbeats are accepted as that one's.
Mistaken(p) ==
  /\ p \in stale /\ loop[p] \in {"beating", "awaiting"}
  /\ owner[id[p]] \notin {p, Nobody}

\* Once faults cease, every agent process that lives is in the list for good:
\* lost calls, expired timers and restarts of the server end in a registration
\* (sendHeartBeatsToServer, sendHeartbeats, Heartbeat).  Except if mistaken.
LiveAgentListed ==
  \A p \in Procs : <>[](Alive(p) => Listed(p) \/ Mistaken(p))

\* ... and one that is dead is not, unless another one is mistaken for it.
DeadAgentDropped ==
  \A p \in Procs :
    <>[](loop[p] = "dead" /\ Listed(p)
         => \E q \in Procs : Mistaken(q) /\ owner[id[q]] = p)
=============================================================================
