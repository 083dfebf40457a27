----------------------------- MODULE AgentPool ------------------------------
(***************************************************************************)
(* The server's list of download agents, internal/agents/agent_list.go: a  *)
(* monitor (one mutex, one condition variable) from which the goroutines   *)
(* of a download borrow agents.                                            *)
(*                                                                         *)
(* Every exported method holds the mutex from its first to its last line,  *)
(* so a method is one action, except getOneFreeAgent, which gives up the   *)
(* mutex inside cond.Wait and is split there.                              *)
(*                                                                         *)
(* runTaskOnce retires and bans an agent whose error count exceeds 3.  The *)
(* count is only ever raised by AgentImpl.RunTask, which nothing calls, so *)
(* it is 0 throughout and that branch, BanAgent and the ban test of        *)
(* AddAgent are unreachable: bannedAgents stays empty and is not modelled. *)
(***************************************************************************)
EXTENDS Integers, FiniteSets

CONSTANTS
  Workers,      \* the goroutines that call RunTask
  MaxAgents,    \* bound: how many agents register in a behaviour
  MaxAttempts,  \* how often RunTask tries the callback (3 in the code)
  NoAgent       \* what a worker holds outside the callback

ASSUME WorkersAssumption == IsFiniteSet(Workers)
ASSUME MaxAgentsAssumption == MaxAgents \in Nat
ASSUME MaxAttemptsAssumption == MaxAttempts \in Nat \ {0}

AgentIds == 0..(MaxAgents - 1)

ASSUME NoAgentAssumption == NoAgent \notin AgentIds

VARIABLES
  nextID,       \* the identifier the next agent gets
  freeAgents,   \* agents no worker has been given
  busyAgents,   \* agents given to a worker
  pc,           \* where each worker is in RunTask
  agent,        \* the agent the callback of each worker runs on
  attempt       \* the iteration of RunTask's retry loop

vars == <<nextID, freeAgents, busyAgents, pc, agent, attempt>>

(***************************************************************************)
(* A worker is "idle" outside RunTask; "locking" when it is about to take  *)
(* the mutex in getOneFreeAgent, on entry or woken from Wait; "waiting" in *)
(* cond.Wait; "running" inside the callback; "succeeded" or "failed" when  *)
(* the callback has returned and the deferred freeAgent is still to come.  *)
(***************************************************************************)
Holding == {"running", "succeeded", "failed"}
PCs == {"idle", "locking", "waiting"} \cup Holding

Registered == freeAgents \cup busyAgents
Waiting == {w \in Workers : pc[w] = "waiting"}
Locking == {w \in Workers : pc[w] = "locking"}

Init ==
  /\ nextID = 0
  /\ freeAgents = {}
  /\ busyAgents = {}
  /\ pc = [w \in Workers |-> "idle"]
  /\ agent = [w \in Workers |-> NoAgent]
  /\ attempt = [w \in Workers |-> 0]

-----------------------------------------------------------------------------
(* A name that ends in _Mutant is a plausible slip in the definition after   *)
(* it; none is part of the specification.                                  *)

\* The Signal is forgotten.
Signalled_Mutant(p) == {p}

\* cond.Signal(): one waiting worker, if there is one, leaves the wait queue.
\* Which one is left open: the sync package promises no order.
Signalled(p) ==
  LET asleep == {w \in Workers : p[w] = "waiting"}
  IN  IF asleep = {} THEN {p}
                     ELSE {[p EXCEPT ![w] = "locking"] : w \in asleep}

\* The identifier is not advanced.
AddAgent_Mutant ==
  /\ nextID < MaxAgents
  /\ freeAgents' = freeAgents \cup {nextID}
  /\ pc' \in Signalled(pc)
  /\ UNCHANGED <<nextID, busyAgents, agent, attempt>>

\* A new agent is given the next identifier and put in the free list.
AddAgent ==
  /\ nextID < MaxAgents
  /\ nextID' = nextID + 1
  /\ freeAgents' = freeAgents \cup {nextID}
  /\ pc' \in Signalled(pc)
  /\ UNCHANGED <<busyAgents, agent, attempt>>

\* An agent is dropped, whether or not a worker is using it.
RemoveAgent(id) ==
  /\ id \in Registered
  /\ freeAgents' = freeAgents \ {id}
  /\ busyAgents' = busyAgents \ {id}
  /\ UNCHANGED <<nextID, pc, agent, attempt>>

\* RunTask is called: the first iteration of its loop begins.
RunTask(w) ==
  /\ pc[w] = "idle"
  /\ pc' = [pc EXCEPT ![w] = "locking"]
  /\ attempt' = [attempt EXCEPT ![w] = 1]
  /\ UNCHANGED <<nextID, freeAgents, busyAgents, agent>>

\* The wait is entered without looking at the free list.
WaitForAgent_Mutant(w) ==
  /\ pc[w] = "locking"
  /\ pc' = [pc EXCEPT ![w] = "waiting"]
  /\ UNCHANGED <<nextID, freeAgents, busyAgents, agent, attempt>>

\* getOneFreeAgent with the mutex held: wait if the free list is empty ...
WaitForAgent(w) ==
  /\ pc[w] = "locking"
  /\ freeAgents = {}
  /\ pc' = [pc EXCEPT ![w] = "waiting"]
  /\ UNCHANGED <<nextID, freeAgents, busyAgents, agent, attempt>>

\* The agent is not deleted from the free list.
TakeAgent_Mutant(w) ==
  /\ pc[w] = "locking"
  /\ \E id \in freeAgents :
       /\ busyAgents' = busyAgents \cup {id}
       /\ agent' = [agent EXCEPT ![w] = id]
  /\ pc' = [pc EXCEPT ![w] = "running"]
  /\ UNCHANGED <<nextID, freeAgents, attempt>>

\* ... or take an arbitrary free agent (map iteration order) and enter the
\* callback with it.
TakeAgent(w) ==
  /\ pc[w] = "locking"
  /\ \E id \in freeAgents :
       /\ freeAgents' = freeAgents \ {id}
       /\ busyAgents' = busyAgents \cup {id}
       /\ agent' = [agent EXCEPT ![w] = id]
  /\ pc' = [pc EXCEPT ![w] = "running"]
  /\ UNCHANGED <<nextID, attempt>>

\* The callback returns, with or without an error.
TaskReturns(w, ok) ==
  /\ pc[w] = "running"
  /\ pc' = [pc EXCEPT ![w] = IF ok THEN "succeeded" ELSE "failed"]
  /\ UNCHANGED <<nextID, freeAgents, busyAgents, agent, attempt>>

\* One attempt too many.
RunTaskReturns_Mutant(w) == pc[w] = "succeeded" \/ attempt[w] > MaxAttempts

\* Whether RunTask returns after the current attempt or tries again.
RunTaskReturns(w) == pc[w] = "succeeded" \/ attempt[w] >= MaxAttempts

\* RunTask leaves runTaskOnce: to its caller or to its next iteration.
Resumed(w) == [pc EXCEPT ![w] = IF RunTaskReturns(w) THEN "idle" ELSE "locking"]

\* Whether freeAgent finds the agent to put back.
StillBusy_Mutant(id) == TRUE
StillBusy(id) == id \in busyAgents

\* After an error the agent is not handed back.
FreeAgent_Mutant(w) ==
  /\ pc[w] \in {"succeeded", "failed"}
  /\ agent' = [agent EXCEPT ![w] = NoAgent]
  /\ attempt' = [attempt EXCEPT ![w] = IF RunTaskReturns(w) THEN 0 ELSE @ + 1]
  /\ IF pc[w] = "succeeded" /\ StillBusy(agent[w])
     THEN /\ busyAgents' = busyAgents \ {agent[w]}
          /\ freeAgents' = freeAgents \cup {agent[w]}
          /\ pc' \in Signalled(Resumed(w))
     ELSE pc' = Resumed(w) /\ UNCHANGED <<freeAgents, busyAgents>>
  /\ UNCHANGED nextID

\* The deferred freeAgent: an agent that is still busy becomes free and a
\* waiting worker is woken; an agent removed in the meantime stays removed.
FreeAgent(w) ==
  /\ pc[w] \in {"succeeded", "failed"}
  /\ agent' = [agent EXCEPT ![w] = NoAgent]
  /\ attempt' = [attempt EXCEPT ![w] = IF RunTaskReturns(w) THEN 0 ELSE @ + 1]
  /\ \/ /\ StillBusy(agent[w])
        /\ busyAgents' = busyAgents \ {agent[w]}
        /\ freeAgents' = freeAgents \cup {agent[w]}
        /\ pc' \in Signalled(Resumed(w))
     \/ /\ ~StillBusy(agent[w])
        /\ pc' = Resumed(w)
        /\ UNCHANGED <<freeAgents, busyAgents>>
  /\ UNCHANGED nextID

Next ==
  \/ AddAgent
  \/ \E id \in AgentIds : RemoveAgent(id)
  \/ \E w \in Workers :
       \/ RunTask(w)
       \/ WaitForAgent(w)
       \/ TakeAgent(w)
       \/ \E ok \in BOOLEAN : TaskReturns(w, ok)
       \/ FreeAgent(w)

Spec == Init /\ [][Next]_vars

\* The Go scheduler runs every runnable goroutine, and a callback returns.
\* No fairness is assumed of agents registering or leaving, or of new calls.
Fairness ==
  \A w \in Workers :
    /\ WF_vars(WaitForAgent(w) \/ TakeAgent(w))
    /\ WF_vars(\E ok \in BOOLEAN : TaskReturns(w, ok))
    /\ WF_vars(FreeAgent(w))

FairSpec == Spec /\ Fairness

-----------------------------------------------------------------------------
TypeOK ==
  /\ nextID \in 0..MaxAgents
  /\ freeAgents \in SUBSET AgentIds
  /\ busyAgents \in SUBSET AgentIds
  /\ pc \in [Workers -> PCs]
  /\ agent \in [Workers -> AgentIds \cup {NoAgent}]
  /\ attempt \in [Workers -> 0..MaxAttempts]

\* At any time an agent runs the callback of at most one worker, across
\* removals, re-registrations and retries (runTaskOnce, getOneFreeAgent).
Exclusive ==
  \A v, w \in Workers : v # w /\ agent[v] = agent[w] => agent[v] = NoAgent

\* No agent leaks out of circulation: an agent in the busy list is held by a
\* worker that will hand it back, and a free one by nobody.
BusyIffHeld ==
  /\ \A id \in busyAgents : \E w \in Workers : agent[w] = id
  /\ \A id \in freeAgents : \A w \in Workers : agent[w] # id

\* No wake-up is lost: while workers sleep in cond.Wait, every free agent has
\* a worker that is already on its way to the mutex to take it.
NoLostWakeup ==
  Waiting # {} => Cardinality(freeAgents) <= Cardinality(Locking)

\* An agent dropped from the list never comes back under its identifier, in
\* particular not through the freeAgent of the worker that was using it.
RemovedStaysRemoved ==
  [][\A id \in (0..(nextID - 1)) \ Registered : id \notin Registered']_vars

\* If a worker sleeps while an agent is free, then the sleepers are woken or
\* the free agents are all taken: the list never stalls with work to do.
FreeAgentIsUsed ==
  (freeAgents # {} /\ Waiting # {}) ~> (freeAgents = {} \/ Waiting = {})

\* What makes the properties above inductive: an agent is in at most one of
\* the two lists, no identifier from nextID on is in use, and a worker holds an
\* agent exactly while its callback runs or the agent is to be handed back.
Inv ==
  /\ TypeOK
  /\ freeAgents \cap busyAgents = {}
  /\ \A id \in Registered : id < nextID
  /\ \A w \in Workers :
       /\ agent[w] # NoAgent <=> pc[w] \in Holding
       /\ agent[w] # NoAgent => agent[w] < nextID
  /\ Exclusive
  /\ BusyIffHeld

\* The list implements the lease discipline of AgentLease.
Lease == INSTANCE AgentLease WITH
  members  <- Registered,
  departed <- (0..(nextID - 1)) \ Registered,
  holder   <- agent

ImplementsLease == Lease!Spec
=============================================================================
