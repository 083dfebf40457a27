---------------------------- MODULE AgentErrors -----------------------------
(***************************************************************************)
(* The error accounting of agents: runTaskOnce of agent_list.go against    *)
(* AgentImpl of agent.go.                                                  *)
(*                                                                         *)
(* AgentImpl.RunTask counts the errors of the callback it runs and retires *)
(* the agent past 3 of them.  runTaskOnce runs the callback itself and     *)
(* afterwards looks at the count: an agent past the limit is retired and   *)
(* banned.  An agent that has been retired here leaves the list.           *)
(***************************************************************************)
EXTENDS Integers, FiniteSets

CONSTANTS
  Workers, MaxAgents, MaxAttempts, NoAgent,   \* as in AgentPool
  MaxErrors,    \* errors an agent may have (3 in the code)
  MaxFailures   \* bound: failures of one agent in a behaviour

VARIABLES
  nextID, freeAgents, busyAgents, pc, agent, attempt,   \* AgentPool
  errorCount,   \* the count of each agent
  failures      \* the count AgentImpl.RunTask would have kept

poolVars == <<nextID, freeAgents, busyAgents, pc, agent, attempt>>
vars == <<poolVars, errorCount, failures>>

Pool == INSTANCE AgentPool

Init ==
  /\ Pool!Init
  /\ errorCount = [id \in Pool!AgentIds |-> 0]
  /\ failures = [id \in Pool!AgentIds |-> 0]

\* Everything of the list that runs no callback and returns from none.
ListStep ==
  /\ \/ Pool!AddAgent
     \/ \E id \in Pool!AgentIds : Pool!RemoveAgent(id)
     \/ \E w \in Workers :
          Pool!RunTask(w) \/ Pool!WaitForAgent(w) \/ Pool!TakeAgent(w) \/ Pool!FreeAgent(w)
  /\ UNCHANGED <<errorCount, failures>>

\* runTaskOnce calls the callback directly, not through AgentImpl.RunTask, so
\* the agent's count is what it was.
CallbackReturns(w, ok) ==
  /\ Pool!TaskReturns(w, ok)
  /\ failures[agent[w]] < MaxFailures
  /\ failures' = [failures EXCEPT ![agent[w]] =
                    IF ~ok THEN @ + 1 ELSE IF @ > 0 THEN @ - 1 ELSE 0]
  /\ UNCHANGED errorCount

\* ... and this test of the count, after an error, is never met.
RetireAgent(w) ==
  /\ pc[w] = "failed"
  /\ errorCount[agent[w]] > MaxErrors
  /\ Pool!RemoveAgent(agent[w])
  /\ UNCHANGED <<errorCount, failures>>

Next ==
  \/ ListStep
  \/ \E w \in Workers :
       RetireAgent(w) \/ \E ok \in BOOLEAN : CallbackReturns(w, ok)

Spec == Init /\ [][Next]_vars

\* "Retire the agent if it has too many errors": an agent whose callbacks have
\* failed more than MaxErrors times, successes deducted, is not offered to
\* workers (agent_list.go, agent.go).
FailingAgentRetired ==
  \A id \in freeAgents : failures[id] <= MaxErrors
=============================================================================
