-------------------------- MODULE AgentPoolProofs ---------------------------
(***************************************************************************)
(* Proofs about AgentPool, for any finite set of workers, any number of    *)
(* agents and any number of attempts.                                      *)
(***************************************************************************)
EXTENDS AgentPool, TLAPS, FiniteSetTheorems

\* cond.Signal moves at most one worker, from the wait queue to the mutex.
LEMMA SignalledWakes ==
  ASSUME NEW p \in [Workers -> PCs], NEW q \in Signalled(p)
  PROVE  /\ q \in [Workers -> PCs]
         /\ \A w \in Workers :
              q[w] # p[w] => p[w] = "waiting" /\ q[w] = "locking"
  BY DEF Signalled, PCs

\* The inductive invariant holds initially, and every action preserves it.
LEMMA InitInv == Init => Inv
  BY MaxAgentsAssumption, MaxAttemptsAssumption
  DEF Init, Inv, TypeOK, Registered, Holding, PCs, Exclusive, BusyIffHeld

LEMMA AddAgentInv == Inv /\ AddAgent => Inv'
  <1> SUFFICES ASSUME Inv, AddAgent PROVE Inv'
    OBVIOUS
  <1> USE DEF Inv, AddAgent, TypeOK
  <1>1. nextID \in AgentIds /\ nextID \in Nat /\ nextID' = nextID + 1
    BY MaxAgentsAssumption DEF AgentIds
  <1>2. /\ pc' \in [Workers -> PCs]
        /\ \A w \in Workers : pc'[w] \in Holding <=> pc[w] \in Holding
    BY SignalledWakes DEF Holding
  <1>3. TypeOK'
    BY <1>1, <1>2, MaxAgentsAssumption
  <1>4. (freeAgents \cap busyAgents = {})'
    BY <1>1 DEF Registered, AgentIds
  <1>5. \A id \in Registered' : id < nextID'
    BY <1>1, MaxAgentsAssumption DEF Registered, AgentIds
  <1>6. \A w \in Workers : agent[w] # NoAgent => agent[w] < nextID'
    BY <1>1, MaxAgentsAssumption DEF AgentIds
  <1>7. Exclusive'
    BY DEF Exclusive
  <1>8. BusyIffHeld'
    <2>1. \A w \in Workers : agent[w] # nextID
      BY <1>1, NoAgentAssumption
    <2> QED BY <2>1 DEF BusyIffHeld
  <1> QED BY <1>2, <1>3, <1>4, <1>5, <1>6, <1>7, <1>8

LEMMA RemoveAgentInv == ASSUME NEW id \in AgentIds PROVE Inv /\ RemoveAgent(id) => Inv'
  BY DEF Inv, RemoveAgent, TypeOK, Registered, Exclusive, BusyIffHeld, Holding

LEMMA RunTaskInv == ASSUME NEW w \in Workers PROVE Inv /\ RunTask(w) => Inv'
  BY MaxAttemptsAssumption
  DEF Inv, RunTask, TypeOK, Registered, Exclusive, BusyIffHeld, Holding, PCs

LEMMA WaitForAgentInv == ASSUME NEW w \in Workers PROVE Inv /\ WaitForAgent(w) => Inv'
  BY DEF Inv, WaitForAgent, TypeOK, Registered, Exclusive, BusyIffHeld, Holding, PCs

LEMMA TaskReturnsInv ==
  ASSUME NEW w \in Workers, NEW ok \in BOOLEAN
  PROVE  Inv /\ TaskReturns(w, ok) => Inv'
  BY DEF Inv, TaskReturns, TypeOK, Registered, Exclusive, BusyIffHeld, Holding, PCs

LEMMA TakeAgentInv == ASSUME NEW w \in Workers PROVE Inv /\ TakeAgent(w) => Inv'
  <1> SUFFICES ASSUME Inv, TakeAgent(w) PROVE Inv'
    OBVIOUS
  <1>1. PICK id \in freeAgents :
          /\ freeAgents' = freeAgents \ {id}
          /\ busyAgents' = busyAgents \cup {id}
          /\ agent' = [agent EXCEPT ![w] = id]
    BY DEF TakeAgent
  <1>2. /\ id \in AgentIds /\ id < nextID /\ id # NoAgent
        /\ \A v \in Workers : agent[v] # id
    BY NoAgentAssumption DEF Inv, TypeOK, Registered, BusyIffHeld
  <1>3. pc' = [pc EXCEPT ![w] = "running"] /\ UNCHANGED <<nextID, attempt>>
    BY DEF TakeAgent
  <1>4. TypeOK'
    BY <1>1, <1>2, <1>3 DEF Inv, TypeOK, PCs, Holding
  <1>5. (freeAgents \cap busyAgents = {})' /\ \A i \in Registered' : i < nextID'
    BY <1>1, <1>2, <1>3 DEF Inv, Registered
  <1>6. \A v \in Workers :
          /\ agent'[v] # NoAgent <=> pc'[v] \in Holding
          /\ agent'[v] # NoAgent => agent'[v] < nextID'
    BY <1>1, <1>2, <1>3 DEF Inv, TypeOK, Holding
  <1>7. Exclusive'
    BY <1>1, <1>2 DEF Inv, TypeOK, Exclusive
  <1>8. BusyIffHeld'
    <2>1. ASSUME NEW i \in busyAgents' PROVE \E v \in Workers : agent'[v] = i
      <3>1. CASE i = id
        BY <3>1, <1>1 DEF Inv, TypeOK
      <3>2. CASE i \in busyAgents
        <4>1. PICK v \in Workers : agent[v] = i
          BY <3>2 DEF Inv, BusyIffHeld
        <4>2. v # w
          BY <4>1, <3>2, NoAgentAssumption DEF Inv, TypeOK, TakeAgent, Holding
        <4> QED BY <4>1, <4>2, <1>1 DEF Inv, TypeOK
      <3> QED BY <3>1, <3>2, <1>1
    <2>2. \A i \in freeAgents' : \A v \in Workers : agent'[v] # i
      BY <1>1 DEF Inv, TypeOK, BusyIffHeld
    <2> QED BY <2>1, <2>2 DEF BusyIffHeld
  <1> QED BY <1>4, <1>5, <1>6, <1>7, <1>8 DEF Inv

\* The worker that hands back an agent was its only holder.
LEMMA FreeAgentInv == ASSUME NEW w \in Workers PROVE Inv /\ FreeAgent(w) => Inv'
  <1> SUFFICES ASSUME Inv, FreeAgent(w) PROVE Inv'
    OBVIOUS
  <1> DEFINE id == agent[w]
             returned == Resumed(w)
  <1>1. /\ id # NoAgent /\ id < nextID /\ id \in AgentIds
        /\ \A v \in Workers \ {w} : agent[v] # id
    BY DEF Inv, TypeOK, FreeAgent, Holding, Exclusive
  <1>2. /\ agent' = [agent EXCEPT ![w] = NoAgent]
        /\ attempt' = [attempt EXCEPT ![w] = IF RunTaskReturns(w) THEN 0 ELSE @ + 1]
        /\ nextID' = nextID
    BY DEF FreeAgent
  <1>3. /\ pc' \in [Workers -> PCs]
        /\ \A v \in Workers \ {w} : pc'[v] \in Holding <=> pc[v] \in Holding
        /\ pc'[w] \notin Holding
    <2>1. returned \in [Workers -> PCs]
      BY DEF Inv, TypeOK, PCs, Resumed
    <2>2. pc' \in Signalled(returned) \/ pc' = returned
      BY DEF FreeAgent
    <2> HIDE DEF returned
    <2>3. /\ pc' \in [Workers -> PCs]
          /\ \A v \in Workers : pc'[v] \in Holding <=> returned[v] \in Holding
      BY <2>1, <2>2, SignalledWakes DEF Holding
    <2> USE DEF returned
    <2> QED BY <2>3 DEF Inv, TypeOK, Holding, Resumed
  <1>4. attempt' \in [Workers -> 0..MaxAttempts]
    BY <1>2, MaxAttemptsAssumption DEF Inv, TypeOK, RunTaskReturns
  <1>5. \/ /\ id \in busyAgents
           /\ busyAgents' = busyAgents \ {id}
           /\ freeAgents' = freeAgents \cup {id}
        \/ UNCHANGED <<freeAgents, busyAgents>> /\ id \notin busyAgents
    BY DEF FreeAgent, StillBusy
  <1>6. TypeOK'
    BY <1>1, <1>2, <1>3, <1>4, <1>5 DEF Inv, TypeOK
  <1>7. (freeAgents \cap busyAgents = {})' /\ \A i \in Registered' : i < nextID'
    BY <1>1, <1>2, <1>5 DEF Inv, Registered
  <1>8. \A v \in Workers :
          /\ agent'[v] # NoAgent <=> pc'[v] \in Holding
          /\ agent'[v] # NoAgent => agent'[v] < nextID'
    BY <1>2, <1>3 DEF Inv, TypeOK
  <1>9. Exclusive'
    BY <1>2 DEF Inv, TypeOK, Exclusive
  <1>10. BusyIffHeld'
    BY <1>1, <1>2, <1>5, NoAgentAssumption DEF Inv, TypeOK, BusyIffHeld
  <1> QED BY <1>3, <1>6, <1>7, <1>8, <1>9, <1>10 DEF Inv

LEMMA NextInv == Inv /\ [Next]_vars => Inv'
  <1> SUFFICES ASSUME Inv, [Next]_vars PROVE Inv'
    OBVIOUS
  <1>1. CASE UNCHANGED vars
    BY <1>1 DEF vars, Inv, TypeOK, Registered, Exclusive, BusyIffHeld, Holding
  <1>2. CASE Next
    BY <1>2, AddAgentInv, RemoveAgentInv, RunTaskInv, WaitForAgentInv, TakeAgentInv,
       TaskReturnsInv, FreeAgentInv DEF Next
  <1> QED BY <1>1, <1>2

THEOREM Invariance == Spec => []Inv
  BY InitInv, NextInv, PTL DEF Spec

\* Every variable keeps its type.
THEOREM TypeCorrect == Spec => []TypeOK
  <1>1. Inv => TypeOK
    BY DEF Inv
  <1> QED BY <1>1, Invariance, PTL

\* An agent runs the callback of at most one worker at a time.
THEOREM MutualExclusion == Spec => []Exclusive
  <1>1. Inv => Exclusive
    BY DEF Inv
  <1> QED BY <1>1, Invariance, PTL

\* A busy agent is held by a worker, a free agent by none.
THEOREM NoAgentLeaks == Spec => []BusyIffHeld
  <1>1. Inv => BusyIffHeld
    BY DEF Inv
  <1> QED BY <1>1, Invariance, PTL
-----------------------------------------------------------------------------
(* Removal is final.                                                       *)

\* An agent dropped from the list never comes back under its identifier: the
\* only actions that add to the lists take a new identifier, an agent that is
\* free, or an agent that is still busy.
THEOREM RemovalIsFinal == Spec => RemovedStaysRemoved
  <1> DEFINE Stays == \A id \in (0..(nextID - 1)) \ Registered : id \notin Registered'
  <1>1. Inv /\ [Next]_vars => [Stays]_vars
    <2> SUFFICES ASSUME Inv, Next PROVE Stays
      OBVIOUS
    <2> USE DEF Inv, TypeOK, Registered
    <2>1. CASE AddAgent
      BY <2>1, MaxAgentsAssumption DEF AddAgent
    <2>2. CASE \E id \in AgentIds : RemoveAgent(id)
      BY <2>2 DEF RemoveAgent
    <2>3. ASSUME NEW w \in Workers,
                 \/ RunTask(w) \/ WaitForAgent(w)
                 \/ \E ok \in BOOLEAN : TaskReturns(w, ok)
          PROVE  Stays
      BY <2>3 DEF RunTask, WaitForAgent, TaskReturns
    <2>4. ASSUME NEW w \in Workers, TakeAgent(w) PROVE Stays
      BY <2>4 DEF TakeAgent
    <2>5. ASSUME NEW w \in Workers, FreeAgent(w) PROVE Stays
      BY <2>5 DEF FreeAgent, StillBusy
    <2> QED BY <2>1, <2>2, <2>3, <2>4, <2>5 DEF Next
  <1> QED BY <1>1, Invariance, PTL DEF Spec, RemovedStaysRemoved

-----------------------------------------------------------------------------
(* The list implements the abstract lease.                                 *)

LEMMA InitRefines == Init => Lease!Init
  BY DEF Init, Lease!Init, Registered

LEMMA NextRefines == Inv /\ [Next]_vars => [Lease!Next]_(Lease!vars)
  <1> SUFFICES ASSUME Inv, [Next]_vars PROVE Lease!Next \/ UNCHANGED Lease!vars
    OBVIOUS
  <1> USE DEF Inv, TypeOK
  <1>1. CASE UNCHANGED vars
    BY <1>1 DEF vars, Registered, Lease!vars
  <1>2. CASE AddAgent
    <2>1. nextID \in AgentIds
      BY <1>2, MaxAgentsAssumption DEF AddAgent, AgentIds
    <2>2. Lease!Join(nextID)
      BY <1>2, <2>1, MaxAgentsAssumption DEF AddAgent, Registered, Lease!Join
    <2> QED BY <2>1, <2>2 DEF Lease!Next
  <1>3. ASSUME NEW id \in AgentIds, RemoveAgent(id) PROVE Lease!Next
    <2>1. Lease!Leave(id)
      BY <1>3 DEF RemoveAgent, Registered, AgentIds, Lease!Leave
    <2> QED BY <2>1 DEF Lease!Next
  <1>4. ASSUME NEW w \in Workers,
               \/ RunTask(w) \/ WaitForAgent(w)
               \/ \E ok \in BOOLEAN : TaskReturns(w, ok)
        PROVE  UNCHANGED Lease!vars
    BY <1>4 DEF RunTask, WaitForAgent, TaskReturns, Registered, Lease!vars
  <1>5. ASSUME NEW w \in Workers, TakeAgent(w) PROVE Lease!Next
    <2>1. PICK id \in freeAgents :
            /\ freeAgents' = freeAgents \ {id}
            /\ busyAgents' = busyAgents \cup {id}
            /\ agent' = [agent EXCEPT ![w] = id]
            /\ nextID' = nextID
      BY <1>5 DEF TakeAgent
    <2>2. Registered' = Registered
      BY <2>1 DEF Registered
    <2>3. agent[w] = NoAgent /\ \A v \in Workers : agent[v] # id
      BY <1>5 DEF TakeAgent, Holding, BusyIffHeld
    <2>4. Lease!Lend(w, id)
      BY <2>1, <2>2, <2>3 DEF Registered, Lease!Lend
    <2> QED BY <2>4 DEF Lease!Next
  <1>6. ASSUME NEW w \in Workers, FreeAgent(w) PROVE Lease!Next
    <2>1. Registered' = Registered /\ nextID' = nextID
      BY <1>6 DEF FreeAgent, StillBusy, Registered
    <2>2. Lease!GiveBack(w)
      BY <1>6, <2>1 DEF FreeAgent, Holding, Lease!GiveBack
    <2> QED BY <2>2 DEF Lease!Next
  <1> QED BY <1>1, <1>2, <1>3, <1>4, <1>5, <1>6 DEF Next

\* Whatever the workers, the agents and the retries, the list behaves as the
\* lease: one worker at a time, and no return of a departed agent.
THEOREM Refinement == Spec => ImplementsLease
  BY InitRefines, NextRefines, Invariance, PTL DEF Spec, ImplementsLease, Lease!Spec

-----------------------------------------------------------------------------
(* No wake-up is lost.                                                     *)

LEMMA FiniteLists ==
  ASSUME NEW free \in SUBSET AgentIds, NEW p \in [Workers -> PCs],
         NEW locking, locking = {v \in Workers : p[v] = "locking"}
  PROVE  /\ IsFiniteSet(free) /\ Cardinality(free) \in Nat
         /\ IsFiniteSet(locking) /\ Cardinality(locking) \in Nat
  <1>1. IsFiniteSet(AgentIds)
    BY FS_Interval, MaxAgentsAssumption DEF AgentIds
  <1>2. IsFiniteSet(free)
    BY <1>1, FS_Subset
  <1>3. IsFiniteSet(locking)
    <2>1. locking \subseteq Workers
      OBVIOUS
    <2> QED BY <2>1, FS_Subset, WorkersAssumption
  <1> QED BY <1>2, <1>3, FS_CardinalityType

\* A wake-up adds a worker on its way to the mutex unless nobody sleeps.
LEMMA SignalAddsOne ==
  ASSUME NEW p \in [Workers -> PCs], NEW q \in Signalled(p),
         \E v \in Workers : q[v] = "waiting"
  PROVE  Cardinality({v \in Workers : q[v] = "locking"})
           = Cardinality({v \in Workers : p[v] = "locking"}) + 1
  <1> DEFINE L(f) == {v \in Workers : f[v] = "locking"}
  <1>1. PICK w \in Workers : p[w] = "waiting" /\ q = [p EXCEPT ![w] = "locking"]
    BY DEF Signalled
  <1>2. L(q) = L(p) \cup {w} /\ w \notin L(p)
    BY <1>1
  <1>3. IsFiniteSet(L(p))
    <2>1. L(p) \subseteq Workers
      OBVIOUS
    <2> QED BY <2>1, FS_Subset, WorkersAssumption
  <1> QED BY <1>2, <1>3, FS_AddElement

LEMMA WakeupKept == Inv /\ NoLostWakeup /\ [Next]_vars => NoLostWakeup'
  <1> SUFFICES ASSUME Inv, NoLostWakeup, [Next]_vars, Waiting' # {}
               PROVE  Cardinality(freeAgents') <= Cardinality(Locking')
    BY DEF NoLostWakeup
  <1>1. /\ TypeOK /\ TypeOK'
        /\ Waiting # {} => Cardinality(freeAgents) <= Cardinality(Locking)
    BY NextInv DEF Inv, NoLostWakeup
  <1>2. /\ IsFiniteSet(freeAgents) /\ Cardinality(freeAgents) \in Nat
        /\ IsFiniteSet(Locking) /\ Cardinality(Locking) \in Nat
        /\ IsFiniteSet(freeAgents') /\ Cardinality(freeAgents') \in Nat
        /\ IsFiniteSet(Locking') /\ Cardinality(Locking') \in Nat
    BY <1>1, FiniteLists DEF TypeOK, Locking
  <1>3. pc \in [Workers -> PCs] /\ pc' \in [Workers -> PCs]
    BY <1>1 DEF TypeOK
  <1>4. CASE UNCHANGED vars
    BY <1>1, <1>4 DEF vars, Waiting, Locking
  <1>5. CASE AddAgent
    <2>1. pc' \in Signalled(pc) /\ freeAgents' = freeAgents \cup {nextID}
      BY <1>5 DEF AddAgent
    <2>2. Cardinality(freeAgents') <= Cardinality(freeAgents) + 1
      <3>1. Cardinality(freeAgents') = IF nextID \in freeAgents
                                       THEN Cardinality(freeAgents)
                                       ELSE Cardinality(freeAgents) + 1
        BY <2>1, <1>2, FS_AddElement
      <3> QED BY <3>1, <1>2
    <2>3. Waiting # {}
      BY <2>1, <1>3, SignalledWakes DEF Waiting
    <2>4. Cardinality(Locking') = Cardinality(Locking) + 1
      BY <2>1, <1>3, SignalAddsOne DEF Waiting, Locking
    <2> QED BY <2>2, <2>3, <2>4, <1>1, <1>2
  <1>6. ASSUME NEW id \in AgentIds, RemoveAgent(id)
        PROVE  Cardinality(freeAgents') <= Cardinality(Locking')
    <2>1. freeAgents' \subseteq freeAgents /\ pc' = pc
      BY <1>6 DEF RemoveAgent
    <2>2. Cardinality(freeAgents') <= Cardinality(freeAgents)
      BY <2>1, <1>2, FS_Subset
    <2> QED BY <2>1, <2>2, <1>1, <1>2 DEF Waiting, Locking
  <1>7. ASSUME NEW w \in Workers, RunTask(w)
        PROVE  Cardinality(freeAgents') <= Cardinality(Locking')
    <2>1. Waiting' = Waiting /\ Locking \subseteq Locking' /\ freeAgents' = freeAgents
      BY <1>7, <1>3 DEF RunTask, Waiting, Locking
    <2>2. Cardinality(Locking) <= Cardinality(Locking')
      BY <2>1, <1>2, FS_Subset
    <2> QED BY <2>1, <2>2, <1>1, <1>2
  <1>8. ASSUME NEW w \in Workers, WaitForAgent(w)
        PROVE  Cardinality(freeAgents') <= Cardinality(Locking')
    BY <1>8, <1>2, FS_EmptySet DEF WaitForAgent
  <1>9. ASSUME NEW w \in Workers, TakeAgent(w)
        PROVE  Cardinality(freeAgents') <= Cardinality(Locking')
    <2>1. PICK id \in freeAgents : freeAgents' = freeAgents \ {id}
      BY <1>9 DEF TakeAgent
    <2>2. Waiting' = Waiting /\ Locking' = Locking \ {w} /\ w \in Locking
      BY <1>9, <1>3 DEF TakeAgent, Waiting, Locking
    <2>3. Cardinality(freeAgents') = Cardinality(freeAgents) - 1
      BY <2>1, <1>2, FS_RemoveElement
    <2>4. Cardinality(Locking') = Cardinality(Locking) - 1
      BY <2>2, <1>2, FS_RemoveElement
    <2> QED BY <2>2, <2>3, <2>4, <1>1, <1>2
  <1>10. ASSUME NEW w \in Workers, NEW ok \in BOOLEAN, TaskReturns(w, ok)
         PROVE  Cardinality(freeAgents') <= Cardinality(Locking')
    <2>1. Waiting' = Waiting /\ Locking' = Locking /\ freeAgents' = freeAgents
      BY <1>10, <1>3 DEF TaskReturns, Waiting, Locking
    <2> QED BY <2>1, <1>1
  <1>11. ASSUME NEW w \in Workers, FreeAgent(w)
         PROVE  Cardinality(freeAgents') <= Cardinality(Locking')
    <2> DEFINE r == Resumed(w)
               L(f) == {v \in Workers : f[v] = "locking"}
    <2>1. /\ r \in [Workers -> PCs]
          /\ \A v \in Workers : r[v] = "waiting" => pc[v] = "waiting"
          /\ Locking \subseteq L(r)
      BY <1>11, <1>3 DEF FreeAgent, PCs, Locking, Resumed
    <2>2. \/ /\ freeAgents' = freeAgents \cup {agent[w]}
             /\ pc' \in Signalled(r)
          \/ freeAgents' = freeAgents /\ pc' = r
      BY <1>11 DEF FreeAgent
    <2> HIDE DEF r
    <2>3. IsFiniteSet(L(r)) /\ Cardinality(L(r)) \in Nat
      <3>1. L(r) \subseteq Workers
        OBVIOUS
      <3> QED BY <3>1, FS_Subset, WorkersAssumption, FS_CardinalityType
    <2>4. Cardinality(Locking) <= Cardinality(L(r))
      BY <2>1, <2>3, FS_Subset
    <2>5. CASE freeAgents' = freeAgents \cup {agent[w]} /\ pc' \in Signalled(r)
      <3>1. Cardinality(freeAgents') <= Cardinality(freeAgents) + 1
        <4>1. Cardinality(freeAgents') = IF agent[w] \in freeAgents
                                         THEN Cardinality(freeAgents)
                                         ELSE Cardinality(freeAgents) + 1
          BY <2>5, <1>2, FS_AddElement
        <4> QED BY <4>1, <1>2
      <3>2. Cardinality(Locking') = Cardinality(L(r)) + 1
        BY <2>1, <2>5, SignalAddsOne DEF Waiting, Locking
      <3>3. Waiting # {}
        BY <2>1, <2>5, SignalledWakes DEF Waiting
      <3> QED BY <3>1, <3>2, <3>3, <2>3, <2>4, <1>1, <1>2
    <2>6. CASE freeAgents' = freeAgents /\ pc' = r
      <3>1. Waiting # {} /\ Locking' = L(r)
        BY <2>1, <2>6 DEF Waiting, Locking
      <3> QED BY <3>1, <2>6, <2>3, <2>4, <1>1, <1>2
    <2> QED BY <2>2, <2>5, <2>6
  <1> QED BY <1>4, <1>5, <1>6, <1>7, <1>8, <1>9, <1>10, <1>11 DEF Next

\* While a worker sleeps, each free agent has a worker on its way to take it.
THEOREM WakeupsArrive == Spec => []NoLostWakeup
  <1>1. Init => NoLostWakeup
    BY DEF Init, NoLostWakeup, Waiting
  <1> QED BY <1>1, WakeupKept, Invariance, PTL DEF Spec
=============================================================================
