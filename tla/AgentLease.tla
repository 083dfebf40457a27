----------------------------- MODULE AgentLease -----------------------------
(***************************************************************************)
(* What the agent list promises to the goroutines that download chunks,    *)
(* without mutex, condition variable or retries: an agent joins once,      *)
(* leaves at most once and for good, and while it is a member it is lent   *)
(* to one worker at a time.  A worker keeps its agent when the agent       *)
(* leaves; handing back a departed agent does not make it a member again.  *)
(***************************************************************************)
EXTENDS Integers

CONSTANTS
  Workers,    \* the goroutines that borrow agents
  AgentIds,   \* the identifiers an agent can be given
  NoAgent     \* what a worker holds when it holds no agent; not in AgentIds

VARIABLES
  members,    \* agents that have joined and not left
  departed,   \* agents that have left
  holder      \* the agent each worker holds, or NoAgent

vars == <<members, departed, holder>>

Init ==
  /\ members = {}
  /\ departed = {}
  /\ holder = [w \in Workers |-> NoAgent]

Join(id) ==
  /\ id \notin members \cup departed
  /\ members' = members \cup {id}
  /\ UNCHANGED <<departed, holder>>

Leave(id) ==
  /\ id \in members
  /\ members' = members \ {id}
  /\ departed' = departed \cup {id}
  /\ UNCHANGED holder

Lend(w, id) ==
  /\ holder[w] = NoAgent
  /\ id \in members
  /\ \A v \in Workers : holder[v] # id
  /\ holder' = [holder EXCEPT ![w] = id]
  /\ UNCHANGED <<members, departed>>

GiveBack(w) ==
  /\ holder[w] # NoAgent
  /\ holder' = [holder EXCEPT ![w] = NoAgent]
  /\ UNCHANGED <<members, departed>>

Next ==
  \/ \E id \in AgentIds : Join(id) \/ Leave(id)
  \/ \E w \in Workers : GiveBack(w) \/ \E id \in AgentIds : Lend(w, id)

Spec == Init /\ [][Next]_vars
=============================================================================
