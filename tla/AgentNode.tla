----------------------------- MODULE AgentNode ------------------------------
(***************************************************************************)
(* The agents of AgentRegistry, some of which are the processes that the   *)
(* commands of Daemon fork and stop on one machine; the others run         *)
(* elsewhere and come and go by themselves.                                *)
(***************************************************************************)
EXTENDS AgentRegistry

CONSTANTS
  Machines,   \* the sets of processes that may be those of that machine
  Spent,      \* bound: faults taken off the budget if the machine is there
  NoProc      \* as in Daemon

ASSUME MachinesAssumption == Machines \subseteq SUBSET Procs
ASSUME SpentAssumption == Spent \in 0..MaxFaults
ASSUME PidsAssumption == NoProc \notin Procs /\ {"absent", "empty"} \cap Procs = {}

VARIABLES
  managed,                                            \* one of Machines
  pidfile, cmd, force, target, process, signalled     \* Daemon

daemonVars == <<pidfile, cmd, force, target, process, signalled>>
nodeVars == <<managed, daemonVars>>
allVars == <<vars, nodeVars>>

Node == INSTANCE Daemon

NodeInit ==
  /\ managed \in Machines
  /\ Node!Init
  /\ RegistryInit(IF managed = {} THEN 0 ELSE Spent)

Command ==
  /\ managed # {}
  /\ Node!CommandStep
  /\ \A p \in Procs \ managed : process'[p] = "unborn"
  /\ UNCHANGED <<vars, managed>>

Mishap ==
  /\ Node!Mishap /\ Fault
  /\ UNCHANGED <<poolVars, up, owner, timerVars, callVars, loopVars, stale, managed>>

\* runAgent: with the port, registration begins; without it, the process ends.
Listen(p) ==
  /\ \/ Node!ListenSucceeds(p) /\ Start(p)
     \/ Node!ListenFails(p) /\ UNCHANGED vars
  /\ UNCHANGED managed

Exit(p) ==
  /\ Node!Exit(p)
  /\ IF Alive(p) THEN Die(p) ELSE UNCHANGED vars
  /\ UNCHANGED managed

NodeNext ==
  \/ RegistryStep /\ UNCHANGED nodeVars
  \/ \E p \in Procs \ managed : (Start(p) \/ Die(p)) /\ UNCHANGED nodeVars
  \/ \E p \in managed : Listen(p) \/ Exit(p)
  \/ Command \/ Mishap

\* No command need ever be given, or get to its end.
NodeFairness ==
  /\ Fairness
  /\ \A p \in Procs :
       WF_allVars(Listen(p)) /\ WF_allVars(p \in signalled /\ Exit(p))

NodeSpec == NodeInit /\ [][NodeNext]_allVars
NodeFairSpec == NodeSpec /\ NodeFairness

-----------------------------------------------------------------------------
NodeTypeOK == TypeOK /\ Node!TypeOK /\ managed \in Machines

\* What the pid file is for: see Daemon.
AtMostOneDaemon == Node!AtMostOneDaemon
RunningIsNamed == Node!RunningIsNamed
=============================================================================
