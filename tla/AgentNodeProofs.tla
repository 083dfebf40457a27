--------------------------- MODULE AgentNodeProofs ----------------------------
(***************************************************************************)
(* Proofs about AgentNode: the pid file names the daemon that runs, for    *)
(* any number of processes, commands and mishaps, and the invariants of    *)
(* AgentRegistry hold of the agents that the commands start and stop.      *)
(***************************************************************************)
EXTENDS AgentNode, AgentRegistryProofs

\* The daemons nobody has asked to end.
Daemons == {p \in Procs : Node!Running(p) /\ p \notin signalled}

\* What a command that has looked at the pid file may still rely on when it
\* goes on: the file is as it was, and only the process it names may run.
Relied ==
  /\ cmd \in {"probe", "term", "remove"} => pidfile = target /\ target \in Procs
  /\ cmd = "remove" => Daemons = {}
  /\ cmd = "fork" => pidfile = "empty" /\ Daemons = {}
  /\ cmd = "write" => pidfile = "empty" /\ target \in Procs /\ Daemons \subseteq {target}

DaemonInv ==
  /\ Node!TypeOK
  /\ AtMostOneDaemon
  /\ RunningIsNamed
  /\ Relied

LEMMA DaemonInit == Node!Init => DaemonInv
  BY DEF Node!Init, DaemonInv, Node!TypeOK, Node!Steps, AtMostOneDaemon, Node!AtMostOneDaemon,
      RunningIsNamed, Node!RunningIsNamed, Relied, Daemons, Node!Running

\* A step of a command: it creates, removes or writes the file, forks a process
\* or signals one.
LEMMA DaemonCommand == DaemonInv /\ Node!CommandStep => DaemonInv'
<1> SUFFICES ASSUME DaemonInv, Node!CommandStep PROVE DaemonInv'
  OBVIOUS
<1> USE PidsAssumption DEF DaemonInv, Node!TypeOK, Node!Steps, AtMostOneDaemon,
      Node!AtMostOneDaemon, RunningIsNamed, Node!RunningIsNamed, Relied, Daemons,
      Node!Running, Node!Proceed, Node!Stopped
<1>1. CASE \E f \in BOOLEAN : Node!CallStop(f)
  BY <1>1 DEF Node!CallStop
<1>2. CASE Node!CallDaemonize
  BY <1>2 DEF Node!CallDaemonize
<1>3. CASE Node!ReadPid
  BY <1>3 DEF Node!ReadPid
<1>4. CASE Node!Probe
  BY <1>4 DEF Node!Probe
<1>5. CASE Node!Terminate
  BY <1>5 DEF Node!Terminate
<1>6. CASE Node!RemovePidfile
  BY <1>6 DEF Node!RemovePidfile
<1>7. CASE Node!CreatePidfile
  BY <1>7 DEF Node!CreatePidfile
<1>8. ASSUME NEW p \in Procs, Node!Fork(p) PROVE DaemonInv'
  BY <1>8 DEF Node!Fork
<1>9. CASE Node!WritePid
  BY <1>9 DEF Node!WritePid
<1> QED BY <1>1, <1>2, <1>3, <1>4, <1>5, <1>6, <1>7, <1>8, <1>9 DEF Node!CommandStep

\* A process that starts to serve was running before, one that ends runs no more.
LEMMA DaemonProcess ==
  ASSUME NEW p \in Procs
  PROVE  DaemonInv /\ (Node!ListenSucceeds(p) \/ Node!ListenFails(p) \/ Node!Exit(p)) => DaemonInv'
  BY DEF DaemonInv, Node!TypeOK, AtMostOneDaemon, Node!AtMostOneDaemon, RunningIsNamed,
      Node!RunningIsNamed, Relied, Daemons, Node!Running, Node!ListenSucceeds,
      Node!ListenFails, Node!Exit

LEMMA DaemonMishap == DaemonInv /\ Node!Mishap => DaemonInv'
  BY PidsAssumption
  DEF DaemonInv, Node!TypeOK, Node!Steps, AtMostOneDaemon, Node!AtMostOneDaemon,
      RunningIsNamed, Node!RunningIsNamed, Relied, Daemons, Node!Running, Node!Mishap,
      Node!Proceed

LEMMA DaemonStutter == DaemonInv /\ UNCHANGED daemonVars => DaemonInv'
  BY DEF DaemonInv, Node!TypeOK, AtMostOneDaemon, Node!AtMostOneDaemon, RunningIsNamed,
      Node!RunningIsNamed, Relied, Daemons, Node!Running, daemonVars

-----------------------------------------------------------------------------
NodeInv == Inv /\ DaemonInv /\ managed \in Machines

LEMMA NodeInitInv == NodeInit => NodeInv
<1>1. NodeInit => (IF managed = {} THEN 0 ELSE Spent) \in 0..MaxFaults
  BY SpentAssumption, RegistryAssumption DEF NodeInit
<1> QED BY <1>1, InitInv, DaemonInit DEF NodeInit, NodeInv

LEMMA NodeNextInv == NodeInv /\ [NodeNext]_allVars => NodeInv'
<1> SUFFICES ASSUME NodeInv, [NodeNext]_allVars PROVE NodeInv'
  OBVIOUS
<1>m. managed \subseteq Procs
  BY MachinesAssumption DEF NodeInv
<1>1. CASE RegistryStep /\ UNCHANGED nodeVars
  BY <1>1, RegistryStepInv, DaemonStutter DEF NodeInv, nodeVars
<1>2. ASSUME NEW p \in Procs \ managed, (Start(p) \/ Die(p)) /\ UNCHANGED nodeVars
      PROVE  NodeInv'
  BY <1>2, StartInv, DieInv, DaemonStutter DEF NodeInv, nodeVars
<1>3. ASSUME NEW p \in managed, Listen(p) PROVE NodeInv'
  BY <1>3, <1>m, StartInv, StutterInv, DaemonProcess DEF NodeInv, Listen
<1>4. ASSUME NEW p \in managed, Exit(p) PROVE NodeInv'
  BY <1>4, <1>m, DieInv, StutterInv, DaemonProcess DEF NodeInv, Exit
<1>5. CASE Command
  BY <1>5, StutterInv, DaemonCommand DEF NodeInv, Command
<1>6. CASE Mishap
  <2>1. faults' \in 0..MaxFaults
    BY <1>6, RegistryAssumption DEF Mishap, Fault, NodeInv, Inv, TypeOK
  <2>2. Inv'
    BY <1>6, <2>1 DEF Mishap, NodeInv, Inv, TypeOK, InOrder, DroppedFirst, OwnStore,
        OwnIds, Owns, TimerForEveryAgent, Registered, AgentIds, Pool!TypeOK,
        Pool!Registered, Pool!AgentIds, poolVars, timerVars, callVars, loopVars
  <2> QED BY <1>6, <2>2, DaemonMishap DEF Mishap, NodeInv
<1>7. CASE UNCHANGED allVars
  BY <1>7, StutterInv, DaemonStutter DEF NodeInv, allVars, nodeVars
<1> QED BY <1>1, <1>2, <1>3, <1>4, <1>5, <1>6, <1>7 DEF NodeNext

\* The invariants of the registry and those of the pid file hold together.
THEOREM NodeInvariance == NodeSpec => []NodeInv
<1> QED BY NodeInitInv, NodeNextInv, PTL DEF NodeSpec

\* Values of all variables are of their types.
THEOREM NodeTypeCorrect == NodeSpec => []NodeTypeOK
<1>1. NodeInv => NodeTypeOK
  BY DEF NodeInv, Inv, DaemonInv, NodeTypeOK
<1> QED BY <1>1, NodeInvariance, PTL

\* At most one daemon is left running, for any number of --daemon, --stop and
\* --force, one after the other, and of mishaps (daemonize.go).
THEOREM OneDaemon == NodeSpec => []AtMostOneDaemon
<1>1. NodeInv => AtMostOneDaemon
  BY DEF NodeInv, DaemonInv
<1> QED BY <1>1, NodeInvariance, PTL

\* The daemon that runs is the one the pid file names (daemonize.go).
THEOREM Named == NodeSpec => []RunningIsNamed
<1>1. NodeInv => RunningIsNamed
  BY DEF NodeInv, DaemonInv
<1> QED BY <1>1, NodeInvariance, PTL

\* Agents that commands start and stop are dropped when they are silent, like
\* those of Timed in AgentRegistryProofs.
THEOREM NodeTimed == NodeSpec => []TimerForEveryAgent
<1>1. NodeInv => TimerForEveryAgent
  BY DEF NodeInv, Inv
<1> QED BY <1>1, NodeInvariance, PTL

\* They prolong no registration but their own, unless the server was restarted.
THEOREM NodeOwn == NodeSpec => []OwnHeartbeats
<1>1. NodeInv => OwnHeartbeats
  BY DEF NodeInv, Inv, OwnIds, Owns, OwnHeartbeats
<1> QED BY <1>1, NodeInvariance, PTL

LEMMA NodeKept == NodeInv /\ KeptInv /\ [NodeNext]_allVars => KeptInv'
<1> SUFFICES ASSUME NodeInv, KeptInv, [NodeNext]_allVars PROVE KeptInv'
  OBVIOUS
<1>1. Inv /\ managed \subseteq Procs
  BY MachinesAssumption DEF NodeInv
<1>2. ASSUME NEW p \in Procs, Start(p) \/ Die(p) \/ UNCHANGED vars PROVE KeptInv'
  BY <1>1, <1>2, KeptBirth, KeptStutter
<1>3. CASE Mishap
  BY <1>1, <1>3, KeptStutter DEF Mishap
<1>4. CASE UNCHANGED vars
  BY <1>1, <1>4, KeptStutter
<1> QED BY <1>1, <1>2, <1>3, <1>4, KeptStep DEF NodeNext, Listen, Exit, Command, allVars

\* The agents that commands start and stop keep their places, too, for as long
\* as there are not TimerTicks - 1 faults, mishaps of commands included.
THEOREM NodeLiveKept == NodeSpec => LiveAgentKept
<1>1. NodeInit => KeptInv
  <2>1. NodeInit => (IF managed = {} THEN 0 ELSE Spent) \in 0..MaxFaults
    BY SpentAssumption, RegistryAssumption DEF NodeInit
  <2> QED BY <2>1, KeptInit DEF NodeInit
<1>2. ASSUME NodeInv, KeptInv, [NodeNext]_allVars
      PROVE  [\A p \in Procs : Losing(p) => faults >= TimerTicks - 1]_vars
  <2>1. ASSUME NEW p \in Procs, Start(p) \/ Die(p) PROVE UNCHANGED poolVars
    BY <2>1 DEF Start, Die
  <2>2. managed \subseteq Procs
    BY <1>2, MachinesAssumption DEF NodeInv
  <2>3. RegistryStep \/ UNCHANGED poolVars
    BY <1>2, <2>1, <2>2 DEF NodeNext, Listen, Exit, Command, Mishap, allVars, vars
  <2> QED BY <1>2, <2>3, LostInRegistry DEF NodeInv
<1>3. NodeSpec => [][\A p \in Procs : Losing(p) => faults >= TimerTicks - 1]_vars
  BY <1>1, <1>2, NodeKept, NodeInvariance, PTL DEF NodeSpec
<1> QED BY <1>3 DEF LiveAgentKept, Losing
=============================================================================
