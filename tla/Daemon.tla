------------------------------- MODULE Daemon --------------------------------
(***************************************************************************)
(* The agent as a daemon: Daemonize and StopDaemon                         *)
(* (internal/common/daemonize.go) as the command line runs them            *)
(* (cmd/client/ddson_client.go), the pid file they communicate by, and the *)
(* processes they fork and signal.                                         *)
(*                                                                         *)
(* The steps of a command are its accesses to the file and to a process.   *)
(* One command runs at a time: of two at once both could find no pid file  *)
(* and fork, as the TODO above os.Create says.                             *)
(***************************************************************************)
CONSTANTS
  Procs,   \* the processes this machine forks; their pids are not used again
  NoProc   \* not a process

VARIABLES
  pidfile,   \* "absent", "empty" or the process whose pid it holds
  cmd,       \* the next step of the running command
  force,     \* whether it is to daemonize after it has stopped
  target,    \* the process it is about to stop, or has forked
  process,   \* the life of each process
  signalled  \* processes that have got a SIGTERM

vars == <<pidfile, cmd, force, target, process, signalled>>

Steps == {"none", "read", "probe", "term", "remove", "stat", "fork", "write"}
Running(p) == process[p] \in {"starting", "serving"}

Init ==
  /\ pidfile = "absent"
  /\ cmd = "none"
  /\ force = FALSE
  /\ target = NoProc
  /\ process = [p \in Procs |-> "unborn"]
  /\ signalled = {}

\* The command goes on with a step, or returns.
Proceed(step, p) ==
  /\ cmd' = step
  /\ target' = p
  /\ force' = (force /\ step # "none")

\* StopDaemon has done its part.
Stopped == Proceed(IF force THEN "stat" ELSE "none", NoProc)

-----------------------------------------------------------------------------
(* The commands.  A name that ends in _Mutant is a plausible slip in the     *)
(* definition after it; none is part of the specification.                 *)

\* --stop, or --daemon with --force
CallStop(f) ==
  /\ cmd = "none"
  /\ cmd' = "read"
  /\ force' = f
  /\ UNCHANGED <<pidfile, target, process, signalled>>

\* --daemon
CallDaemonize ==
  /\ cmd = "none"
  /\ Proceed("stat", NoProc)
  /\ UNCHANGED <<pidfile, process, signalled>>

\* No pid file, nothing to stop; one without a number is an error.
ReadPid ==
  /\ cmd = "read"
  /\ \/ pidfile = "absent" /\ Stopped
     \/ pidfile = "empty" /\ Proceed("none", NoProc)
     \/ pidfile \in Procs /\ Proceed("probe", pidfile)
  /\ UNCHANGED <<pidfile, process, signalled>>

\* The process is taken for dead.
Probe_Mutant ==
  /\ cmd = "probe"
  /\ Proceed("remove", target)
  /\ UNCHANGED <<pidfile, process, signalled>>

\* Signal 0: is it running?
Probe ==
  /\ cmd = "probe"
  /\ Proceed(IF Running(target) THEN "term" ELSE "remove", target)
  /\ UNCHANGED <<pidfile, process, signalled>>

\* SIGTERM; if the process has ended since, SIGKILL fails as well, and with it
\* the command.  Nobody waits for the process to end.
Terminate ==
  /\ cmd = "term"
  /\ \/ /\ Running(target)
        /\ signalled' = signalled \cup {target}
        /\ Proceed("remove", target)
     \/ /\ ~Running(target)
        /\ Proceed("none", NoProc)
        /\ UNCHANGED signalled
  /\ UNCHANGED <<pidfile, process>>

RemovePidfile ==
  /\ cmd = "remove"
  /\ pidfile' = "absent"
  /\ Stopped
  /\ UNCHANGED <<process, signalled>>

\* The existing pid file is not looked at.
CreatePidfile_Mutant ==
  /\ cmd = "stat"
  /\ pidfile' = "empty" /\ Proceed("fork", NoProc)
  /\ UNCHANGED <<process, signalled>>

\* Daemonize refuses if there is a pid file, else creates it.
CreatePidfile ==
  /\ cmd = "stat"
  /\ \/ pidfile # "absent" /\ Proceed("none", NoProc) /\ UNCHANGED pidfile
     \/ pidfile = "absent" /\ pidfile' = "empty" /\ Proceed("fork", NoProc)
  /\ UNCHANGED <<process, signalled>>

Fork(p) ==
  /\ cmd = "fork"
  /\ process[p] = "unborn"
  /\ process' = [process EXCEPT ![p] = "starting"]
  /\ Proceed("write", p)
  /\ UNCHANGED <<pidfile, signalled>>

WritePid ==
  /\ cmd = "write"
  /\ pidfile' = target
  /\ Proceed("none", NoProc)
  /\ UNCHANGED <<process, signalled>>

\* A call to the system fails, or the command is killed: it ends where it is.
Mishap ==
  /\ cmd # "none"
  /\ Proceed("none", NoProc)
  /\ UNCHANGED <<pidfile, process, signalled>>

-----------------------------------------------------------------------------
(* The processes.  They all want one port.                                 *)

PortTaken == \E p \in Procs : process[p] = "serving"

ListenSucceeds(p) ==
  /\ process[p] = "starting" /\ ~PortTaken
  /\ process' = [process EXCEPT ![p] = "serving"]
  /\ UNCHANGED <<pidfile, cmd, force, target, signalled>>

ListenFails(p) ==
  /\ process[p] = "starting" /\ PortTaken
  /\ process' = [process EXCEPT ![p] = "dead"]
  /\ UNCHANGED <<pidfile, cmd, force, target, signalled>>

\* It ends, by a signal or otherwise.  The pid file is left alone.
Exit(p) ==
  /\ Running(p)
  /\ process' = [process EXCEPT ![p] = "dead"]
  /\ UNCHANGED <<pidfile, cmd, force, target, signalled>>

CommandStep ==
  \/ \E f \in BOOLEAN : CallStop(f)
  \/ CallDaemonize
  \/ ReadPid \/ Probe \/ Terminate \/ RemovePidfile
  \/ CreatePidfile \/ (\E p \in Procs : Fork(p)) \/ WritePid

-----------------------------------------------------------------------------
TypeOK ==
  /\ pidfile \in {"absent", "empty"} \cup Procs
  /\ cmd \in Steps
  /\ force \in BOOLEAN
  /\ target \in Procs \cup {NoProc}
  /\ process \in [Procs -> {"unborn", "starting", "serving", "dead"}]
  /\ signalled \in SUBSET Procs

\* At most one daemon is left running, whatever stops, starts and restarts
\* were tried and wherever one of them failed.
AtMostOneDaemon ==
  \A p, q \in {r \in Procs : Running(r) /\ r \notin signalled} : p = q

\* A running daemon is named in the pid file, unless that is still (or for
\* ever, after a mishap) empty.  So the next --daemon does not fork a second
\* one, and a --stop hits no other process.
RunningIsNamed ==
  \A p \in Procs : Running(p) /\ p \notin signalled => pidfile \in {p, "empty"}
=============================================================================
