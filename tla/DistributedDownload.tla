------------------------ MODULE DistributedDownload -------------------------
(***************************************************************************)
(* One download task of the server: executeTask and its goroutines, in     *)
(* cmd/server/distributed_download.go and cmd/server/subtask.go.           *)
(*                                                                         *)
(* The task goroutine starts one goroutine per chunk (a subtask), each of  *)
(* which borrows agents from the agent list until one delivers its chunk,  *)
(* and one reporter (progressFunc) that relays progress to the client.     *)
(* The task collects the subtasks, combines, validates, transfers and      *)
(* stores the file.  The goroutines share the task's quit flag, the        *)
(* progress channel (bounded) and the finish channel (one slot each).      *)
(*                                                                         *)
(* Files are counted in pieces: a chunk is ChunkSize pieces, an agent      *)
(* sends one piece a message, right or wrong.  quitFlag is read and        *)
(* written without a lock; each read is one step.                          *)
(***************************************************************************)
EXTENDS Integers, FiniteSets

CONSTANTS
  Subtasks,       \* the chunks of the file; none when the file is empty
  ChunkSize,      \* pieces of a chunk
  MaxData,        \* bound: pieces an agent sends in one request
  MaxRetries,     \* failed calls of RunTask before giving up (3 in the code)
  ProgressCap,    \* capacity of the progress channel (32 in the code)
  ClientMayLeave, \* whether the client may disconnect during the task
  MinAgents,      \* agents never leave when this many are registered
  MaxAgents, MaxAttempts, NoAgent,   \* as in AgentPool
  NoFile          \* a target file that has not been created

ASSUME SizesAssumption ==
  /\ ChunkSize \in Nat \ {0}
  /\ MaxData \in Nat
  /\ MaxRetries \in Nat
  /\ ProgressCap \in Nat \ {0}
  /\ MinAgents \in Nat
  /\ ClientMayLeave \in BOOLEAN
  /\ NoFile \notin 0..MaxData

\* As in AgentPool.
ASSUME ListAssumption ==
  /\ IsFiniteSet(Subtasks)
  /\ MaxAgents \in Nat
  /\ MaxAttempts \in Nat \ {0}
  /\ NoAgent \notin 0..(MaxAgents - 1)

VARIABLES
  nextID, freeAgents, busyAgents, pc, agent, attempt,   \* AgentPool
  exec,        \* where the task goroutine is in executeTask
  quitFlag,    \* setError was called: the task has an error
  sub,         \* where each subtask is in execute
  stage,       \* where its callback is in downloadChunk
  retryCount,  \* failed calls of RunTask, per subtask
  subErr,      \* whether the last one failed
  written,     \* pieces in the target file of each subtask
  wrong,       \* subtasks whose target file has a wrong piece
  finishChan,  \* subtasks in the finish channel
  progress,    \* messages in the progress channel
  reporter,    \* where progressFunc is
  client,      \* whether sends on the client's stream succeed
  checksum,    \* whether the request came with a checksum
  delivered,   \* what the client was sent: "none", "good" or "bad"
  stored       \* the file left for the cache: the same, or "empty"

poolVars == <<nextID, freeAgents, busyAgents, pc, agent, attempt>>
subVars == <<sub, stage, retryCount, subErr, written, wrong, finishChan>>
reportVars == <<progress, reporter>>
resultVars == <<delivered, stored>>
vars == <<poolVars, exec, quitFlag, subVars, reportVars, client, checksum, resultVars>>

Pool == INSTANCE AgentPool WITH Workers <- Subtasks

Init ==
  /\ Pool!Init
  /\ exec = "start"
  /\ quitFlag = FALSE
  /\ sub = [s \in Subtasks |-> "none"]
  /\ stage = [s \in Subtasks |-> "request"]
  /\ retryCount = [s \in Subtasks |-> 0]
  /\ subErr = [s \in Subtasks |-> FALSE]
  /\ written = [s \in Subtasks |-> NoFile]
  /\ wrong = {}
  /\ finishChan = {}
  /\ progress = 0
  /\ reporter = "none"
  /\ client = TRUE
  /\ checksum \in BOOLEAN
  /\ delivered = "none"
  /\ stored = "none"

-----------------------------------------------------------------------------
(* The agents, from outside the task.                                      *)

AgentJoins ==
  /\ Pool!AddAgent
  /\ UNCHANGED <<exec, quitFlag, subVars, reportVars, client, checksum, resultVars>>

AgentLeaves ==
  /\ Cardinality(Pool!Registered) > MinAgents
  /\ \E id \in Pool!AgentIds : Pool!RemoveAgent(id)
  /\ UNCHANGED <<exec, quitFlag, subVars, reportVars, client, checksum, resultVars>>

\* The client disconnects, or the finished call's stream is closed: from
\* then on every Send fails.
ClientLeaves ==
  /\ client
  /\ ClientMayLeave \/ exec = "done"
  /\ client' = FALSE
  /\ UNCHANGED <<poolVars, exec, quitFlag, subVars, reportVars, checksum, resultVars>>

-----------------------------------------------------------------------------
(* A subtask: subTaskInfo.execute and the callback downloadChunk.          *)

(* A name that ends in _Mutant is a plausible slip in the definition after   *)
(* it; none is part of the specification.                                  *)

\* The condition of the retry loop.
MayRetry_Mutant(s) == retryCount[s] <= MaxRetries + 1 /\ ~quitFlag
MayRetry(s) == retryCount[s] <= MaxRetries /\ ~quitFlag

\* The head of the retry loop: another RunTask, or on to the notification.
ExecuteLoop(s) ==
  /\ sub[s] = "loop"
  /\ \/ /\ MayRetry(s)
        /\ sub' = [sub EXCEPT ![s] = "calling"]
        /\ Pool!RunTask(s)
     \/ /\ ~MayRetry(s)
        /\ sub' = [sub EXCEPT ![s] = "notify"]
        /\ UNCHANGED poolVars
  /\ UNCHANGED <<exec, quitFlag, stage, retryCount, subErr, written, wrong, finishChan,
                 reportVars, client, checksum, resultVars>>

\* RunTask waits for a free agent, or starts downloadChunk on one.  Neither
\* looks at the quit flag.
GetAgent(s) ==
  /\ Pool!WaitForAgent(s) \/ Pool!TakeAgent(s)
  /\ UNCHANGED <<exec, quitFlag, subVars, reportVars, client, checksum, resultVars>>

\* The head of the receive loop and, when the flag is set, the return behind it.
ReceiveLoop(s) ==
  IF quitFlag THEN Pool!TaskReturns(s, FALSE) /\ UNCHANGED stage
              ELSE stage' = [stage EXCEPT ![s] = "recv"] /\ UNCHANGED poolVars

\* downloadChunk opens the agent's stream and creates (truncates) the target
\* file.  Either may fail; the file then keeps what earlier attempts left.  (An
\* address that grpc.NewClient refuses would end the server, as the nil
\* connection is used: addresses come from registered peers, and are not refused.)
RequestChunk(s) ==
  /\ pc[s] = "running" /\ stage[s] = "request"
  /\ \/ /\ Pool!TaskReturns(s, FALSE)
        /\ UNCHANGED <<stage, written, wrong>>
     \/ /\ written' = [written EXCEPT ![s] = 0]
        /\ wrong' = wrong \ {s}
        /\ ReceiveLoop(s)
  /\ UNCHANGED <<exec, quitFlag, sub, retryCount, subErr, finishChan,
                 reportVars, client, checksum, resultVars>>

\* A message with data, right or wrong, is appended to the file.
ReceiveData(s) ==
  /\ pc[s] = "running" /\ stage[s] = "recv"
  /\ written[s] < MaxData
  /\ written' = [written EXCEPT ![s] = @ + 1]
  /\ wrong' \in {wrong, wrong \cup {s}}
  /\ ReceiveLoop(s)
  /\ UNCHANGED <<exec, quitFlag, sub, retryCount, subErr, finishChan,
                 reportVars, client, checksum, resultVars>>

\* A progress message is taken from the stream ...
ReceiveProgress(s) ==
  /\ pc[s] = "running" /\ stage[s] = "recv"
  /\ stage' = [stage EXCEPT ![s] = "report"]
  /\ UNCHANGED <<poolVars, exec, quitFlag, sub, retryCount, subErr, written, wrong,
                 finishChan, reportVars, client, checksum, resultVars>>

\* ... and sent to the progress channel, which blocks while that is full.
ReportProgress(s) ==
  /\ pc[s] = "running" /\ stage[s] = "report"
  /\ progress < ProgressCap
  /\ progress' = progress + 1
  /\ ReceiveLoop(s)
  /\ UNCHANGED <<exec, quitFlag, sub, retryCount, subErr, written, wrong, finishChan,
                 reporter, client, checksum, resultVars>>

\* The tests behind the receive loop.
ChunkComplete_Mutant(s) == ~quitFlag
ChunkComplete(s) == ~quitFlag /\ written[s] = ChunkSize

\* The stream ends: with an error (or a failed write, or an unexpected
\* status), or with EOF.
StreamEnds(s) ==
  /\ pc[s] = "running" /\ stage[s] = "recv"
  /\ \/ Pool!TaskReturns(s, FALSE)
     \/ Pool!TaskReturns(s, ChunkComplete(s))
  /\ UNCHANGED <<exec, quitFlag, subVars, reportVars, client, checksum, resultVars>>

\* RunTask hands the agent back; if it returns, the subtask records the
\* result and leaves its loop on success.
ReleaseAgent(s) ==
  /\ Pool!FreeAgent(s)
  /\ IF Pool!RunTaskReturns(s)
     THEN LET failed == pc[s] = "failed"
          IN  /\ subErr' = [subErr EXCEPT ![s] = failed]
              /\ retryCount' = [retryCount EXCEPT ![s] = IF failed THEN @ + 1 ELSE @]
              /\ sub' = [sub EXCEPT ![s] = IF failed THEN "loop" ELSE "notify"]
     ELSE UNCHANGED <<sub, retryCount, subErr>>
  /\ stage' = [stage EXCEPT ![s] = "request"]
  /\ UNCHANGED <<exec, quitFlag, written, wrong, finishChan,
                 reportVars, client, checksum, resultVars>>

\* A subtask that was told to quit does not report back.
Notify_Mutant(s) ==
  /\ sub[s] = "notify"
  /\ finishChan' = IF quitFlag THEN finishChan ELSE finishChan \cup {s}
  /\ sub' = [sub EXCEPT ![s] = "finished"]
  /\ UNCHANGED <<poolVars, exec, quitFlag, stage, retryCount, subErr, written, wrong,
                 reportVars, client, checksum, resultVars>>

\* The finish channel has a slot for every subtask: this send never blocks.
Notify(s) ==
  /\ sub[s] = "notify"
  /\ finishChan' = finishChan \cup {s}
  /\ sub' = [sub EXCEPT ![s] = "finished"]
  /\ UNCHANGED <<poolVars, exec, quitFlag, stage, retryCount, subErr, written, wrong,
                 reportVars, client, checksum, resultVars>>

-----------------------------------------------------------------------------
(* The task goroutine: executeTask.                                        *)

\* Asking the origin, then the temporary directory; on failure an early
\* return.  Otherwise the reporter and all subtasks are started.
Begin ==
  /\ exec = "start"
  /\ \/ /\ quitFlag' = TRUE
        /\ exec' = "done"
        /\ UNCHANGED <<sub, reporter>>
     \/ /\ exec' = "collecting"
        /\ reporter' = "recv"
        /\ sub' = [s \in Subtasks |-> "loop"]
        /\ UNCHANGED quitFlag
  /\ UNCHANGED <<poolVars, stage, retryCount, subErr, written, wrong, finishChan,
                 progress, client, checksum, resultVars>>

\* The subtasks received from the finish channel so far.
Collected == {s \in Subtasks : sub[s] = "finished"} \ finishChan

\* When the collection is over: not at the first error.
AllFinished_Mutant(collected) ==
  collected = Subtasks \/ \E s \in collected : subErr[s]
AllFinished(collected) == collected = Subtasks

\* executeSubTasks receives one notification.  Whether all subtasks are
\* finished is only tested after a notification.
Collect(s) ==
  LET collected == Collected \cup {s}
      failed == \E t \in collected : subErr[t]
  IN  /\ exec = "collecting"
      /\ s \in finishChan
      /\ finishChan' = finishChan \ {s}
      /\ quitFlag' = (quitFlag \/ subErr[s])
      /\ exec' = IF ~AllFinished(collected) THEN "collecting"
                 ELSE IF failed THEN "closing" ELSE "combining"
      /\ UNCHANGED <<poolVars, sub, stage, retryCount, subErr, written, wrong,
                     reportVars, client, checksum, resultVars>>

\* The error is returned without setError.
Fail_Mutant ==
  /\ exec' = "closing"
  /\ UNCHANGED <<quitFlag, resultVars>>

\* setError and return: on to the deferred calls.
Fail ==
  /\ quitFlag' = TRUE
  /\ exec' = "closing"
  /\ UNCHANGED resultVars

\* The content of the combined file: what the target files hold.
Content ==
  IF wrong = {} /\ \A s \in Subtasks : written[s] = ChunkSize THEN "good" ELSE "bad"

\* Concatenation of the target files, each of which must exist.
Combine ==
  /\ exec = "combining"
  /\ \/ Fail
     \/ /\ \A s \in Subtasks : written[s] # NoFile
        /\ exec' = IF checksum THEN "validating" ELSE "transferring"
        /\ UNCHANGED <<quitFlag, resultVars>>
  /\ UNCHANGED <<poolVars, subVars, reportVars, client, checksum>>

\* The client is told, then the checksum is compared.
Validate ==
  /\ exec = "validating"
  /\ \/ Fail
     \/ /\ client /\ Content = "good"
        /\ exec' = "transferring"
        /\ UNCHANGED <<quitFlag, resultVars>>
  /\ UNCHANGED <<poolVars, subVars, reportVars, client, checksum>>

\* transferFileData sends the combined file.
Transfer ==
  /\ exec = "transferring"
  /\ \/ Fail
     \/ /\ client
        /\ delivered' = Content
        /\ exec' = "storing"
        /\ UNCHANGED <<quitFlag, stored>>
  /\ UNCHANGED <<poolVars, subVars, reportVars, client, checksum>>

\* A file that cannot be kept fails the task.
Store_Mutant ==
  /\ exec = "storing"
  /\ \E fails \in BOOLEAN :
       /\ quitFlag' = (quitFlag \/ fails)
       /\ stored' = IF fails THEN "none" ELSE Content
  /\ exec' = "closing"
  /\ UNCHANGED <<poolVars, subVars, reportVars, client, checksum, delivered>>

\* The combined file is moved over a fresh temporary file.  If that cannot be
\* created nothing is kept; if the move fails, which is not looked at, the
\* empty file is kept.
Store ==
  /\ exec = "storing"
  /\ stored' \in {"none", "empty", Content}
  /\ exec' = "closing"
  /\ UNCHANGED <<poolVars, quitFlag, subVars, reportVars, client, checksum, delivered>>

\* The deferred calls: the progress channel is closed, the temporary
\* directory is removed with the target files, and done is closed.
Finish ==
  /\ exec = "closing"
  /\ exec' = "done"
  /\ UNCHANGED <<poolVars, quitFlag, subVars, reportVars, client, checksum, resultVars>>

-----------------------------------------------------------------------------
(* The reporter: progressFunc.                                             *)

\* A message is taken from the channel; every two seconds one is relayed.
ReporterReceives ==
  /\ reporter = "recv"
  /\ progress > 0
  /\ progress' = progress - 1
  /\ reporter' \in {"recv", "send"}
  /\ UNCHANGED <<poolVars, exec, quitFlag, subVars, client, checksum, resultVars>>

\* If the client is gone the task fails and the channel loses its reader.
ReporterSends ==
  /\ reporter = "send"
  /\ reporter' = IF client THEN "recv" ELSE "exited"
  /\ quitFlag' = (quitFlag \/ ~client)
  /\ UNCHANGED <<poolVars, exec, subVars, progress, client, checksum, resultVars>>

\* executeTask has closed the progress channel.
ProgressClosed_Mutant == FALSE
ProgressClosed == exec = "done"

\* The channel is closed and drained.
ReporterExits ==
  /\ reporter = "recv"
  /\ ProgressClosed /\ progress = 0
  /\ reporter' = "exited"
  /\ UNCHANGED <<poolVars, exec, quitFlag, subVars, progress, client, checksum, resultVars>>

-----------------------------------------------------------------------------
SubtaskStep(s) ==
  \/ ExecuteLoop(s) \/ GetAgent(s) \/ RequestChunk(s) \/ ReceiveData(s)
  \/ ReceiveProgress(s) \/ ReportProgress(s) \/ StreamEnds(s) \/ ReleaseAgent(s)
  \/ Notify(s)

TaskStep ==
  \/ Begin \/ (\E s \in Subtasks : Collect(s)) \/ Combine \/ Validate \/ Transfer
  \/ Store \/ Finish

ReporterStep == ReporterReceives \/ ReporterSends \/ ReporterExits

Next ==
  \/ AgentJoins \/ AgentLeaves \/ ClientLeaves
  \/ \E s \in Subtasks : SubtaskStep(s)
  \/ TaskStep
  \/ ReporterStep

Spec == Init /\ [][Next]_vars

(***************************************************************************)
(* Runnable goroutines run.  Agents: every stream an agent opens is        *)
(* eventually ended by it, however many messages it sends before, and      *)
(* agents keep registering until MinAgents of them stay.                   *)
(***************************************************************************)
Fairness ==
  /\ WF_vars(AgentJoins)
  /\ WF_vars(TaskStep)
  /\ WF_vars(ReporterStep)
  /\ \A s \in Subtasks :
       /\ WF_vars(SubtaskStep(s))
       /\ SF_vars(StreamEnds(s))

FairSpec == Spec /\ Fairness

-----------------------------------------------------------------------------
TypeOK ==
  /\ Pool!TypeOK
  /\ exec \in {"start", "collecting", "combining", "validating", "transferring",
               "storing", "closing", "done"}
  /\ quitFlag \in BOOLEAN
  /\ sub \in [Subtasks -> {"none", "loop", "calling", "notify", "finished"}]
  /\ stage \in [Subtasks -> {"request", "recv", "report"}]
  /\ retryCount \in [Subtasks -> 0..(MaxRetries + 1)]
  /\ subErr \in [Subtasks -> BOOLEAN]
  /\ written \in [Subtasks -> {NoFile} \cup 0..MaxData]
  /\ wrong \in SUBSET Subtasks
  /\ finishChan \in SUBSET Subtasks
  /\ progress \in 0..ProgressCap
  /\ reporter \in {"none", "recv", "send", "exited"}
  /\ client \in BOOLEAN
  /\ checksum \in BOOLEAN
  /\ delivered \in {"none", "good", "bad"}
  /\ stored \in {"none", "empty", "good", "bad"}

Whole == \A s \in Subtasks : written[s] = ChunkSize

\* Once executeSubTasks has returned, no subtask is alive in any sense: none
\* will send on the progress channel after its close (a panic), write to the
\* removed directory, or hold an agent that another download could use.
WorkersQuiescent ==
  exec \notin {"start", "collecting"} /\ reporter # "none" =>
    /\ \A s \in Subtasks : sub[s] = "finished" /\ pc[s] = "idle"
    /\ finishChan = {}
    /\ busyAgents = {}

\* A client is never sent a file with chunks missing, short or long, although
\* combine does not look at the sizes of the files; with a checksum it is
\* never sent wrong content either.  The same holds of the file kept.
OnlyWholeFiles ==
  delivered # "none" =>
    /\ Whole
    /\ checksum => delivered = "good" /\ stored # "bad"

\* A task that ends without an error has sent the file: whatever failed on
\* the way, in whichever goroutine, has reached the task's error.
SuccessMeansDelivered == exec = "done" /\ ~quitFlag => delivered # "none"

\* A task that is taken from the queue ends, whatever the agents deliver.
TaskTerminates == <>(exec = "done")

\* The reporter does not outlive the task: its channel is closed and drained.
ReporterEnds == reporter # "none" ~> reporter = "exited"
=============================================================================
