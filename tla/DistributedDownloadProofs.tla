---------------------- MODULE DistributedDownloadProofs -----------------------
(***************************************************************************)
(* Proofs about DistributedDownload, for any number of chunks, agents and  *)
(* retries, any capacity of the progress channel and any deliveries.       *)
(***************************************************************************)
EXTENDS DistributedDownload, TLAPS

PoolProofs == INSTANCE AgentPoolProofs WITH Workers <- Subtasks

-----------------------------------------------------------------------------
(* The task and the agent list.                                            *)

\* The instance of AgentPool in DistributedDownload and the one behind the
\* proofs are the same.
LEMMA SameInit == Pool!Init <=> PoolProofs!Init
  BY DEF Pool!Init, PoolProofs!Init

LEMMA SameInv == Pool!Inv <=> PoolProofs!Inv
  BY DEF Pool!Inv, PoolProofs!Inv, Pool!TypeOK, PoolProofs!TypeOK, Pool!AgentIds,
      PoolProofs!AgentIds, Pool!PCs, PoolProofs!PCs, Pool!Holding, PoolProofs!Holding,
      Pool!Registered, PoolProofs!Registered, Pool!Exclusive, PoolProofs!Exclusive,
      Pool!BusyIffHeld, PoolProofs!BusyIffHeld

LEMMA SameNext == [Pool!Next]_(Pool!vars) <=> [PoolProofs!Next]_(PoolProofs!vars)
  BY DEF Pool!Next, PoolProofs!Next, Pool!vars, PoolProofs!vars,
      Pool!AddAgent, PoolProofs!AddAgent, Pool!RemoveAgent, PoolProofs!RemoveAgent,
      Pool!RunTask, PoolProofs!RunTask, Pool!WaitForAgent, PoolProofs!WaitForAgent,
      Pool!TakeAgent, PoolProofs!TakeAgent, Pool!TaskReturns, PoolProofs!TaskReturns,
      Pool!FreeAgent, PoolProofs!FreeAgent, Pool!StillBusy, PoolProofs!StillBusy,
      Pool!Resumed, PoolProofs!Resumed, Pool!RunTaskReturns, PoolProofs!RunTaskReturns,
      Pool!Signalled, PoolProofs!Signalled, Pool!AgentIds, PoolProofs!AgentIds,
      Pool!Registered, PoolProofs!Registered

\* What AgentPool assumes of its constants.
LEMMA PoolAssumptions ==
  /\ PoolProofs!IsFiniteSet(Subtasks)
  /\ MaxAgents \in Nat
  /\ MaxAttempts \in Nat \ {0}
  /\ NoAgent \notin PoolProofs!AgentIds
  BY ListAssumption DEF IsFiniteSet, PoolProofs!IsFiniteSet, PoolProofs!AgentIds

\* The goroutines of a task use the agent list through its operations only, each
\* at most once in a step.
LEMMA PoolStep == [Next]_vars => [Pool!Next]_(Pool!vars)
<1> SUFFICES ASSUME [Next]_vars
             PROVE  Pool!Next \/ UNCHANGED Pool!vars
  OBVIOUS
<1>1. ASSUME NEW s \in Subtasks, NEW ok, Pool!TaskReturns(s, ok)
      PROVE  \E r \in BOOLEAN : Pool!TaskReturns(s, r)
  <2>1. CASE ok
    BY <1>1, <2>1 DEF Pool!TaskReturns
  <2>2. CASE ~ok
    BY <1>1, <2>2 DEF Pool!TaskReturns
  <2> QED BY <2>1, <2>2
<1>2. ASSUME NEW s \in Subtasks, SubtaskStep(s)
      PROVE  Pool!Next \/ UNCHANGED Pool!vars
  BY <1>1, <1>2 DEF SubtaskStep, ExecuteLoop, GetAgent, RequestChunk, ReceiveData, ReceiveLoop,
      ReceiveProgress, ReportProgress, StreamEnds, ReleaseAgent, Notify, poolVars,
      Pool!vars, Pool!Next
<1>3. CASE TaskStep \/ ReporterStep \/ ClientLeaves \/ UNCHANGED vars
  BY <1>3 DEF TaskStep, Begin, Collect, Combine, Validate, Transfer, Store, Finish,
      ReporterStep, ReporterReceives, ReporterSends, ReporterExits, ClientLeaves, vars,
      poolVars, Pool!vars
<1>4. CASE AgentJoins \/ AgentLeaves
  BY <1>4 DEF AgentJoins, AgentLeaves, Pool!Next
<1> QED BY <1>2, <1>3, <1>4 DEF Next

\* A task does to the agent list what AgentPool says its users may do, so what
\* AgentPoolProofs shows of the list holds during a task (runTaskOnce and its
\* deferred freeAgent, whatever downloadChunk returns).
THEOREM UsesTheList == Spec => Pool!Spec
<1>1. Init => Pool!Init
  BY DEF Init
<1> QED BY <1>1, PoolStep, PTL DEF Spec, Pool!Spec

LEMMA PoolInit == Init => Pool!Inv
  BY PoolAssumptions, PoolProofs!InitInv, SameInit, SameInv DEF Init

LEMMA PoolNext == Pool!Inv /\ [Next]_vars => Pool!Inv'
<1>1. PoolProofs!Inv /\ [PoolProofs!Next]_(PoolProofs!vars) => PoolProofs!Inv'
  BY PoolAssumptions, PoolProofs!NextInv
<1>2. Pool!Inv' <=> PoolProofs!Inv'
  BY DEF Pool!Inv, PoolProofs!Inv, Pool!TypeOK, PoolProofs!TypeOK, Pool!AgentIds,
      PoolProofs!AgentIds, Pool!PCs, PoolProofs!PCs, Pool!Holding, PoolProofs!Holding,
      Pool!Registered, PoolProofs!Registered, Pool!Exclusive, PoolProofs!Exclusive,
      Pool!BusyIffHeld, PoolProofs!BusyIffHeld
<1> QED BY <1>1, <1>2, SameInv, SameNext, PoolStep

-----------------------------------------------------------------------------
(* The inductive invariant.                                                *)

\* downloadChunk has created the target file of the subtask and not returned.
Requested(s) == pc[s] = "running" /\ stage[s] # "request"

\* What holds of one subtask: its place in execute agrees with its place in
\* RunTask; its target file exists where the code relies on it; it gives up
\* without an error only if it never called RunTask, so a subtask that ends
\* without one has the whole chunk or no file; an error that the task
\* goroutine has collected is in the quit flag.
SubtaskOK(s) ==
  /\ sub[s] = "calling" <=> pc[s] # "idle"
  /\ pc[s] \notin Pool!Holding => stage[s] = "request"
  /\ Requested(s) => written[s] # NoFile
  /\ pc[s] = "succeeded" => written[s] = ChunkSize /\ written[s] # NoFile
  /\ sub[s] = "calling" => retryCount[s] <= MaxRetries
  /\ sub[s] \in {"none", "loop"} =>
       IF retryCount[s] = 0 THEN written[s] = NoFile /\ ~subErr[s] ELSE subErr[s]
  /\ sub[s] = "none" => retryCount[s] = 0
  /\ sub[s] \in {"notify", "finished"} /\ ~subErr[s] => written[s] \in {NoFile, ChunkSize}
  /\ s \in finishChan => sub[s] = "finished"
  /\ sub[s] = "finished" /\ s \notin finishChan /\ subErr[s] => quitFlag

SubtaskInv == \A s \in Subtasks : SubtaskOK(s)

\* The subtasks have not been started, or they are all collected.
Before == \A s \in Subtasks : sub[s] = "none"
Behind == finishChan = {} /\ \A s \in Subtasks : sub[s] = "finished"

\* What the task goroutine knows at each point of executeTask.
PhaseInv ==
  /\ exec = "start" => Before /\ reporter = "none"
  /\ exec = "collecting" => reporter # "none" /\ \A s \in Subtasks : sub[s] # "none"
  /\ exec \notin {"start", "collecting", "done"} => Behind
  /\ exec = "done" => Behind \/ (Before /\ reporter = "none")
  /\ exec \in {"combining", "validating", "transferring", "storing"} =>
       \A s \in Subtasks : ~subErr[s]
  /\ exec \in {"validating", "transferring", "storing"} =>
       Whole /\ \A s \in Subtasks : written[s] # NoFile
  /\ exec \in {"transferring", "storing"} /\ checksum => Content = "good"
  /\ exec = "storing" => delivered # "none"
  /\ exec \in {"closing", "done"} /\ ~quitFlag => delivered # "none"
  /\ delivered # "none" =>
       /\ exec \in {"storing", "closing", "done"} /\ Behind /\ Whole
       /\ checksum => Content = "good" /\ delivered = "good"
  /\ stored # "none" => delivered # "none"
  /\ stored = "bad" => ~checksum

\* The types of the variables that are not the agent list's.
TaskTypeOK ==
  /\ exec \in {"start", "collecting", "combining", "validating", "transferring",
               "storing", "closing", "done"}
  /\ quitFlag \in BOOLEAN
  /\ sub \in [Subtasks -> {"none", "loop", "calling", "notify", "finished"}]
  /\ stage \in [Subtasks -> {"request", "recv", "report"}]
  /\ retryCount \in [Subtasks -> 0..(MaxRetries + 1)]
  /\ subErr \in [Subtasks -> BOOLEAN]
  /\ written \in [Subtasks -> {NoFile} \cup 0..MaxData]
  /\ wrong \in SUBSET Subtasks
  /\ finishChan \in SUBSET Subtasks
  /\ progress \in 0..ProgressCap
  /\ reporter \in {"none", "recv", "send", "exited"}
  /\ client \in BOOLEAN
  /\ checksum \in BOOLEAN
  /\ delivered \in {"none", "good", "bad"}
  /\ stored \in {"none", "empty", "good", "bad"}

Inv == Pool!Inv /\ TaskTypeOK /\ SubtaskInv /\ PhaseInv

LEMMA InitInv == Init => Inv
<1> SUFFICES ASSUME Init PROVE Inv
  OBVIOUS
<1>1. TaskTypeOK
  <2>1. 0 \in 0..(MaxRetries + 1) /\ 0 \in 0..ProgressCap
    BY SizesAssumption
  <2> QED BY <2>1 DEF Init, TaskTypeOK
<1>2. SubtaskInv
  BY SizesAssumption DEF Init, Pool!Init, SubtaskInv, SubtaskOK, Requested, Pool!Holding
<1>3. PhaseInv
  BY DEF Init, PhaseInv, Before
<1> QED BY <1>1, <1>2, <1>3, PoolInit DEF Inv

-----------------------------------------------------------------------------
(* The steps of a subtask.                                                 *)

\* A step leaves subtask s alone, but for a wake-up.
Kept(s) ==
  /\ pc'[s] = pc[s] \/ (pc[s] = "waiting" /\ pc'[s] = "locking")
  /\ sub'[s] = sub[s] /\ stage'[s] = stage[s]
  /\ retryCount'[s] = retryCount[s] /\ subErr'[s] = subErr[s]
  /\ written'[s] = written[s]
  /\ s \in finishChan' <=> s \in finishChan

LEMMA KeptOK ==
  ASSUME NEW s \in Subtasks, SubtaskOK(s), Kept(s), quitFlag => quitFlag'
  PROVE  SubtaskOK(s)'
  BY DEF SubtaskOK, Kept, Requested, Pool!Holding

\* Subtask s is between the go statement and its notification.
Active(s) == sub[s] \in {"loop", "calling", "notify"}

\* The rest of the task does not move.
TaskKept == UNCHANGED <<exec, quitFlag, reporter, client, checksum, delivered, stored>>

\* While a subtask is active the task goroutine is collecting, so a step of a
\* subtask cannot disturb what the task goroutine knows.
LEMMA ActiveCollecting ==
  ASSUME Inv, NEW s \in Subtasks, Active(s)
  PROVE  exec = "collecting" /\ delivered = "none" /\ stored = "none"
  BY DEF Inv, PhaseInv, TaskTypeOK, Active, Before, Behind

LEMMA SubtaskPhase ==
  ASSUME Inv, NEW s \in Subtasks, Active(s), sub'[s] # "none", TaskKept,
         \A t \in Subtasks \ {s} : sub'[t] = sub[t]
  PROVE  PhaseInv'
<1>1. exec = "collecting" /\ delivered = "none" /\ stored = "none"
  BY ActiveCollecting
<1>2. reporter' # "none" /\ \A t \in Subtasks : sub'[t] # "none"
  BY <1>1 DEF Inv, PhaseInv, TaskKept
<1>3. exec' = "collecting" /\ delivered' = "none" /\ stored' = "none"
  BY <1>1 DEF TaskKept
<1> QED BY <1>2, <1>3 DEF PhaseInv

LEMMA SubtaskKeeps ==
  ASSUME Inv, Pool!Inv', NEW s \in Subtasks, Active(s), sub'[s] # "none", TaskKept,
         TaskTypeOK', SubtaskOK(s)', \A t \in Subtasks \ {s} : Kept(t)
  PROVE  Inv'
<1>1. PhaseInv'
  BY SubtaskPhase DEF Kept
<1>2. \A t \in Subtasks \ {s} : SubtaskOK(t)'
  BY KeptOK DEF Inv, SubtaskInv, TaskKept
<1> QED BY <1>1, <1>2 DEF Inv, SubtaskInv

LEMMA ExecuteLoopInv ==
  ASSUME Inv, Pool!Inv', NEW s \in Subtasks, ExecuteLoop(s)
  PROVE  Inv'
<1>1. /\ TaskKept /\ Active(s) /\ sub'[s] # "none"
      /\ UNCHANGED <<stage, retryCount, subErr, written, wrong, finishChan, progress>>
  BY DEF ExecuteLoop, TaskKept, Active, reportVars, resultVars, Inv, TaskTypeOK
<1>2. TaskTypeOK'
  BY <1>1 DEF ExecuteLoop, Inv, TaskTypeOK, TaskKept
<1>3. \A t \in Subtasks \ {s} : Kept(t)
  BY <1>1 DEF ExecuteLoop, Kept, Inv, TaskTypeOK, Pool!Inv, Pool!TypeOK, Pool!RunTask, poolVars
<1>4. SubtaskOK(s)'
  <2>1. SubtaskOK(s)
    BY DEF Inv, SubtaskInv
  <2>2. CASE sub' = [sub EXCEPT ![s] = "calling"] /\ Pool!RunTask(s) /\ MayRetry(s)
    BY <1>1, <2>1, <2>2 DEF ExecuteLoop, MayRetry, SubtaskOK, Inv, TaskTypeOK, Pool!Inv,
       Pool!TypeOK, Pool!RunTask, Requested, Pool!Holding
  <2>3. CASE sub' = [sub EXCEPT ![s] = "notify"] /\ UNCHANGED poolVars
    BY <1>1, <2>1, <2>3 DEF ExecuteLoop, SubtaskOK, Inv, TaskTypeOK, Requested, Pool!Holding,
       poolVars, TaskKept
  <2> QED BY <2>2, <2>3 DEF ExecuteLoop
<1> QED BY <1>1, <1>2, <1>3, <1>4, SubtaskKeeps

LEMMA GetAgentInv ==
  ASSUME Inv, Pool!Inv', NEW s \in Subtasks, GetAgent(s)
  PROVE  Inv'
<1>1. /\ TaskKept
      /\ UNCHANGED <<sub, stage, retryCount, subErr, written, wrong, finishChan, progress>>
  BY DEF GetAgent, TaskKept, subVars, reportVars, resultVars
<1>2. pc[s] = "locking" /\ pc' \in {[pc EXCEPT ![s] = "waiting"], [pc EXCEPT ![s] = "running"]}
  BY DEF GetAgent, Pool!WaitForAgent, Pool!TakeAgent
<1>3. SubtaskOK(s)
  BY DEF Inv, SubtaskInv
<1>4. Active(s) /\ sub'[s] # "none"
  BY <1>1, <1>2, <1>3 DEF SubtaskOK, Active
<1>5. TaskTypeOK'
  BY <1>1 DEF Inv, TaskTypeOK, TaskKept
<1>6. \A t \in Subtasks \ {s} : Kept(t)
  BY <1>1, <1>2 DEF Kept, Inv, Pool!Inv, Pool!TypeOK
<1>7. SubtaskOK(s)'
  BY <1>1, <1>2, <1>3 DEF SubtaskOK, Inv, Pool!Inv, Pool!TypeOK, Requested, Pool!Holding, TaskKept
<1> QED BY <1>1, <1>4, <1>5, <1>6, <1>7, SubtaskKeeps

\* What the actions of downloadChunk have in common: the callback is running and
\* either goes on, or returns, with success only if the chunk is whole.
Downloads(s) ==
  /\ pc[s] = "running"
  /\ \/ UNCHANGED pc
     \/ pc' = [pc EXCEPT ![s] = "failed"]
     \/ pc' = [pc EXCEPT ![s] = "succeeded"] /\ written'[s] = ChunkSize
  /\ UNCHANGED <<sub, retryCount, subErr, finishChan>>
  /\ TaskKept
  /\ \A t \in Subtasks \ {s} : stage'[t] = stage[t] /\ written'[t] = written[t]
  /\ Requested(s)' \/ Requested(s) => written'[s] # NoFile
  /\ pc' # pc => UNCHANGED stage
  /\ pc' = [pc EXCEPT ![s] = "succeeded"] => Requested(s)

LEMMA DownloadsInv ==
  ASSUME Inv, Pool!Inv', NEW s \in Subtasks, Downloads(s), TaskTypeOK'
  PROVE  Inv'
<1>1. SubtaskOK(s) /\ pc \in [Subtasks -> Pool!PCs]
  BY DEF Inv, SubtaskInv, Pool!Inv, Pool!TypeOK
<1>2. Active(s) /\ sub'[s] # "none" /\ TaskKept
  BY <1>1 DEF SubtaskOK, Active, Downloads
<1>3. \A t \in Subtasks \ {s} : Kept(t)
  BY <1>1 DEF Kept, Downloads
<1>4. SubtaskOK(s)'
  BY <1>1, <1>2 DEF SubtaskOK, Downloads, Requested, Pool!Holding, Active, TaskKept
<1> QED BY <1>2, <1>3, <1>4, SubtaskKeeps

LEMMA ReceiveLoopDoes ==
  ASSUME NEW s \in Subtasks, pc[s] = "running", ReceiveLoop(s), TaskTypeOK, Pool!TypeOK
  PROVE  \/ pc' = pc /\ stage' = [stage EXCEPT ![s] = "recv"]
         \/ pc' = [pc EXCEPT ![s] = "failed"] /\ stage' = stage
  BY DEF ReceiveLoop, Pool!TaskReturns, poolVars

LEMMA RequestChunkInv ==
  ASSUME Inv, Pool!Inv', NEW s \in Subtasks, RequestChunk(s)
  PROVE  Inv'
<1>1. TaskTypeOK /\ Pool!TypeOK
  BY DEF Inv, Pool!Inv
<1>2. /\ TaskKept /\ pc[s] = "running" /\ stage[s] = "request"
      /\ UNCHANGED <<sub, retryCount, subErr, finishChan, progress>>
  BY DEF RequestChunk, TaskKept, reportVars, resultVars
<1>3. CASE Pool!TaskReturns(s, FALSE) /\ UNCHANGED <<stage, written, wrong>>
  <2>1. TaskTypeOK'
    BY <1>1, <1>2, <1>3 DEF TaskTypeOK, TaskKept
  <2>2. Downloads(s)
    BY <1>1, <1>2, <1>3 DEF Downloads, Pool!TaskReturns, Requested, Pool!TypeOK
  <2> QED BY <2>1, <2>2, DownloadsInv
<1>4. CASE /\ written' = [written EXCEPT ![s] = 0] /\ wrong' = wrong \ {s}
           /\ ReceiveLoop(s)
  <2>1. \/ pc' = pc /\ stage' = [stage EXCEPT ![s] = "recv"]
        \/ pc' = [pc EXCEPT ![s] = "failed"] /\ stage' = stage
    BY <1>1, <1>2, <1>4, ReceiveLoopDoes
  <2>2. 0 \in 0..MaxData /\ NoFile # 0
    BY SizesAssumption
  <2>3. TaskTypeOK'
    BY <1>1, <1>2, <1>4, <2>1, <2>2 DEF TaskTypeOK, TaskKept
  <2>4. written'[s] # NoFile
    BY <1>1, <1>4, <2>2 DEF TaskTypeOK
  <2>5. Downloads(s)
    BY <1>1, <1>2, <1>4, <2>1, <2>4 DEF Downloads, Requested, TaskTypeOK, Pool!TypeOK
  <2> QED BY <2>3, <2>5, DownloadsInv
<1> QED BY <1>3, <1>4 DEF RequestChunk

LEMMA ReceiveDataInv ==
  ASSUME Inv, Pool!Inv', NEW s \in Subtasks, ReceiveData(s)
  PROVE  Inv'
<1>1. TaskTypeOK /\ Pool!TypeOK /\ SubtaskOK(s)
  BY DEF Inv, Pool!Inv, SubtaskInv
<1>2. /\ TaskKept /\ pc[s] = "running" /\ stage[s] = "recv" /\ written[s] < MaxData
      /\ written' = [written EXCEPT ![s] = @ + 1]
      /\ wrong' \in {wrong, wrong \cup {s}}
      /\ UNCHANGED <<sub, retryCount, subErr, finishChan, progress>>
  BY DEF ReceiveData, TaskKept, reportVars, resultVars
<1>3. \/ pc' = pc /\ stage' = [stage EXCEPT ![s] = "recv"]
      \/ pc' = [pc EXCEPT ![s] = "failed"] /\ stage' = stage
  BY <1>1, <1>2, ReceiveLoopDoes DEF ReceiveData
<1>4. written[s] \in 0..MaxData
  BY <1>1, <1>2 DEF SubtaskOK, Requested, TaskTypeOK
<1>5. written[s] + 1 \in 0..MaxData /\ written[s] + 1 # NoFile
  BY <1>2, <1>4, SizesAssumption
<1>6. TaskTypeOK'
  BY <1>1, <1>2, <1>3, <1>5 DEF TaskTypeOK, TaskKept
<1>7. written'[s] # NoFile
  BY <1>1, <1>2, <1>5 DEF TaskTypeOK
<1>8. Downloads(s)
  BY <1>1, <1>2, <1>3, <1>7 DEF Downloads, Requested, TaskTypeOK, Pool!TypeOK
<1> QED BY <1>6, <1>8, DownloadsInv

LEMMA ReceiveProgressInv ==
  ASSUME Inv, Pool!Inv', NEW s \in Subtasks, ReceiveProgress(s)
  PROVE  Inv'
<1>1. TaskTypeOK /\ SubtaskOK(s)
  BY DEF Inv, SubtaskInv
<1>2. /\ TaskKept /\ pc[s] = "running" /\ stage[s] = "recv" /\ pc' = pc
      /\ stage' = [stage EXCEPT ![s] = "report"]
      /\ UNCHANGED <<sub, retryCount, subErr, written, wrong, finishChan, progress>>
  BY DEF ReceiveProgress, TaskKept, poolVars, reportVars, resultVars
<1>3. TaskTypeOK'
  BY <1>1, <1>2 DEF TaskTypeOK, TaskKept
<1>4. Downloads(s)
  BY <1>1, <1>2 DEF Downloads, Requested, TaskTypeOK, SubtaskOK
<1> QED BY <1>3, <1>4, DownloadsInv

LEMMA ReportProgressInv ==
  ASSUME Inv, Pool!Inv', NEW s \in Subtasks, ReportProgress(s)
  PROVE  Inv'
<1>1. TaskTypeOK /\ Pool!TypeOK /\ SubtaskOK(s)
  BY DEF Inv, Pool!Inv, SubtaskInv
<1>2. /\ TaskKept /\ pc[s] = "running" /\ stage[s] = "report"
      /\ progress < ProgressCap /\ progress' = progress + 1
      /\ UNCHANGED <<sub, retryCount, subErr, written, wrong, finishChan>>
  BY DEF ReportProgress, TaskKept, resultVars
<1>3. \/ pc' = pc /\ stage' = [stage EXCEPT ![s] = "recv"]
      \/ pc' = [pc EXCEPT ![s] = "failed"] /\ stage' = stage
  BY <1>1, <1>2, ReceiveLoopDoes DEF ReportProgress
<1>4. progress' \in 0..ProgressCap
  BY <1>1, <1>2, SizesAssumption DEF TaskTypeOK
<1>5. TaskTypeOK'
  BY <1>1, <1>2, <1>3, <1>4 DEF TaskTypeOK, TaskKept
<1>6. Downloads(s)
  BY <1>1, <1>2, <1>3 DEF Downloads, Requested, TaskTypeOK, Pool!TypeOK, SubtaskOK
<1> QED BY <1>5, <1>6, DownloadsInv

LEMMA StreamEndsInv ==
  ASSUME Inv, Pool!Inv', NEW s \in Subtasks, StreamEnds(s)
  PROVE  Inv'
<1>1. TaskTypeOK /\ Pool!TypeOK /\ SubtaskOK(s)
  BY DEF Inv, Pool!Inv, SubtaskInv
<1>2. /\ TaskKept /\ pc[s] = "running" /\ stage[s] = "recv"
      /\ UNCHANGED <<sub, stage, retryCount, subErr, written, wrong, finishChan, progress>>
  BY DEF StreamEnds, TaskKept, subVars, reportVars, resultVars
<1>3. \/ pc' = [pc EXCEPT ![s] = "failed"]
      \/ pc' = [pc EXCEPT ![s] = "succeeded"] /\ written[s] = ChunkSize
  BY DEF StreamEnds, Pool!TaskReturns, ChunkComplete
<1>4. TaskTypeOK'
  BY <1>1, <1>2 DEF TaskTypeOK, TaskKept
<1>5. Downloads(s)
  BY <1>1, <1>2, <1>3 DEF Downloads, Requested, TaskTypeOK, Pool!TypeOK, SubtaskOK
<1> QED BY <1>4, <1>5, DownloadsInv

LEMMA ReleaseAgentInv ==
  ASSUME Inv, Pool!Inv', NEW s \in Subtasks, ReleaseAgent(s)
  PROVE  Inv'
<1>1. TaskTypeOK /\ Pool!TypeOK /\ SubtaskOK(s)
  BY DEF Inv, Pool!Inv, SubtaskInv
<1>2. /\ TaskKept /\ pc[s] \in {"succeeded", "failed"}
      /\ stage' = [stage EXCEPT ![s] = "request"]
      /\ UNCHANGED <<written, wrong, finishChan, progress>>
  BY DEF ReleaseAgent, TaskKept, Pool!FreeAgent, reportVars, resultVars
<1>3. /\ pc'[s] = IF Pool!RunTaskReturns(s) THEN "idle" ELSE "locking"
      /\ \A t \in Subtasks \ {s} :
           pc'[t] = pc[t] \/ (pc[t] = "waiting" /\ pc'[t] = "locking")
  <2>1. pc' \in Pool!Signalled(Pool!Resumed(s)) \/ pc' = Pool!Resumed(s)
    BY DEF ReleaseAgent, Pool!FreeAgent
  <2> QED BY <1>1, <2>1 DEF Pool!Signalled, Pool!Resumed, Pool!TypeOK
<1>4. sub[s] = "calling" /\ retryCount[s] \in 0..MaxRetries
  BY <1>1, <1>2, SizesAssumption DEF SubtaskOK, TaskTypeOK
<1>5. CASE ~Pool!RunTaskReturns(s)
  <2>1. UNCHANGED <<sub, retryCount, subErr>> /\ pc'[s] = "locking"
    BY <1>3, <1>5 DEF ReleaseAgent
  <2>2. TaskTypeOK'
    BY <1>1, <1>2, <2>1 DEF TaskTypeOK, TaskKept
  <2>3. \A t \in Subtasks \ {s} : Kept(t)
    BY <1>1, <1>2, <1>3, <2>1 DEF Kept, TaskTypeOK
  <2>4. SubtaskOK(s)'
    BY <1>1, <1>2, <1>4, <2>1 DEF SubtaskOK, TaskTypeOK, Requested, Pool!Holding, TaskKept
  <2> QED BY <1>2, <1>4, <2>1, <2>2, <2>3, <2>4, SubtaskKeeps DEF Active
<1>6. CASE Pool!RunTaskReturns(s) /\ pc[s] = "failed"
  <2>1. /\ subErr' = [subErr EXCEPT ![s] = TRUE]
        /\ retryCount' = [retryCount EXCEPT ![s] = @ + 1]
        /\ sub' = [sub EXCEPT ![s] = "loop"]
        /\ pc'[s] = "idle"
    BY <1>3, <1>6 DEF ReleaseAgent
  <2>2. retryCount[s] + 1 \in 0..(MaxRetries + 1) /\ retryCount[s] + 1 # 0
    BY <1>4, SizesAssumption
  <2>3. TaskTypeOK'
    BY <1>1, <1>2, <2>1, <2>2 DEF TaskTypeOK, TaskKept
  <2>4. \A t \in Subtasks \ {s} : Kept(t)
    BY <1>1, <1>2, <1>3, <2>1 DEF Kept, TaskTypeOK
  <2>5. SubtaskOK(s)'
    BY <1>1, <1>2, <2>1, <2>2 DEF SubtaskOK, TaskTypeOK, Requested, Pool!Holding, TaskKept
  <2> QED BY <1>1, <1>2, <1>4, <2>1, <2>3, <2>4, <2>5, SubtaskKeeps DEF Active, TaskTypeOK
<1>7. CASE Pool!RunTaskReturns(s) /\ pc[s] = "succeeded"
  <2>1. /\ subErr' = [subErr EXCEPT ![s] = FALSE]
        /\ retryCount' = [retryCount EXCEPT ![s] = @]
        /\ sub' = [sub EXCEPT ![s] = "notify"]
        /\ pc'[s] = "idle"
    BY <1>3, <1>7 DEF ReleaseAgent
  <2>2. TaskTypeOK'
    BY <1>1, <1>2, <2>1 DEF TaskTypeOK, TaskKept
  <2>3. \A t \in Subtasks \ {s} : Kept(t)
    BY <1>1, <1>2, <1>3, <2>1 DEF Kept, TaskTypeOK
  <2>4. SubtaskOK(s)'
    BY <1>1, <1>2, <1>7, <2>1 DEF SubtaskOK, TaskTypeOK, Requested, Pool!Holding, TaskKept
  <2> QED BY <1>1, <1>2, <1>4, <2>1, <2>2, <2>3, <2>4, SubtaskKeeps DEF Active, TaskTypeOK
<1> QED BY <1>2, <1>5, <1>6, <1>7

LEMMA NotifyInv ==
  ASSUME Inv, Pool!Inv', NEW s \in Subtasks, Notify(s)
  PROVE  Inv'
<1>1. TaskTypeOK /\ SubtaskOK(s)
  BY DEF Inv, SubtaskInv
<1>2. /\ TaskKept /\ sub[s] = "notify" /\ pc' = pc
      /\ finishChan' = finishChan \cup {s}
      /\ sub' = [sub EXCEPT ![s] = "finished"]
      /\ UNCHANGED <<stage, retryCount, subErr, written, wrong, progress>>
  BY DEF Notify, TaskKept, poolVars, reportVars, resultVars
<1>3. TaskTypeOK'
  BY <1>1, <1>2 DEF TaskTypeOK, TaskKept
<1>4. \A t \in Subtasks \ {s} : Kept(t)
  BY <1>1, <1>2 DEF Kept, TaskTypeOK
<1>5. SubtaskOK(s)'
  BY <1>1, <1>2 DEF SubtaskOK, TaskTypeOK, Requested, TaskKept
<1> QED BY <1>1, <1>2, <1>3, <1>4, <1>5, SubtaskKeeps DEF Active, TaskTypeOK

LEMMA SubtaskStepInv ==
  ASSUME Inv, Pool!Inv', NEW s \in Subtasks, SubtaskStep(s)
  PROVE  Inv'
  BY ExecuteLoopInv, GetAgentInv, RequestChunkInv, ReceiveDataInv, ReceiveProgressInv,
     ReportProgressInv, StreamEndsInv, ReleaseAgentInv, NotifyInv DEF SubtaskStep

-----------------------------------------------------------------------------
(* The steps of the task goroutine, the reporter and the agents.           *)

\* A step that leaves all subtasks alone but may set the quit flag.
LEMMA AllKept ==
  ASSUME Inv, \A s \in Subtasks : Kept(s), quitFlag => quitFlag'
  PROVE  SubtaskInv'
  BY KeptOK DEF Inv, SubtaskInv

LEMMA BeginInv == ASSUME Inv, Pool!Inv', Begin PROVE Inv'
<1>1. TaskTypeOK /\ PhaseInv /\ exec = "start"
  BY DEF Inv, Begin
<1>2. /\ UNCHANGED <<pc, stage, retryCount, subErr, written, wrong, finishChan>>
      /\ UNCHANGED <<progress, client, checksum, delivered, stored>>
  BY DEF Begin, poolVars, resultVars
<1>3. Before /\ reporter = "none" /\ delivered = "none" /\ stored = "none"
  BY <1>1 DEF PhaseInv, TaskTypeOK
<1>4. CASE quitFlag' = TRUE /\ exec' = "done" /\ UNCHANGED <<sub, reporter>>
  <2>1. TaskTypeOK'
    BY <1>1, <1>2, <1>4 DEF TaskTypeOK
  <2>2. SubtaskInv'
    BY <1>2, <1>4, AllKept DEF Kept
  <2>3. PhaseInv'
    BY <1>2, <1>3, <1>4 DEF PhaseInv, Before
  <2> QED BY <2>1, <2>2, <2>3 DEF Inv
<1>5. CASE /\ exec' = "collecting" /\ reporter' = "recv"
           /\ sub' = [s \in Subtasks |-> "loop"] /\ UNCHANGED quitFlag
  <2>1. TaskTypeOK'
    BY <1>1, <1>2, <1>5 DEF TaskTypeOK
  <2>2. ASSUME NEW s \in Subtasks PROVE SubtaskOK(s)'
    <3>1. SubtaskOK(s) /\ sub[s] = "none" /\ sub'[s] = "loop"
      BY <1>3, <1>5 DEF Inv, SubtaskInv, Before
    <3> QED BY <1>2, <1>5, <3>1 DEF SubtaskOK, Requested
  <2>3. PhaseInv'
    BY <1>2, <1>3, <1>5 DEF PhaseInv
  <2> QED BY <2>1, <2>2, <2>3 DEF Inv, SubtaskInv
<1> QED BY <1>4, <1>5 DEF Begin

\* The last notification is the one that moves the task goroutine on.
LEMMA CollectInv == ASSUME Inv, Pool!Inv', NEW s \in Subtasks, Collect(s) PROVE Inv'
<1> DEFINE collected == Collected \cup {s}
           failed == \E t \in collected : subErr[t]
<1>1. TaskTypeOK /\ PhaseInv /\ SubtaskInv
  BY DEF Inv
<1>2. /\ exec = "collecting" /\ s \in finishChan
      /\ finishChan' = finishChan \ {s}
      /\ quitFlag' = (quitFlag \/ subErr[s])
      /\ exec' = IF collected # Subtasks THEN "collecting"
                 ELSE IF failed THEN "closing" ELSE "combining"
      /\ UNCHANGED <<pc, sub, stage, retryCount, subErr, written, wrong, progress>>
      /\ UNCHANGED <<reporter, client, checksum, delivered, stored>>
  BY DEF Collect, AllFinished, poolVars, reportVars, resultVars
<1>3. TaskTypeOK'
  BY <1>1, <1>2 DEF TaskTypeOK
<1>4. SubtaskInv'
  <2>1. \A t \in Subtasks : SubtaskOK(t)
    BY <1>1 DEF SubtaskInv
  <2>2. \A t \in Subtasks \ {s} : Kept(t)
    BY <1>2 DEF Kept
  <2>3. quitFlag => quitFlag'
    BY <1>2
  <2>4. \A t \in Subtasks \ {s} : SubtaskOK(t)'
    BY <2>1, <2>2, <2>3, KeptOK
  <2>5. SubtaskOK(s)'
    BY <1>2, <2>1 DEF SubtaskOK, Requested
  <2> QED BY <2>4, <2>5 DEF SubtaskInv
<1>5. delivered' = "none" /\ stored' = "none" /\ reporter' # "none"
  BY <1>1, <1>2 DEF PhaseInv, TaskTypeOK
<1>6. CASE collected # Subtasks
  BY <1>1, <1>2, <1>3, <1>4, <1>5, <1>6 DEF PhaseInv, Inv
<1>7. CASE collected = Subtasks
  <2>1. \A t \in Subtasks : t \in collected
    BY <1>7
  <2>2. \A t \in Subtasks : sub[t] = "finished" /\ t \notin finishChan'
    BY <1>1, <1>2, <2>1 DEF Collected, SubtaskInv, SubtaskOK
  <2>3. Behind'
    BY <1>1, <1>2, <2>2 DEF Behind, TaskTypeOK
  <2>4. CASE failed
    <3>1. PICK t \in Subtasks : subErr[t]
      BY <1>7, <2>4
    <3>2. quitFlag'
      <4>1. SubtaskOK(t)'
        BY <1>4 DEF SubtaskInv
      <4> QED BY <1>2, <2>2, <3>1, <4>1 DEF SubtaskOK
    <3>3. exec' = "closing"
      BY <1>2, <1>7, <2>4
    <3> QED BY <1>3, <1>4, <1>5, <2>3, <3>2, <3>3 DEF PhaseInv, Inv
  <2>5. CASE ~failed
    <3>1. exec' = "combining" /\ \A t \in Subtasks : ~subErr'[t]
      BY <1>2, <1>7, <2>1, <2>5
    <3> QED BY <1>3, <1>4, <1>5, <2>3, <3>1 DEF PhaseInv, Inv
  <2> QED BY <2>4, <2>5
<1> QED BY <1>3, <1>4, <1>6, <1>7 DEF Inv

\* From the end of the collection on, the task goroutine moves alone.
Alone == UNCHANGED <<poolVars, subVars, reportVars, client, checksum>>

LEMMA AloneKeeps ==
  ASSUME Inv, Alone, quitFlag => quitFlag'
  PROVE  /\ SubtaskInv'
         /\ Behind' = Behind /\ Whole' = Whole /\ Content' = Content
         /\ reporter' = reporter
         /\ (\A s \in Subtasks : ~subErr'[s]) <=> (\A s \in Subtasks : ~subErr[s])
         /\ (\A s \in Subtasks : written'[s] # NoFile) <=> (\A s \in Subtasks : written[s] # NoFile)
  BY AllKept DEF Alone, Kept, poolVars, subVars, reportVars, Behind, Whole, Content

LEMMA CombineInv == ASSUME Inv, Pool!Inv', Combine PROVE Inv'
<1>1. TaskTypeOK /\ PhaseInv /\ SubtaskInv /\ exec = "combining" /\ Alone
  BY DEF Inv, Combine, Alone
<1>2. /\ Behind /\ (\A s \in Subtasks : ~subErr[s])
      /\ delivered = "none" /\ stored = "none"
  BY <1>1 DEF PhaseInv, TaskTypeOK
<1>3. UNCHANGED <<delivered, stored>> /\ (quitFlag => quitFlag')
  BY DEF Combine, Fail, resultVars
<1>4. TaskTypeOK'
  BY <1>1, <1>3 DEF Combine, Fail, Alone, subVars, reportVars, TaskTypeOK
<1>5. CASE Fail
  BY <1>1, <1>2, <1>3, <1>4, <1>5, AloneKeeps DEF Fail, PhaseInv, Inv
<1>6. CASE /\ \A s \in Subtasks : written[s] # NoFile
           /\ exec' = (IF checksum THEN "validating" ELSE "transferring")
           /\ UNCHANGED quitFlag
  <2>1. Whole
    BY <1>1, <1>2, <1>6 DEF Behind, SubtaskInv, SubtaskOK, Whole
  <2>2. Behind' /\ Whole' /\ SubtaskInv' /\ \A s \in Subtasks : ~subErr'[s] /\ written'[s] # NoFile
    BY <1>1, <1>2, <1>3, <1>6, <2>1, AloneKeeps
  <2>3. checksum' = checksum /\ checksum \in BOOLEAN
    BY <1>1 DEF Alone, TaskTypeOK
  <2> QED BY <1>2, <1>3, <1>4, <1>6, <2>2, <2>3 DEF PhaseInv, Inv
<1> QED BY <1>5, <1>6 DEF Combine

LEMMA ValidateInv == ASSUME Inv, Pool!Inv', Validate PROVE Inv'
<1>1. TaskTypeOK /\ PhaseInv /\ SubtaskInv /\ exec = "validating" /\ Alone
  BY DEF Inv, Validate, Alone
<1>2. /\ Behind /\ Whole /\ \A s \in Subtasks : ~subErr[s] /\ written[s] # NoFile
      /\ delivered = "none" /\ stored = "none"
  BY <1>1 DEF PhaseInv, TaskTypeOK
<1>3. UNCHANGED <<delivered, stored>> /\ (quitFlag => quitFlag')
  BY DEF Validate, Fail, resultVars
<1>4. TaskTypeOK'
  BY <1>1, <1>3 DEF Validate, Fail, Alone, subVars, reportVars, TaskTypeOK
<1>5. Behind' /\ Whole' /\ SubtaskInv' /\ \A s \in Subtasks : ~subErr'[s] /\ written'[s] # NoFile
  BY <1>1, <1>2, <1>3, AloneKeeps
<1>6. CASE Fail
  BY <1>2, <1>3, <1>4, <1>5, <1>6 DEF Fail, PhaseInv, Inv
<1>7. CASE Content = "good" /\ exec' = "transferring"
  <2>1. Content' = "good"
    BY <1>1, <1>3, <1>7, AloneKeeps
  <2> QED BY <1>2, <1>3, <1>4, <1>5, <1>7, <2>1 DEF PhaseInv, Inv
<1> QED BY <1>6, <1>7 DEF Validate

LEMMA TransferInv == ASSUME Inv, Pool!Inv', Transfer PROVE Inv'
<1>1. TaskTypeOK /\ PhaseInv /\ SubtaskInv /\ exec = "transferring" /\ Alone
  BY DEF Inv, Transfer, Alone
<1>2. /\ Behind /\ Whole /\ \A s \in Subtasks : ~subErr[s] /\ written[s] # NoFile
      /\ delivered = "none" /\ stored = "none"
      /\ checksum => Content = "good"
  BY <1>1 DEF PhaseInv, TaskTypeOK
<1>3. stored' = stored /\ checksum' = checksum /\ (quitFlag => quitFlag')
  BY DEF Transfer, Fail, resultVars
<1>4. TaskTypeOK'
  BY <1>1, <1>3 DEF Transfer, Fail, Alone, subVars, reportVars, resultVars, TaskTypeOK, Content
<1>5. /\ Behind' /\ Whole' /\ SubtaskInv' /\ Content' = Content
      /\ \A s \in Subtasks : ~subErr'[s] /\ written'[s] # NoFile
  BY <1>1, <1>2, <1>3, AloneKeeps
<1>6. CASE Fail
  BY <1>2, <1>3, <1>4, <1>5, <1>6 DEF Fail, resultVars, PhaseInv, Inv
<1>7. CASE delivered' = Content /\ exec' = "storing"
  <2>1. Content # "none"
    BY DEF Content
  <2> QED BY <1>2, <1>3, <1>4, <1>5, <1>7, <2>1 DEF PhaseInv, Inv
<1> QED BY <1>6, <1>7 DEF Transfer

LEMMA StoreInv == ASSUME Inv, Pool!Inv', Store PROVE Inv'
<1>1. TaskTypeOK /\ PhaseInv /\ SubtaskInv /\ exec = "storing" /\ Alone
  BY DEF Inv, Store, Alone
<1>2. Behind /\ Whole /\ (checksum => Content = "good")
  BY <1>1 DEF PhaseInv
<1>3. /\ delivered' = delivered /\ checksum' = checksum /\ quitFlag' = quitFlag
      /\ stored' \in {"none", "empty", Content} /\ exec' = "closing"
  BY DEF Store
<1>4. TaskTypeOK'
  BY <1>1, <1>3 DEF Alone, subVars, reportVars, TaskTypeOK, Content
<1>5. Behind' /\ Whole' /\ SubtaskInv' /\ Content' = Content
  BY <1>1, <1>2, <1>3, AloneKeeps
<1> QED BY <1>1, <1>2, <1>3, <1>4, <1>5 DEF PhaseInv, Inv

LEMMA FinishInv == ASSUME Inv, Pool!Inv', Finish PROVE Inv'
<1>1. TaskTypeOK /\ PhaseInv /\ SubtaskInv /\ exec = "closing" /\ Alone
  BY DEF Inv, Finish, Alone
<1>2. /\ UNCHANGED <<delivered, stored, quitFlag, checksum>> /\ exec' = "done"
  BY DEF Finish, resultVars
<1>3. TaskTypeOK'
  BY <1>1, <1>2 DEF Alone, subVars, reportVars, TaskTypeOK
<1>4. SubtaskInv' /\ Behind' = Behind /\ Whole' = Whole /\ Content' = Content
  BY <1>1, <1>2, AloneKeeps
<1> QED BY <1>1, <1>2, <1>3, <1>4 DEF PhaseInv, Inv

LEMMA TaskStepInv == ASSUME Inv, Pool!Inv', TaskStep PROVE Inv'
  BY BeginInv, CollectInv, CombineInv, ValidateInv, TransferInv, StoreInv, FinishInv
  DEF TaskStep

LEMMA ReporterStepInv == ASSUME Inv, Pool!Inv', ReporterStep PROVE Inv'
<1>1. /\ TaskTypeOK /\ PhaseInv
      /\ UNCHANGED <<pc, subVars, exec, client, checksum, delivered, stored>>
  BY DEF Inv, ReporterStep, ReporterReceives, ReporterSends, ReporterExits, poolVars, resultVars
<1>2. /\ reporter # "none"
      /\ reporter' \in {"recv", "send", "exited"}
      /\ quitFlag' \in BOOLEAN /\ (quitFlag => quitFlag')
  <2>1. CASE ReporterReceives \/ ReporterExits
    BY <1>1, <2>1 DEF TaskTypeOK, ReporterReceives, ReporterExits
  <2>2. CASE ReporterSends
    BY <1>1, <2>2 DEF ReporterSends
  <2> QED BY <2>1, <2>2 DEF ReporterStep
<1>3. progress' \in 0..ProgressCap
  BY <1>1, SizesAssumption
  DEF TaskTypeOK, ReporterStep, ReporterReceives, ReporterSends, ReporterExits
<1>4. TaskTypeOK'
  BY <1>1, <1>2, <1>3 DEF TaskTypeOK, subVars
<1>5. SubtaskInv'
  BY <1>1, <1>2, AllKept DEF Kept, subVars
<1>6. PhaseInv'
  BY <1>1, <1>2 DEF PhaseInv, Before, Behind, Whole, Content, subVars
<1> QED BY <1>4, <1>5, <1>6 DEF Inv

\* Agents come and go and the client leaves without the task noticing.
LEMMA OutsideInv ==
  ASSUME Inv, Pool!Inv', AgentJoins \/ AgentLeaves \/ ClientLeaves \/ UNCHANGED vars
  PROVE  Inv'
<1>1. /\ UNCHANGED <<exec, quitFlag, subVars, reportVars, checksum, resultVars>>
      /\ client' \in BOOLEAN
  BY DEF Inv, TaskTypeOK, AgentJoins, AgentLeaves, ClientLeaves, vars
<1>2. TaskTypeOK'
  BY <1>1 DEF Inv, TaskTypeOK, subVars, reportVars, resultVars
<1>3. PhaseInv'
  BY <1>1 DEF Inv, PhaseInv, Before, Behind, Whole, Content, subVars, reportVars, resultVars
<1>4. \A s \in Subtasks : pc'[s] = pc[s] \/ (pc[s] = "waiting" /\ pc'[s] = "locking")
  BY DEF AgentJoins, AgentLeaves, ClientLeaves, Pool!AddAgent, Pool!RemoveAgent,
     Pool!Signalled, vars, poolVars, Inv, Pool!Inv, Pool!TypeOK
<1>5. SubtaskInv'
  BY <1>1, <1>4, AllKept DEF Kept, subVars
<1> QED BY <1>2, <1>3, <1>5 DEF Inv

LEMMA NextInv == Inv /\ [Next]_vars => Inv'
<1> SUFFICES ASSUME Inv, [Next]_vars PROVE Inv'
  OBVIOUS
<1>1. Pool!Inv'
  BY PoolNext DEF Inv
<1> QED BY <1>1, SubtaskStepInv, TaskStepInv, ReporterStepInv, OutsideInv DEF Next

THEOREM Invariance == Spec => []Inv
  BY InitInv, NextInv, PTL DEF Spec

\* Every variable keeps its type; in particular the progress channel is never
\* over its capacity and RunTask never called more than MaxRetries + 1 times.
THEOREM TypeCorrect == Spec => []TypeOK
<1>1. Inv => TypeOK
  BY DEF Inv, Pool!Inv, TaskTypeOK, TypeOK
<1> QED BY <1>1, Invariance, PTL

\* When executeSubTasks has returned, every subtask has ended, has been
\* collected, and has handed its agent back: none will send on the closed
\* progress channel or write to the removed directory.
THEOREM NoWorkerLeft == Spec => []WorkersQuiescent
<1>1. Inv => WorkersQuiescent
  <2> SUFFICES ASSUME Inv, exec \notin {"start", "collecting"}, reporter # "none"
               PROVE  /\ \A s \in Subtasks : sub[s] = "finished" /\ pc[s] = "idle"
                      /\ finishChan = {} /\ busyAgents = {}
    BY DEF WorkersQuiescent
  <2>1. Behind
    BY DEF Inv, PhaseInv
  <2>2. \A s \in Subtasks : sub[s] = "finished" /\ pc[s] = "idle"
    BY <2>1 DEF Behind, Inv, SubtaskInv, SubtaskOK
  <2>3. \A s \in Subtasks : agent[s] = NoAgent
    BY <2>2 DEF Inv, Pool!Inv, Pool!Holding
  <2>4. busyAgents = {}
    BY <2>3, ListAssumption DEF Inv, Pool!Inv, Pool!TypeOK, Pool!BusyIffHeld, Pool!AgentIds
  <2> QED BY <2>1, <2>2, <2>4 DEF Behind
<1> QED BY <1>1, Invariance, PTL

\* Only whole files are sent and kept, although combine does not look at the
\* sizes of the target files; with a checksum, only right ones.
THEOREM WholeOrNothing == Spec => []OnlyWholeFiles
<1>1. Inv => OnlyWholeFiles
  BY DEF Inv, PhaseInv, OnlyWholeFiles
<1> QED BY <1>1, Invariance, PTL

\* A task without an error has sent the file: no early return, and no failed
\* subtask or reporter, is lost on the way to the task's error.
THEOREM ErrorsArrive == Spec => []SuccessMeansDelivered
<1>1. Inv => SuccessMeansDelivered
  BY DEF Inv, PhaseInv, SuccessMeansDelivered
<1> QED BY <1>1, Invariance, PTL
=============================================================================
