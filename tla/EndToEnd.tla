------------------------------ MODULE EndToEnd -------------------------------
(***************************************************************************)
(* A download from the origin to the file of the client: the task of       *)
(* DistributedDownload for a file of one chunk, an AgentDownload for its   *)
(* request, the Download call (cmd/server/server_download.go) and the      *)
(* DownloadClient.  Where DistributedDownload lets its agents deliver what *)
(* they like, here they deliver what AgentDownload sends; what             *)
(* DistributedDownload only counts, the progress, has its values here      *)
(* (cmd/server/download_progress.go).                                      *)
(*                                                                         *)
(* Every step of a component is taken together with what it does to the    *)
(* streams between them.  One chunk is enough: two interact in             *)
(* DistributedDownload only.                                               *)
(***************************************************************************)
EXTENDS DistributedDownload, Sequences

CONSTANTS
  ChannelCap, StreamCap,              \* as in AgentDownload
  ScreenWidth, FrameWidth, LineWidth, \* as in DownloadClient
  InboxCap                            \* messages gRPC holds for the client

ASSUME OneChunk == Cardinality(Subtasks) = 1 /\ ClientMayLeave

ASSUME CapsAssumption == ChannelCap \in Nat /\ StreamCap \in Nat

VARIABLES
  serve, source, got, offered, relay, unreported, failed,
  stream, open,          \* AgentDownload
  inbox, ending, phase, output, resp,   \* DownloadClient
  call,                  \* requests to agents so far
  reported,              \* the amount downloadChunk is about to put on the channel
  amounts,               \* the messages of the progress channel
  counted                \* getTotalDownloadedBytes

agentVars == <<serve, source, got, offered, relay, unreported, failed, stream, open>>
clientVars == <<inbox, ending, phase, output, resp>>
countVars == <<reported, amounts, counted>>
linkVars == <<call, countVars>>
e2eVars == <<vars, agentVars, clientVars, linkVars>>

Agent == INSTANCE AgentDownload
Client == INSTANCE DownloadClient WITH Total <- ChunkSize

E2EInit ==
  /\ Init
  /\ Agent!Init
  /\ Client!Init
  /\ call = 0
  /\ reported = 0
  /\ amounts = <<>>
  /\ counted = 0

-----------------------------------------------------------------------------
(* The agent's streams.  A name that ends in _Mutant is a plausible slip in  *)
(* the definition after it; none is part of the specification.             *)

\* downloadChunk leaves the rest of the messages in the stream and goes on, or
\* closes the stream.
Hold(s, rest) ==
  IF pc'[s] = "running" THEN Agent!Taken(rest) ELSE Agent!Closed

ChunkLocal(s) ==
  /\ ExecuteLoop(s) \/ GetAgent(s) \/ ReleaseAgent(s) \/ Notify(s)
  /\ UNCHANGED <<agentVars, clientVars, linkVars>>

\* The request may fail on the way, or be dropped by the server at once.
ChunkRequest(s) ==
  /\ RequestChunk(s)
  /\ IF pc'[s] = "running" THEN call' = call + 1 /\ Agent!Called
                            ELSE UNCHANGED <<call, agentVars>>
  /\ UNCHANGED <<clientVars, countVars>>

Arrived(kind) == stream # <<>> /\ Head(stream).kind = kind

ChunkData(s) ==
  /\ ReceiveData(s)
  /\ Arrived("data")
  /\ s \in wrong' <=> s \in wrong \/ Head(stream).value = "wrong"
  /\ Hold(s, Tail(stream))
  /\ UNCHANGED <<clientVars, linkVars>>

ChunkProgress(s) ==
  /\ ReceiveProgress(s)
  /\ Arrived("progress")
  /\ reported' = Head(stream).value
  /\ Hold(s, Tail(stream))
  /\ UNCHANGED <<clientVars, call, amounts, counted>>

ChunkReport(s) ==
  /\ ReportProgress(s)
  /\ amounts' = Append(amounts, reported)
  /\ reported' = 0
  /\ Hold(s, stream)
  /\ UNCHANGED <<clientVars, call, counted>>

\* EOF behind the last message, or an error.
ChunkEnds(s) ==
  /\ StreamEnds(s)
  /\ \/ /\ Agent!AtEnd
        /\ pc'[s] = IF ChunkComplete(s) THEN "succeeded" ELSE "failed"
     \/ /\ Agent!AtError
        /\ pc'[s] = "failed"
  /\ Agent!Closed
  /\ UNCHANGED <<clientVars, linkVars>>

ChunkStep(s) ==
  \/ ChunkLocal(s) \/ ChunkRequest(s) \/ ChunkData(s)
  \/ ChunkProgress(s) \/ ChunkReport(s) \/ ChunkEnds(s)

AgentStep ==
  /\ Agent!ServeStep \/ Agent!RelayStep
  /\ UNCHANGED <<vars, clientVars, linkVars>>

Break ==
  /\ Agent!Break
  /\ UNCHANGED <<vars, clientVars, linkVars>>

-----------------------------------------------------------------------------
(* The client's stream.                                                    *)

\* Messages are sent to the client if it is there, and if gRPC takes them.
Send(messages) ==
  IF client /\ phase = "receiving"
  THEN /\ Len(inbox \o messages) <= InboxCap \/ messages = <<>>
       /\ inbox' = inbox \o messages
  ELSE UNCHANGED inbox
KeepClient == UNCHANGED <<ending, phase, output, resp>>

\* What all agents have reported so far, whatever became of their requests.
Counted == counted + Head(amounts)

ReportStep ==
  /\ \/ /\ ReporterReceives
        /\ amounts' = Tail(amounts)
        /\ counted' = Counted
        /\ UNCHANGED inbox
     \/ /\ ReporterSends
        /\ Send(<<[kind |-> "progress", value |-> counted]>>)
        /\ UNCHANGED <<amounts, counted>>
     \/ /\ ReporterExits
        /\ UNCHANGED <<amounts, counted, inbox>>
  /\ KeepClient
  /\ UNCHANGED <<agentVars, call, reported>>

\* A transfer that fails may have sent a part.
Sendings ==
  CASE exec = "validating"   -> {<<[kind |-> "validating", value |-> 0]>>}
    [] exec = "transferring" ->
         IF delivered' # "none" THEN {<<[kind |-> "data", value |-> delivered']>>}
         ELSE {<<>>, <<[kind |-> "data", value |-> "part"]>>}
    [] OTHER                 -> {<<>>}

ExecStep ==
  /\ TaskStep
  /\ \E messages \in Sendings : Send(messages)
  /\ KeepClient
  /\ UNCHANGED <<agentVars, linkVars>>

\* It waits for the reporter as well.
CallReturns_Mutant ==
  /\ exec = "done" /\ reporter = "exited" /\ ending = "open"
  /\ ending' = IF quitFlag THEN "error" ELSE "ok"
  /\ UNCHANGED <<vars, agentVars, inbox, phase, output, resp, linkVars>>

\* Download, behind done: the task's error, as it is now.  What the reporter
\* does to it later is not seen.
CallReturns ==
  /\ exec = "done" /\ ending = "open"
  /\ ending' = IF quitFlag THEN "error" ELSE "ok"
  /\ UNCHANGED <<vars, agentVars, inbox, phase, output, resp, linkVars>>

\* The server notices that the stream is gone.
StreamCloses ==
  /\ phase # "receiving" \/ ending # "open"
  /\ ClientLeaves
  /\ UNCHANGED <<agentVars, clientVars, linkVars>>

ClientStep ==
  /\ Client!ClientStep
  /\ UNCHANGED <<vars, agentVars, linkVars>>

ClientLost ==
  /\ Client!Lost
  /\ UNCHANGED <<vars, agentVars, linkVars>>

\* An agent registers.  That one is dropped concerns the list and the task alone,
\* and is left to DistributedDownload.
Joins ==
  /\ AgentJoins
  /\ UNCHANGED <<agentVars, clientVars, linkVars>>

\* What runs if it can: the goroutines of the server, an agent and its origin,
\* the client, and an agent that registers when there is none.
Running ==
  \/ \E s \in Subtasks : ChunkStep(s)
  \/ AgentStep \/ ReportStep \/ ExecStep \/ CallReturns \/ ClientStep
  \/ Joins

E2ENext == Running \/ Break \/ StreamCloses \/ ClientLost

\* Nothing repeats for ever here, so it is enough that something runs.
E2EFairness == WF_e2eVars(Running)

E2ESpec == E2EInit /\ [][E2ENext]_e2eVars
E2EFairSpec == E2ESpec /\ E2EFairness

-----------------------------------------------------------------------------
E2ETypeOK ==
  /\ TypeOK /\ Agent!TypeOK /\ Client!TypeOK
  /\ call \in 0..(MaxAttempts * (MaxRetries + 1))
  /\ reported \in 0..ChunkSize
  /\ Len(amounts) = progress
  /\ counted \in Nat

NoConcurrentSend == Agent!NoConcurrentSend

\* The agent's call returns, unless its connection is lost or the client has
\* left: the server's side of it may then be stuck (see ReporterEnds).
PartServed == serve = "fetch" ~> (serve = "returned" \/ ~open \/ ~client)

\* Whatever the agents, the connections and the origin do, a client that ends
\* with success has the whole file; a wrong one only if it gave no checksum and
\* the origin ignored the range.
CompletedFileIsWhole ==
  phase = "completed" =>
    \/ output = "good"
    \/ output = "bad" /\ ~checksum

\* When an agent ends its stream without error, the server has the chunk: of
\* the tests behind the receive loop, the size is never the one that fails.
EofMeansWhole ==
  \A s \in Subtasks :
    pc[s] = "running" /\ stage[s] = "recv" /\ Agent!AtEnd => written[s] = ChunkSize

\* No piece is counted twice for one request: what the client is shown exceeds
\* the file only by what has been requested again (see the TODO at the head of
\* download_progress.go).
CountedOnce == counted <= ChunkSize * call

\* The bar takes the client down only when the progress is more than all, for
\* which a chunk must have been requested again (or the terminal too narrow: see
\* ProgressBarProofs).
BarSafe == call > 1 \/ Client!RenderSafe

\* A client that is still there is not told of an error when it has been sent
\* the file: a reporter's failed Send reaches the task's error only if the
\* client has left.
SentMeansOk ==
  ending = "error" /\ delivered # "none" => phase \notin {"receiving", "completed"}

\* The client's process ends: with the file, with an error or by itself.
ClientAnswered == <>(phase # "receiving")
=============================================================================
