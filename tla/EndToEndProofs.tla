--------------------------- MODULE EndToEndProofs ----------------------------
(***************************************************************************)
(* The composition is a way to run the task: what holds of                 *)
(* DistributedDownload, whose agents may deliver anything and whose client *)
(* may leave at any time, holds of EndToEnd.                               *)
(***************************************************************************)
EXTENDS EndToEnd, DistributedDownloadProofs, FiniteSetTheorems, SequenceTheorems, TLAPS

\* A step of the subtask's goroutine, whatever it does to the agent's stream.
LEMMA ChunkStepRefines ==
  ASSUME NEW s \in Subtasks, ChunkStep(s)
  PROVE  SubtaskStep(s)
  BY DEF ChunkStep, ChunkLocal, ChunkRequest, ChunkData, ChunkProgress, ChunkReport,
         ChunkEnds, SubtaskStep

\* Every step of the composition is a step of the task, or leaves it alone.
LEMMA StepRefines == [E2ENext]_e2eVars => [Next]_vars
<1> SUFFICES ASSUME E2ENext \/ UNCHANGED e2eVars
             PROVE  Next \/ UNCHANGED vars
  OBVIOUS
<1>1. ASSUME NEW s \in Subtasks, ChunkStep(s) PROVE Next
  BY <1>1, ChunkStepRefines DEF Next
<1>2. CASE ReportStep
  BY <1>2 DEF ReportStep, ReporterStep, Next
<1>3. CASE ExecStep
  BY <1>3 DEF ExecStep, Next
<1>4. CASE StreamCloses
  BY <1>4 DEF StreamCloses, Next
<1>5. CASE Joins
  BY <1>5 DEF Joins, Next
<1>6. CASE AgentStep \/ Break \/ CallReturns \/ ClientStep \/ ClientLost
  BY <1>6 DEF AgentStep, Break, CallReturns, ClientStep, ClientLost
<1>7. CASE UNCHANGED e2eVars
  BY <1>7 DEF e2eVars
<1> QED BY <1>1, <1>2, <1>3, <1>4, <1>5, <1>6, <1>7 DEF E2ENext, Running

\* EndToEnd implements DistributedDownload: executeTask and its goroutines
\* behave with a DownloadPart behind every request, and with the client behind
\* the call, as they do with an environment that is free to do what it likes.
THEOREM Refinement == E2ESpec => Spec
<1>1. E2EInit => Init
  BY DEF E2EInit
<1> QED BY <1>1, StepRefines, PTL DEF E2ESpec, Spec

\* What DistributedDownloadProofs shows of a task holds of the composition.
LEMMA TaskInvariance == E2ESpec => []Inv
  BY Refinement, Invariance, PTL

\* There is one chunk.
LEMMA TheChunk == \E c : Subtasks = {c}
  BY OneChunk, ListAssumption, FS_Singleton

-----------------------------------------------------------------------------
(* The agent's call.                                                       *)

\* A message of the agent.
AgentMessages ==
  [kind : {"progress"}, value : 0..ChunkSize] \cup [kind : {"data"}, value : {"right", "wrong"}]

\* Pieces the agent has yet to put on its channel.
Unread ==
  IF serve = "fetch" THEN ChunkSize ELSE IF serve = "offer" THEN ChunkSize - got + 1 ELSE 0

AgentInv ==
  /\ serve \in {"none", "fetch", "offer", "join", "upload", "returned"}
  /\ source \in {"right", "wrong"}
  /\ got \in 0..ChunkSize
  /\ offered \in 0..ChannelCap
  /\ relay \in {"none", "recv", "send", "exited"}
  /\ unreported \in Nat
  /\ failed \in BOOLEAN
  /\ stream \in Seq(AgentMessages) /\ Len(stream) <= StreamCap
  /\ open \in BOOLEAN
  /\ \A s \in Subtasks : ~Requested(s) => serve = "none"
  /\ serve = "none" => ~open
  /\ serve \in {"none", "fetch"} =>
       relay = "none" /\ got = 0 /\ offered = 0 /\ unreported = 0 /\ stream = <<>> /\ ~failed
  /\ serve = "offer" => got >= 1
  /\ serve \in {"offer", "join"} => relay # "none"
  /\ serve = "join" /\ ~failed => got = ChunkSize
  /\ serve = "upload" => relay = "exited" /\ got >= 1 /\ ~failed
  /\ serve = "returned" => relay \in {"none", "exited"} /\ got = 0
  /\ offered + unreported + Unread <= ChunkSize

\* n messages of progress, then only data.
Parted(n) ==
  \A i \in 1..Len(stream) : stream[i].kind = (IF i <= n THEN "progress" ELSE "data")

PiecesInv ==
  \A s \in Subtasks :
    /\ serve \in {"fetch", "offer", "join"} => written[s] = 0 /\ Parted(Len(stream))
    /\ serve \in {"upload", "returned"} /\ open /\ ~failed =>
         \E n \in 0..Len(stream) :
            Parted(n) /\ written[s] + (Len(stream) - n) + got = ChunkSize

LEMMA Empty ==
  /\ 0 \in 0..ChunkSize /\ 0 \in 0..ChannelCap /\ 0 <= ChunkSize /\ 0 + 0 + 0 = 0
  /\ <<>> \in Seq(AgentMessages) /\ Len(<<>>) <= StreamCap
  BY SizesAssumption, CapsAssumption

LEMMA AgentInit == E2EInit => AgentInv /\ PiecesInv
<1> SUFFICES ASSUME E2EInit PROVE AgentInv /\ PiecesInv
  OBVIOUS
<1>1. /\ serve = "none" /\ source = "right" /\ got = 0 /\ offered = 0 /\ relay = "none"
      /\ unreported = 0 /\ failed = FALSE /\ stream = <<>> /\ open = FALSE
  BY DEF E2EInit, Agent!Init
<1>2. Unread = 0
  BY <1>1 DEF Unread
<1>3. AgentInv
  BY <1>1, <1>2, Empty DEF AgentInv
<1>4. PiecesInv
  BY <1>1 DEF PiecesInv
<1> QED BY <1>3, <1>4

\* The agent does not move, and its call is not taken from under it.
LEMMA AgentKept ==
  ASSUME AgentInv, PiecesInv, UNCHANGED agentVars, UNCHANGED written,
         \A s \in Subtasks : Requested(s) => Requested(s)'
  PROVE  AgentInv' /\ PiecesInv'
<1>1. AgentInv'
  BY DEF AgentInv, agentVars, Unread
<1>2. PiecesInv'
  BY DEF PiecesInv, agentVars, Parted
<1> QED BY <1>1, <1>2

\* The server takes its end of the stream down.
LEMMA AgentClosed == ASSUME Agent!Closed PROVE AgentInv' /\ PiecesInv'
<1>1. /\ serve' = "none" /\ source' = "right" /\ got' = 0 /\ offered' = 0 /\ relay' = "none"
      /\ unreported' = 0 /\ failed' = FALSE /\ stream' = <<>> /\ open' = FALSE
  BY DEF Agent!Closed
<1>2. Unread' = 0
  BY <1>1 DEF Unread
<1>3. AgentInv'
  BY <1>1, <1>2, Empty DEF AgentInv
<1>4. PiecesInv'
  BY <1>1 DEF PiecesInv
<1> QED BY <1>3, <1>4

LEMMA FetchInv ==
  ASSUME AgentInv, PiecesInv, Agent!Fetch, UNCHANGED <<pc, stage, written>>
  PROVE  AgentInv' /\ PiecesInv'
<1>1. /\ serve = "fetch" /\ got = 0 /\ offered = 0 /\ unreported = 0 /\ ~failed
      /\ stream = <<>> /\ Unread = ChunkSize /\ relay = "none"
      /\ UNCHANGED <<offered, unreported, stream, open>>
      /\ source' \in {"right", "wrong"} /\ relay' \in {"none", "recv"}
      /\ \A s \in Subtasks : Requested(s)' <=> Requested(s)
  BY DEF Agent!Fetch, AgentInv, Unread, Requested
<1>2. /\ Parted(Len(stream))' <=> Parted(Len(stream))
      /\ \A s \in Subtasks : written[s] = 0 /\ Parted(Len(stream))
  BY <1>1 DEF PiecesInv, Parted
<1>3. CASE serve' = "returned" /\ failed' = TRUE /\ UNCHANGED <<source, got, relay>>
  <2>1. Unread' = 0
    BY <1>3 DEF Unread
  <2>2. AgentInv'
    BY <1>1, <1>3, <2>1, SizesAssumption DEF AgentInv
  <2>3. PiecesInv'
    BY <1>3 DEF PiecesInv
  <2> QED BY <2>2, <2>3
<1>4. CASE relay' = "recv" /\ got' = 1 /\ serve' = "offer" /\ UNCHANGED failed
  <2>1. Unread' = ChunkSize
    BY <1>4, SizesAssumption DEF Unread
  <2>2. AgentInv'
    BY <1>1, <1>4, <2>1, SizesAssumption DEF AgentInv
  <2>3. PiecesInv'
    BY <1>2, <1>4 DEF PiecesInv
  <2> QED BY <2>2, <2>3
<1>5. CASE relay' = "recv" /\ serve' = "join" /\ failed' = (0 < ChunkSize) /\ UNCHANGED got
  <2>1. Unread' = 0
    BY <1>5 DEF Unread
  <2>2. failed' \in BOOLEAN /\ failed'
    <3>1. 0 < ChunkSize
      BY SizesAssumption
    <3> QED BY <1>5, <3>1
  <2>3. AgentInv'
    BY <1>1, <1>5, <2>1, <2>2, SizesAssumption DEF AgentInv
  <2>4. PiecesInv'
    BY <1>2, <1>5 DEF PiecesInv
  <2> QED BY <2>3, <2>4
<1>6. 0 < ChunkSize /\ 0 + 1 = 1
  BY SizesAssumption
<1> QED BY <1>3, <1>4, <1>5, <1>6 DEF Agent!Fetch, Agent!Read

LEMMA OfferInv ==
  ASSUME AgentInv, PiecesInv, Agent!Offer, UNCHANGED <<pc, stage, written>>
  PROVE  AgentInv' /\ PiecesInv'
<1>1. /\ serve = "offer" /\ got \in 1..ChunkSize /\ offered \in 0..ChannelCap
      /\ offered < ChannelCap /\ offered' = offered + 1 /\ unreported \in Nat
      /\ offered + unreported + (ChunkSize - got + 1) <= ChunkSize
      /\ relay # "none" /\ UNCHANGED <<source, relay, unreported, stream, open>>
      /\ \A s \in Subtasks : Requested(s)' <=> Requested(s)
  BY SizesAssumption DEF Agent!Offer, AgentInv, Unread, Requested
<1>2. /\ Parted(Len(stream))' <=> Parted(Len(stream))
      /\ \A s \in Subtasks : written[s] = 0 /\ Parted(Len(stream))
  BY <1>1 DEF PiecesInv, Parted
<1>3. offered' \in 0..ChannelCap
  BY <1>1, CapsAssumption
<1>4. CASE got < ChunkSize /\ got' = got + 1 /\ serve' = "offer" /\ UNCHANGED failed
  <2>1. Unread' = ChunkSize - got
    BY <1>1, <1>4, SizesAssumption DEF Unread
  <2>2. offered' + unreported' + Unread' <= ChunkSize
    BY <1>1, <2>1, SizesAssumption, CapsAssumption
  <2>3. AgentInv'
    BY <1>1, <1>3, <1>4, <2>2, SizesAssumption DEF AgentInv
  <2>4. PiecesInv'
    BY <1>2, <1>4 DEF PiecesInv
  <2> QED BY <2>3, <2>4
<1>5. CASE serve' = "join" /\ failed' = (got < ChunkSize) /\ UNCHANGED got
  <2>1. Unread' = 0
    BY <1>5 DEF Unread
  <2>2. offered' + unreported' + Unread' <= ChunkSize
    BY <1>1, <2>1, SizesAssumption, CapsAssumption
  <2>3. failed' \in BOOLEAN /\ (~failed' => got' = ChunkSize)
    <3>1. CASE got < ChunkSize
      BY <1>5, <3>1
    <3>2. CASE ~(got < ChunkSize)
      <4>1. got' = ChunkSize
        BY <1>1, <1>5, <3>2, SizesAssumption
      <4> QED BY <1>5, <3>2, <4>1
    <3> QED BY <3>1, <3>2
  <2>4. AgentInv'
    BY <1>1, <1>3, <1>5, <2>2, <2>3 DEF AgentInv
  <2>5. PiecesInv'
    BY <1>2, <1>5 DEF PiecesInv
  <2> QED BY <2>4, <2>5
<1> QED BY <1>4, <1>5 DEF Agent!Offer, Agent!Read

LEMMA JoinInv ==
  ASSUME AgentInv, PiecesInv, Agent!Join, UNCHANGED <<pc, stage, written>>, Inv
  PROVE  AgentInv' /\ PiecesInv'
<1>1. /\ serve = "join" /\ relay = "exited" /\ Unread = 0
      /\ UNCHANGED <<source, offered, relay, unreported, failed, stream, open>>
      /\ \A s \in Subtasks : Requested(s)' <=> Requested(s)
  BY DEF Agent!Join, Unread, Requested
<1>2. CASE failed /\ serve' = "returned" /\ got' = 0
  <2>1. Unread' = 0
    BY <1>2 DEF Unread
  <2>2. AgentInv'
    BY <1>1, <1>2, <2>1, Empty DEF AgentInv
  <2>3. PiecesInv'
    BY <1>1, <1>2 DEF PiecesInv
  <2> QED BY <2>2, <2>3
<1>3. CASE ~failed /\ serve' = "upload" /\ got' = got
  <2>1. Unread' = 0 /\ got = ChunkSize
    BY <1>1, <1>3 DEF Unread, AgentInv
  <2>2. AgentInv'
    BY <1>1, <1>3, <2>1, SizesAssumption DEF AgentInv
  <2>3. ASSUME NEW s \in Subtasks
        PROVE  \E n \in 0..Len(stream') :
                  Parted(n)' /\ written'[s] + (Len(stream') - n) + got' = ChunkSize
    <3>1. Len(stream) \in Nat /\ written[s] = 0 /\ Parted(Len(stream))
      BY <1>1 DEF AgentInv, PiecesInv
    <3>2. Parted(Len(stream))'
      BY <1>1, <3>1 DEF Parted
    <3>3. Len(stream') \in 0..Len(stream') /\ written'[s] + (Len(stream') - Len(stream')) + got' = ChunkSize
      BY <1>1, <1>3, <2>1, <3>1, SizesAssumption
    <3> QED BY <3>2, <3>3
  <2>4. PiecesInv'
    BY <1>3, <2>3 DEF PiecesInv
  <2> QED BY <2>2, <2>4
<1> QED BY <1>2, <1>3 DEF Agent!Join, AgentInv

\* A message behind the others.
LEMMA Appended ==
  ASSUME stream \in Seq(AgentMessages), NEW m \in AgentMessages, stream' = Append(stream, m)
  PROVE  /\ stream' \in Seq(AgentMessages) /\ Len(stream') = Len(stream) + 1
         /\ \A i \in 1..Len(stream) : stream'[i] = stream[i]
         /\ stream'[Len(stream) + 1] = m
  OBVIOUS

LEMMA UploadInv ==
  ASSUME AgentInv, PiecesInv, Agent!Upload, UNCHANGED <<pc, stage, written>>, Inv
  PROVE  AgentInv' /\ PiecesInv'
<1> DEFINE m == [kind |-> "data", value |-> source]
<1>1. /\ serve = "upload" /\ relay = "exited" /\ Unread = 0 /\ got \in 1..ChunkSize /\ ~failed
      /\ stream \in Seq(AgentMessages) /\ Len(stream) \in Nat /\ m \in AgentMessages
      /\ open \in BOOLEAN
      /\ UNCHANGED <<source, offered, relay, unreported, open>>
      /\ \A s \in Subtasks : Requested(s)' <=> Requested(s)
  BY SizesAssumption DEF Agent!Upload, Unread, Requested, AgentInv, AgentMessages
<1>2. Unread' = 0
  BY DEF Agent!Upload, Unread
<1>3. serve' \in {"returned", "upload"} /\ (serve' = "returned" <=> got' = 0)
  BY DEF Agent!Upload
<1>4. CASE open
  <2>1. /\ Len(stream) < StreamCap /\ stream' = Append(stream, m)
        /\ got' = got - 1 /\ failed' = FALSE
    BY <1>4 DEF Agent!Upload, Agent!CanSend, Agent!Sent, Agent!Message
  <2> HIDE DEF m
  <2>2. /\ stream' \in Seq(AgentMessages) /\ Len(stream') = Len(stream) + 1
        /\ \A i \in 1..Len(stream) : stream'[i] = stream[i]
        /\ stream'[Len(stream) + 1] = m
    BY <1>1, <2>1, Appended
  <2>3. Len(stream') <= StreamCap /\ got' \in 0..ChunkSize /\ (got' # 0 => got' >= 1)
    BY <1>1, <2>1, <2>2, SizesAssumption, CapsAssumption
  <2>4. AgentInv'
    BY <1>1, <1>2, <1>3, <2>1, <2>2, <2>3 DEF AgentInv
  <2>5. ASSUME NEW s \in Subtasks
        PROVE  \E n \in 0..Len(stream') :
                  Parted(n)' /\ written'[s] + (Len(stream') - n) + got' = ChunkSize
    <3>1. PICK n \in 0..Len(stream) :
             Parted(n) /\ written[s] + (Len(stream) - n) + got = ChunkSize
      BY <1>1, <1>4 DEF PiecesInv
    <3>2. m.kind = "data"
      BY DEF m
    <3>3. Parted(n)'
      BY <1>1, <2>2, <3>1, <3>2 DEF Parted
    <3>4. written[s] \in Nat
      <4>1. Requested(s) /\ SubtaskOK(s)
        BY <1>1 DEF AgentInv, Inv, SubtaskInv
      <4> QED BY <4>1, SizesAssumption DEF SubtaskOK, Inv, TaskTypeOK
    <3>5. n \in 0..Len(stream') /\ written'[s] + (Len(stream') - n) + got' = ChunkSize
      BY <1>1, <2>1, <2>2, <3>1, <3>4, SizesAssumption
    <3> QED BY <3>3, <3>5
  <2>6. PiecesInv'
    BY <1>3, <2>5 DEF PiecesInv
  <2> QED BY <2>4, <2>6
<1>5. CASE ~open
  <2>1. stream' = stream /\ got' = 0 /\ failed' = TRUE
    BY <1>1, <1>5 DEF Agent!Upload, Agent!Sent
  <2>2. AgentInv'
    BY <1>1, <1>2, <1>3, <2>1, Empty DEF AgentInv
  <2>3. PiecesInv'
    BY <1>3, <2>1 DEF PiecesInv
  <2> QED BY <2>2, <2>3
<1> QED BY <1>1, <1>4, <1>5

LEMMA RelayInv ==
  ASSUME AgentInv, PiecesInv, Agent!RelayStep, UNCHANGED <<pc, stage, written>>, Inv
  PROVE  AgentInv' /\ PiecesInv'
<1>1. /\ relay \in {"recv", "send"} /\ relay' \in {"recv", "send", "exited"}
      /\ UNCHANGED <<serve, source, got, failed, open>>
      /\ \A s \in Subtasks : Requested(s)' <=> Requested(s)
  BY DEF Agent!RelayStep, Agent!RelayReceives, Agent!RelaySends, Agent!RelayExits, Requested
<1>2. serve \in {"offer", "join"} /\ offered \in 0..ChannelCap /\ unreported \in Nat
  BY <1>1 DEF AgentInv
<1>3. /\ Unread' = Unread /\ Unread \in Nat
      /\ stream \in Seq(AgentMessages) /\ Len(stream) \in Nat
      /\ offered + unreported + Unread <= ChunkSize
      /\ \A s \in Subtasks : written[s] = 0 /\ Parted(Len(stream))
  BY <1>1, <1>2, SizesAssumption DEF AgentInv, PiecesInv, Unread
<1>4. CASE Agent!RelayReceives \/ Agent!RelayExits
  <2>1. stream' = stream
    BY <1>4 DEF Agent!RelayReceives, Agent!RelayExits
  <2>2. /\ offered' \in 0..ChannelCap /\ unreported' \in Nat
        /\ offered' + unreported' + Unread' <= ChunkSize
    <3>1. CASE offered > 0 /\ offered' = offered - 1 /\ unreported' = unreported + 1
      BY <1>2, <1>3, <3>1, CapsAssumption, SizesAssumption
    <3>2. CASE offered' = offered /\ unreported' = 0
      BY <1>2, <1>3, <3>2, CapsAssumption, SizesAssumption
    <3> QED BY <1>4, <3>1, <3>2 DEF Agent!RelayReceives, Agent!RelayExits
  <2>3. AgentInv'
    BY <1>1, <1>2, <2>1, <2>2 DEF AgentInv
  <2>4. PiecesInv'
    BY <1>1, <1>2, <1>3, <2>1 DEF PiecesInv, Parted
  <2> QED BY <2>3, <2>4
<1>5. CASE Agent!RelaySends
  <2> DEFINE m == [kind |-> "progress", value |-> unreported]
  <2>1. /\ offered' = offered /\ unreported' = 0
        /\ IF open THEN Len(stream) < StreamCap /\ stream' = Append(stream, m)
                   ELSE stream' = stream
    BY <1>5 DEF Agent!RelaySends, Agent!CanSend, Agent!Sent, Agent!Message
  <2>2. /\ unreported \in 0..ChunkSize
        /\ offered' + unreported' + Unread' <= ChunkSize
    BY <1>2, <1>3, <2>1, CapsAssumption, SizesAssumption
  <2>3. m \in AgentMessages /\ m.kind = "progress"
    BY <2>2 DEF AgentMessages
  <2> HIDE DEF m
  <2>4. CASE open
    <3>1. /\ stream' \in Seq(AgentMessages) /\ Len(stream') = Len(stream) + 1
          /\ \A i \in 1..Len(stream) : stream'[i] = stream[i]
          /\ stream'[Len(stream) + 1] = m
      BY <1>3, <2>1, <2>3, <2>4, Appended
    <3>2. Len(stream') <= StreamCap
      BY <1>3, <2>1, <2>4, <3>1, CapsAssumption
    <3>4. \A s \in Subtasks : Parted(Len(stream))'
      BY <1>3, <2>3, <3>1 DEF Parted
    <3>5. AgentInv'
      BY <1>1, <1>2, <2>1, <2>2, <3>1, <3>2 DEF AgentInv
    <3>6. PiecesInv'
      BY <1>1, <1>2, <1>3, <3>4 DEF PiecesInv
    <3> QED BY <3>5, <3>6
  <2>5. CASE ~open
    <3>1. stream' = stream
      BY <2>1, <2>5
    <3>2. AgentInv'
      BY <1>1, <1>2, <2>1, <2>2, <3>1 DEF AgentInv
    <3>3. PiecesInv'
      BY <1>1, <1>2, <1>3, <3>1 DEF PiecesInv, Parted
    <3> QED BY <3>2, <3>3
  <2> QED BY <2>4, <2>5
<1> QED BY <1>4, <1>5 DEF Agent!RelayStep

LEMMA BreakInv ==
  ASSUME AgentInv, PiecesInv, Agent!Break, UNCHANGED <<pc, stage, written>>
  PROVE  AgentInv' /\ PiecesInv'
<1>1. /\ open /\ open' = FALSE
      /\ UNCHANGED <<serve, source, got, offered, relay, unreported, failed, stream>>
      /\ \A s \in Subtasks : Requested(s)' <=> Requested(s)
  BY DEF Agent!Break, Requested
<1>2. AgentInv'
  BY <1>1 DEF AgentInv, Unread
<1>3. PiecesInv'
  BY <1>1 DEF PiecesInv, Parted
<1> QED BY <1>2, <1>3

\* The server takes the first message, and writes it if it is data.
LEMMA TakenInv ==
  ASSUME AgentInv, PiecesInv, NEW s \in Subtasks, Subtasks = {s}, Requested(s)',
         Agent!Taken(Tail(stream)), stream # <<>>, written[s] \in Nat,
         written'[s] = IF Head(stream).kind = "data" THEN written[s] + 1 ELSE written[s]
  PROVE  AgentInv' /\ PiecesInv'
<1>1. /\ UNCHANGED <<serve, source, got, offered, relay, unreported, failed, open>>
      /\ stream' = Tail(stream)
  BY DEF Agent!Taken
<1>2. /\ stream \in Seq(AgentMessages) /\ Len(stream) \in Nat /\ Len(stream) >= 1
      /\ stream' \in Seq(AgentMessages) /\ Len(stream') = Len(stream) - 1
      /\ Head(stream) = stream[1]
      /\ \A i \in 1..Len(stream') : stream'[i] = stream[i + 1]
  BY <1>1 DEF AgentInv
<1>3. AgentInv'
  <2>1. Len(stream') <= StreamCap /\ Unread' = Unread
    BY <1>1, <1>2, CapsAssumption DEF AgentInv, Unread
  <2>2. serve \notin {"none", "fetch"}
    BY <1>2 DEF AgentInv
  <2> QED BY <1>1, <1>2, <2>1, <2>2 DEF AgentInv
<1>4. CASE serve \in {"fetch", "offer", "join"}
  <2>1. written[s] = 0 /\ Parted(Len(stream))
    BY <1>4 DEF PiecesInv
  <2>2. Head(stream).kind = "progress" /\ Parted(Len(stream))'
    BY <1>2, <2>1 DEF Parted
  <2>3. PiecesInv'
    BY <1>1, <1>4, <2>1, <2>2 DEF PiecesInv
  <2> QED BY <1>3, <2>3
<1>5. CASE serve \in {"upload", "returned"} /\ open /\ ~failed
  <2>1. PICK n \in 0..Len(stream) :
           Parted(n) /\ written[s] + (Len(stream) - n) + got = ChunkSize
    BY <1>5 DEF PiecesInv
  <2>2. got \in Nat /\ n \in Nat
    BY SizesAssumption DEF AgentInv
  <2>3. CASE n = 0
    <3>a. \A i \in 1..Len(stream) : stream[i].kind = "data"
      BY <2>1, <2>3 DEF Parted
    <3>b. ASSUME NEW i \in 1..Len(stream') PROVE stream'[i].kind = "data"
      <4>1. i + 1 \in 1..Len(stream)
        BY <1>2
      <4> QED BY <1>2, <3>a, <4>1
    <3>1. Head(stream).kind = "data" /\ Parted(0)'
      <4>1. 1 \in 1..Len(stream)
        BY <1>2
      <4>2. Parted(0)'
        BY <3>b DEF Parted
      <4> QED BY <1>2, <3>a, <4>1, <4>2
    <3>2. 0 \in 0..Len(stream') /\ written'[s] + (Len(stream') - 0) + got' = ChunkSize
      BY <1>1, <1>2, <2>1, <2>2, <2>3, <3>1
    <3>3. PiecesInv'
      BY <1>1, <1>5, <3>1, <3>2 DEF PiecesInv
    <3> QED BY <1>3, <3>3
  <2>4. CASE n >= 1
    <3>1. Head(stream).kind = "progress"
      BY <1>2, <2>1, <2>4 DEF Parted
    <3>2. Parted(n - 1)'
      <4>1. ASSUME NEW i \in 1..Len(stream')
            PROVE  stream'[i].kind = (IF i <= n - 1 THEN "progress" ELSE "data")
        <5>1. i + 1 \in 1..Len(stream) /\ (i + 1 <= n <=> i <= n - 1)
          BY <1>2, <2>2
        <5> QED BY <1>2, <2>1, <5>1 DEF Parted
      <4> QED BY <4>1 DEF Parted
    <3>3. n - 1 \in 0..Len(stream') /\ written'[s] + (Len(stream') - (n - 1)) + got' = ChunkSize
      BY <1>1, <1>2, <2>1, <2>2, <2>4, <3>1
    <3>4. PiecesInv'
      BY <1>1, <1>5, <3>2, <3>3 DEF PiecesInv
    <3> QED BY <1>3, <3>4
  <2> QED BY <2>2, <2>3, <2>4
<1>6. CASE serve = "none" \/ (serve \in {"upload", "returned"} /\ ~(open /\ ~failed))
  <2>1. PiecesInv'
    BY <1>1, <1>6 DEF PiecesInv
  <2> QED BY <1>3, <2>1
<1> QED BY <1>4, <1>5, <1>6 DEF AgentInv

LEMMA ChunkLocalInv ==
  ASSUME Inv, AgentInv, PiecesInv, NEW s \in Subtasks, ChunkLocal(s)
  PROVE  AgentInv' /\ PiecesInv'
<1>1. UNCHANGED agentVars /\ UNCHANGED written
  BY DEF ChunkLocal, ExecuteLoop, GetAgent, ReleaseAgent, Notify, subVars
<1>2. pc \in [Subtasks -> Pool!PCs] /\ stage \in [Subtasks -> {"request", "recv", "report"}]
  BY DEF Inv, Pool!Inv, Pool!TypeOK, TaskTypeOK
<1>3. \A t \in Subtasks : Requested(t) => Requested(t)'
  <2>1. CASE ExecuteLoop(s)
    <3>1. UNCHANGED stage /\ (pc' = pc \/ (pc[s] = "idle" /\ pc' = [pc EXCEPT ![s] = "locking"]))
      BY <2>1 DEF ExecuteLoop, Pool!RunTask, poolVars
    <3> QED BY <1>2, <3>1 DEF Requested
  <2>2. CASE GetAgent(s)
    <3>1. /\ UNCHANGED stage /\ pc[s] = "locking"
          /\ pc' \in {[pc EXCEPT ![s] = "waiting"], [pc EXCEPT ![s] = "running"]}
      BY <2>2 DEF GetAgent, Pool!WaitForAgent, Pool!TakeAgent, subVars
    <3> QED BY <1>2, <3>1 DEF Requested
  <2>3. CASE ReleaseAgent(s)
    <3>1. /\ stage' = [stage EXCEPT ![s] = "request"] /\ pc[s] # "running"
          /\ pc' \in Pool!Signalled(Pool!Resumed(s)) \/ pc' = Pool!Resumed(s)
      BY <2>3 DEF ReleaseAgent, Pool!FreeAgent
    <3> QED BY <1>2, <3>1 DEF Requested, Pool!Signalled, Pool!Resumed
  <2>4. CASE Notify(s)
    BY <2>4 DEF Notify, Requested, poolVars
  <2> QED BY <2>1, <2>2, <2>3, <2>4 DEF ChunkLocal
<1> QED BY <1>1, <1>3, AgentKept

LEMMA ChunkRequestInv ==
  ASSUME Inv, AgentInv, PiecesInv, NEW s \in Subtasks, ChunkRequest(s)
  PROVE  AgentInv' /\ PiecesInv'
<1>1. Subtasks = {s}
  BY TheChunk
<1>2. pc \in [Subtasks -> Pool!PCs] /\ TaskTypeOK /\ pc[s] = "running" /\ stage[s] = "request"
  BY DEF Inv, Pool!Inv, Pool!TypeOK, ChunkRequest, RequestChunk
<1>3. serve = "none" /\ ~open /\ stream = <<>> /\ got = 0 /\ ~failed
      /\ offered = 0 /\ unreported = 0 /\ relay = "none" /\ Unread = 0
  BY <1>2 DEF AgentInv, Requested, Unread
<1>4. CASE pc'[s] = "running"
  <2>1. Agent!Called
    BY <1>4 DEF ChunkRequest
  <2>2. serve' = "fetch" /\ open' = TRUE
        /\ UNCHANGED <<source, got, offered, relay, unreported, failed, stream>>
    BY <2>1 DEF Agent!Called
  <2>3. written'[s] = 0 /\ stage'[s] = "recv"
    BY <1>2, <1>4 DEF ChunkRequest, RequestChunk, ReceiveLoop, Pool!TaskReturns, TaskTypeOK
  <2>4. Requested(s)'
    BY <1>4, <2>3 DEF Requested
  <2>5. Unread' = ChunkSize
    BY <2>2 DEF Unread
  <2>6. AgentInv'
    BY <1>1, <1>3, <2>2, <2>4, <2>5, SizesAssumption DEF AgentInv
  <2>7. PiecesInv'
    BY <1>1, <1>3, <2>2, <2>3 DEF PiecesInv, Parted
  <2> QED BY <2>6, <2>7
<1>5. CASE pc'[s] # "running"
  <2>1. UNCHANGED agentVars
    BY <1>5 DEF ChunkRequest
  <2>2. AgentInv'
    BY <1>1, <1>3, <2>1 DEF AgentInv, agentVars, Unread
  <2>3. PiecesInv'
    BY <1>3, <2>1 DEF PiecesInv, agentVars
  <2> QED BY <2>2, <2>3
<1> QED BY <1>4, <1>5

\* What the chunk's goroutine has in hand when it receives.
LEMMA Receiving ==
  ASSUME Inv, NEW s \in Subtasks, pc[s] = "running", stage[s] # "request"
  PROVE  /\ Subtasks = {s} /\ written[s] \in Nat
         /\ pc \in [Subtasks -> Pool!PCs] /\ TaskTypeOK /\ Pool!TypeOK
<1>1. Subtasks = {s}
  BY TheChunk
<1>2. SubtaskOK(s) /\ pc \in [Subtasks -> Pool!PCs] /\ TaskTypeOK /\ Pool!TypeOK
  BY DEF Inv, SubtaskInv, Pool!Inv, Pool!TypeOK
<1>3. written[s] \in Nat
  BY <1>2, SizesAssumption DEF SubtaskOK, Requested, TaskTypeOK
<1> QED BY <1>1, <1>2, <1>3

LEMMA ChunkDataInv ==
  ASSUME Inv, AgentInv, PiecesInv, NEW s \in Subtasks, ChunkData(s)
  PROVE  AgentInv' /\ PiecesInv'
<1>1. /\ pc[s] = "running" /\ stage[s] = "recv" /\ ReceiveLoop(s)
      /\ written' = [written EXCEPT ![s] = @ + 1]
      /\ stream # <<>> /\ Head(stream).kind = "data"
      /\ Hold(s, Tail(stream))
  BY DEF ChunkData, ReceiveData, Arrived
<1>2. /\ Subtasks = {s} /\ written[s] \in Nat
      /\ pc \in [Subtasks -> Pool!PCs] /\ TaskTypeOK /\ Pool!TypeOK
  BY <1>1, Receiving
<1>3. \/ pc' = pc /\ stage' = [stage EXCEPT ![s] = "recv"]
      \/ pc' = [pc EXCEPT ![s] = "failed"] /\ stage' = stage
  BY <1>1, <1>2, ReceiveLoopDoes
<1>4. CASE pc'[s] = "running"
  <2>1. Requested(s)' /\ written'[s] = written[s] + 1
    BY <1>1, <1>2, <1>3, <1>4 DEF Requested, TaskTypeOK
  <2>2. Agent!Taken(Tail(stream))
    BY <1>1, <1>4 DEF Hold
  <2> QED BY <1>1, <1>2, <2>1, <2>2, TakenInv
<1>5. CASE pc'[s] # "running"
  BY <1>1, <1>5, AgentClosed DEF Hold
<1> QED BY <1>4, <1>5

LEMMA ChunkProgressInv ==
  ASSUME Inv, AgentInv, PiecesInv, NEW s \in Subtasks, ChunkProgress(s)
  PROVE  AgentInv' /\ PiecesInv'
<1>1. /\ pc[s] = "running" /\ stage[s] = "recv" /\ UNCHANGED <<pc, written>>
      /\ stage' = [stage EXCEPT ![s] = "report"]
      /\ stream # <<>> /\ Head(stream).kind = "progress"
      /\ Hold(s, Tail(stream))
  BY DEF ChunkProgress, ReceiveProgress, Arrived, poolVars
<1>2. Subtasks = {s} /\ written[s] \in Nat /\ TaskTypeOK
  BY <1>1, Receiving
<1>3. Requested(s)' /\ written'[s] = written[s]
  BY <1>1, <1>2 DEF Requested, TaskTypeOK
<1>4. Agent!Taken(Tail(stream))
  BY <1>1 DEF Hold
<1> QED BY <1>1, <1>2, <1>3, <1>4, TakenInv

LEMMA ChunkReportInv ==
  ASSUME Inv, AgentInv, PiecesInv, NEW s \in Subtasks, ChunkReport(s)
  PROVE  AgentInv' /\ PiecesInv'
<1>1. /\ pc[s] = "running" /\ stage[s] = "report" /\ ReceiveLoop(s) /\ UNCHANGED written
      /\ Hold(s, stream)
  BY DEF ChunkReport, ReportProgress
<1>2. Subtasks = {s} /\ TaskTypeOK /\ Pool!TypeOK
  BY <1>1, Receiving
<1>3. \/ pc' = pc /\ stage' = [stage EXCEPT ![s] = "recv"]
      \/ pc' = [pc EXCEPT ![s] = "failed"] /\ stage' = stage
  BY <1>1, <1>2, ReceiveLoopDoes
<1>4. CASE pc'[s] = "running"
  <2>1. \A t \in Subtasks : Requested(t)'
    BY <1>1, <1>2, <1>3, <1>4 DEF Requested, TaskTypeOK
  <2>2. UNCHANGED agentVars
    BY <1>1, <1>4 DEF Hold, Agent!Taken, agentVars
  <2> QED BY <1>1, <2>1, <2>2, AgentKept
<1>5. CASE pc'[s] # "running"
  BY <1>1, <1>5, AgentClosed DEF Hold
<1> QED BY <1>4, <1>5

LEMMA ChunkStepInv ==
  ASSUME Inv, AgentInv, PiecesInv, NEW s \in Subtasks, ChunkStep(s)
  PROVE  AgentInv' /\ PiecesInv'
<1>1. CASE ChunkEnds(s)
  BY <1>1, AgentClosed DEF ChunkEnds
<1> QED BY <1>1, ChunkLocalInv, ChunkRequestInv, ChunkDataInv, ChunkProgressInv, ChunkReportInv
    DEF ChunkStep

\* Every other step leaves what the chunk's goroutine and the agent share alone.
LEMMA OthersKeepChunks ==
  ASSUME Inv, ReportStep \/ ExecStep \/ CallReturns \/ StreamCloses \/ ClientStep \/ ClientLost
              \/ Joins \/ UNCHANGED e2eVars
  PROVE  /\ UNCHANGED agentVars /\ UNCHANGED <<stage, written, attempt>> /\ UNCHANGED <<retryCount, call, reported>>
         /\ \A s \in Subtasks : pc'[s] = pc[s] \/ (pc[s] = "waiting" /\ pc'[s] = "locking")
<1>1. CASE ReportStep
  BY <1>1 DEF ReportStep, ReporterReceives, ReporterSends, ReporterExits, poolVars, subVars
<1>2. CASE ExecStep
  BY <1>2 DEF ExecStep, TaskStep, Begin, Collect, Combine, Validate, Transfer, Store, Finish,
     poolVars, subVars, linkVars, countVars
<1>3. CASE CallReturns \/ StreamCloses \/ ClientStep \/ ClientLost \/ UNCHANGED e2eVars
  BY <1>3 DEF CallReturns, StreamCloses, ClientLeaves, ClientStep, ClientLost, e2eVars, vars,
     poolVars, subVars, linkVars, countVars
<1>4. CASE Joins
  BY <1>4 DEF Joins, AgentJoins, Pool!AddAgent, Pool!Signalled, subVars, linkVars, countVars,
     Inv, Pool!Inv, Pool!TypeOK
<1> QED BY <1>1, <1>2, <1>3, <1>4

LEMMA AgentNext ==
  ASSUME Inv, AgentInv, PiecesInv, [E2ENext]_e2eVars
  PROVE  AgentInv' /\ PiecesInv'
<1>1. CASE AgentStep \/ Break
  <2>1. UNCHANGED <<pc, stage, written>>
    BY <1>1 DEF AgentStep, Break, vars, poolVars, subVars
  <2> QED BY <1>1, <2>1, FetchInv, OfferInv, JoinInv, UploadInv, RelayInv, BreakInv
      DEF AgentStep, Break, Agent!ServeStep
<1>2. CASE ReportStep \/ ExecStep \/ CallReturns \/ StreamCloses \/ ClientStep \/ ClientLost
           \/ Joins \/ UNCHANGED e2eVars
  <2>1. \A s \in Subtasks : Requested(s) => Requested(s)'
    BY <1>2, OthersKeepChunks DEF Requested
  <2> QED BY <1>2, <2>1, OthersKeepChunks, AgentKept
<1> QED BY <1>1, <1>2, ChunkStepInv DEF E2ENext, Running

LEMMA AgentInvariance == E2ESpec => [](AgentInv /\ PiecesInv)
  BY AgentInit, AgentNext, TaskInvariance, PTL DEF E2ESpec

\* reportProgress has returned before the chunk is sent (DownloadPart waits for
\* it, on every path to its loop of Sends).
THEOREM OneSender == E2ESpec => []NoConcurrentSend
<1>1. AgentInv => NoConcurrentSend
  BY DEF AgentInv, NoConcurrentSend, Agent!NoConcurrentSend
<1> QED BY <1>1, AgentInvariance, PTL

\* When the agent ends its stream without error, every piece has gone through
\* the stream and is in the target file, whatever was on the stream before.
THEOREM EofWhole == E2ESpec => []EofMeansWhole
<1>1. Inv /\ AgentInv /\ PiecesInv => EofMeansWhole
  <2> SUFFICES ASSUME Inv, AgentInv, PiecesInv, NEW s \in Subtasks,
                      pc[s] = "running", stage[s] = "recv", Agent!AtEnd
               PROVE  written[s] = ChunkSize
    BY DEF EofMeansWhole
  <2>1. serve = "returned" /\ ~failed /\ open /\ Len(stream) = 0 /\ got = 0
    BY DEF Agent!AtEnd, AgentInv
  <2>2. PICK n \in 0..Len(stream) : written[s] + (Len(stream) - n) + got = ChunkSize
    BY <2>1 DEF PiecesInv
  <2>3. written[s] \in Nat
    BY Receiving
  <2> QED BY <2>1, <2>2, <2>3
<1> QED BY <1>1, AgentInvariance, TaskInvariance, PTL

-----------------------------------------------------------------------------
(* The task's error and the client.                                        *)

\* While the client is there, the quit flag stands for a failure of the task, or of a
\* subtask that the task goroutine has collected, and the file is not sent.
QuitInv ==
  quitFlag =>
    \/ ~client
    \/ /\ delivered = "none"
       /\ \/ exec \in {"closing", "done"}
          \/ \E s \in Subtasks : sub[s] = "finished" /\ s \notin finishChan /\ subErr[s]

LEMMA QuitInit == E2EInit => QuitInv
  BY DEF E2EInit, Init, QuitInv

LEMMA QuitKept ==
  ASSUME QuitInv, UNCHANGED <<quitFlag, client, delivered, exec>>,
         \A s \in Subtasks : sub[s] = "finished" /\ s \notin finishChan /\ subErr[s] =>
           sub'[s] = "finished" /\ s \notin finishChan' /\ subErr'[s]
  PROVE  QuitInv'
  BY DEF QuitInv

LEMMA QuitSubtask == ASSUME Inv, QuitInv, NEW s \in Subtasks, SubtaskStep(s) PROVE QuitInv'
<1>1. TaskTypeOK /\ SubtaskOK(s) /\ UNCHANGED <<quitFlag, client, delivered, exec>>
  BY DEF Inv, SubtaskInv, SubtaskStep, ExecuteLoop, GetAgent, RequestChunk, ReceiveData,
     ReceiveProgress, ReportProgress, StreamEnds, ReleaseAgent, Notify, resultVars
<1>2. CASE GetAgent(s) \/ RequestChunk(s) \/ ReceiveData(s) \/ ReceiveProgress(s)
           \/ ReportProgress(s) \/ StreamEnds(s)
  <2>1. UNCHANGED <<sub, subErr, finishChan>>
    BY <1>2 DEF GetAgent, RequestChunk, ReceiveData, ReceiveProgress, ReportProgress, StreamEnds,
       subVars
  <2> QED BY <1>1, <2>1, QuitKept
<1>3. CASE ExecuteLoop(s) \/ Notify(s)
  <2>1. /\ sub[s] # "finished" /\ UNCHANGED subErr /\ finishChan' \subseteq finishChan \cup {s}
        /\ \A t \in Subtasks \ {s} : sub'[t] = sub[t]
    BY <1>1, <1>3 DEF ExecuteLoop, Notify, TaskTypeOK
  <2> QED BY <1>1, <2>1, QuitKept
<1>4. CASE ReleaseAgent(s)
  <2>1. sub[s] # "finished"
    BY <1>1, <1>4 DEF ReleaseAgent, Pool!FreeAgent, SubtaskOK
  <2>2. /\ UNCHANGED finishChan
        /\ \A t \in Subtasks \ {s} : sub'[t] = sub[t] /\ subErr'[t] = subErr[t]
    BY <1>1, <1>4 DEF ReleaseAgent, TaskTypeOK
  <2> QED BY <1>1, <2>1, <2>2, QuitKept
<1> QED BY <1>2, <1>3, <1>4 DEF SubtaskStep

LEMMA QuitTask == ASSUME Inv, QuitInv, TaskStep PROVE QuitInv'
<1>1. PhaseInv /\ TaskTypeOK
  BY DEF Inv
<1>2. CASE Begin
  <2>1. delivered' = "none" /\ UNCHANGED <<client, finishChan, subErr>> /\ Before
    BY <1>1, <1>2 DEF Begin, PhaseInv, TaskTypeOK, resultVars
  <2>2. CASE exec' = "done"
    BY <2>1, <2>2 DEF QuitInv
  <2>3. CASE UNCHANGED quitFlag
    <3>1. quitFlag => ~client
      BY <1>2, <2>1 DEF Begin, QuitInv, Before
    <3> QED BY <2>1, <2>3, <3>1 DEF QuitInv
  <2> QED BY <1>2, <2>2, <2>3 DEF Begin
<1>3. ASSUME NEW s \in Subtasks, Collect(s) PROVE QuitInv'
  <2>1. /\ UNCHANGED <<client, delivered, sub, subErr>> /\ s \in finishChan
        /\ finishChan' = finishChan \ {s} /\ quitFlag' = (quitFlag \/ subErr[s])
        /\ exec = "collecting" /\ delivered = "none" /\ sub[s] = "finished"
    BY <1>1, <1>3 DEF Collect, resultVars, PhaseInv, TaskTypeOK, Inv, SubtaskInv, SubtaskOK
  <2>2. CASE subErr[s]
    BY <2>1, <2>2 DEF QuitInv
  <2>3. CASE ~subErr[s]
    <3>1. quitFlag' = quitFlag
      BY <1>1, <2>1, <2>3 DEF TaskTypeOK
    <3> QED BY <2>1, <3>1 DEF QuitInv
  <2> QED BY <2>2, <2>3
<1>4. CASE Combine \/ Validate \/ Transfer
  <2>1. /\ UNCHANGED <<client, sub, subErr, finishChan>>
        /\ \A s \in Subtasks : ~subErr[s]
        /\ delivered = "none" /\ exec \notin {"closing", "done"}
    BY <1>1, <1>4 DEF Combine, Validate, Transfer, subVars, PhaseInv, TaskTypeOK
  <2>2. CASE Fail
    BY <2>1, <2>2 DEF Fail, QuitInv, resultVars
  <2>3. CASE quitFlag' = quitFlag
    BY <2>1, <2>3 DEF QuitInv
  <2> QED BY <1>4, <2>2, <2>3 DEF Combine, Validate, Transfer
<1>5. CASE Store \/ Finish
  BY <1>5 DEF Store, Finish, QuitInv, subVars, resultVars
<1> QED BY <1>2, <1>3, <1>4, <1>5 DEF TaskStep

LEMMA QuitNext == ASSUME Inv, QuitInv, [Next]_vars PROVE QuitInv'
<1>1. CASE ReporterStep
  <2>1. UNCHANGED <<client, delivered, exec, sub, subErr, finishChan>>
    BY <1>1 DEF ReporterStep, ReporterReceives, ReporterSends, ReporterExits, subVars, resultVars
  <2>2. CASE client
    <3>1. quitFlag' = quitFlag
      BY <1>1, <2>2 DEF ReporterStep, ReporterReceives, ReporterSends, ReporterExits,
         Inv, TaskTypeOK
    <3> QED BY <2>1, <3>1 DEF QuitInv
  <2> QED BY <2>1, <2>2 DEF QuitInv
<1>2. CASE AgentJoins \/ AgentLeaves \/ ClientLeaves \/ UNCHANGED vars
  BY <1>2 DEF AgentJoins, AgentLeaves, ClientLeaves, vars, subVars, resultVars, QuitInv
<1> QED BY <1>1, <1>2, QuitSubtask, QuitTask DEF Next

\* The amounts on their way, and the client's messages.
AmountsInv ==
  /\ reported \in 0..ChunkSize
  /\ amounts \in Seq(Nat) /\ Len(amounts) = progress
  /\ counted \in Nat

LEMMA AmountsInit == E2EInit => AmountsInv
  BY Empty DEF E2EInit, Init, AmountsInv

LEMMA AmountsNext ==
  ASSUME Inv, AgentInv, AmountsInv, [E2ENext]_e2eVars
  PROVE  AmountsInv' /\ counted' >= counted
<1>1. CASE UNCHANGED <<countVars, progress>>
  BY <1>1 DEF countVars, AmountsInv
<1>2. ASSUME NEW s \in Subtasks, ChunkLocal(s) \/ ChunkRequest(s) \/ ChunkData(s) \/ ChunkEnds(s)
      PROVE  UNCHANGED <<countVars, progress>>
  BY <1>2 DEF ChunkLocal, ChunkRequest, ChunkData, ChunkEnds, linkVars, ExecuteLoop, GetAgent,
     ReleaseAgent, Notify, RequestChunk, ReceiveData, StreamEnds, reportVars
<1>3. ASSUME NEW s \in Subtasks, ChunkProgress(s) PROVE AmountsInv' /\ counted' >= counted
  <2>1. /\ UNCHANGED <<progress, amounts, counted>> /\ reported' = Head(stream).value
        /\ stream # <<>> /\ Head(stream).kind = "progress"
    BY <1>3 DEF ChunkProgress, ReceiveProgress, Arrived, reportVars
  <2>2. Head(stream) \in AgentMessages
    BY <2>1 DEF AgentInv
  <2>3. reported' \in 0..ChunkSize
    BY <2>1, <2>2 DEF AgentMessages
  <2> QED BY <2>1, <2>3 DEF AmountsInv
<1>4. ASSUME NEW s \in Subtasks, ChunkReport(s) PROVE AmountsInv' /\ counted' >= counted
  BY <1>4, SizesAssumption DEF ChunkReport, ReportProgress, AmountsInv
<1>5. CASE ReportStep
  <2>1. CASE ReporterReceives /\ amounts' = Tail(amounts) /\ counted' = Counted
    <3>1. /\ progress > 0 /\ progress' = progress - 1 /\ reported' = reported
      BY <1>5, <2>1 DEF ReportStep, ReporterReceives
    <3>2. amounts # <<>> /\ Head(amounts) \in Nat
      BY <3>1 DEF AmountsInv
    <3> QED BY <2>1, <3>1, <3>2 DEF AmountsInv, Counted
  <2>2. CASE UNCHANGED <<countVars, progress>>
    BY <2>2, <1>1
  <2> QED BY <1>5, <2>1, <2>2 DEF ReportStep, ReporterSends, ReporterExits, countVars
<1>6. CASE AgentStep \/ Break \/ CallReturns \/ ClientStep \/ ClientLost \/ UNCHANGED e2eVars
  BY <1>1, <1>6 DEF AgentStep, Break, CallReturns, ClientStep, ClientLost, e2eVars, linkVars,
     vars, reportVars
<1>7. CASE StreamCloses \/ Joins
  BY <1>1, <1>7 DEF StreamCloses, Joins, ClientLeaves, AgentJoins, linkVars, reportVars
<1>8. CASE ExecStep
  BY <1>1, <1>8 DEF ExecStep, TaskStep, Begin, Collect, Combine, Validate, Transfer, Store, Finish,
     linkVars, reportVars
<1> QED BY <1>1, <1>2, <1>3, <1>4, <1>5, <1>6, <1>7, <1>8 DEF E2ENext, Running, ChunkStep

\* A message to the client; no progress message is ahead of the count.
ClientMessages ==
  [kind : {"pending", "validating"}, value : {0}] \cup [kind : {"progress"}, value : 0..counted]
    \cup [kind : {"data"}, value : {"good", "bad", "part"}]

ClientTypes ==
  /\ inbox \in Seq(ClientMessages)
  /\ ending \in {"open", "ok", "error"}
  /\ phase \in {"receiving", "completed", "failed", "panicked"}
  /\ output \in {"none", "empty", "part", "good", "bad"}
  /\ resp.kind \in Client!Kinds /\ resp.value \in 0..counted

DataIn(i) == inbox[i].kind = "data"

\* The file is in one place: still to be sent, in the inbox, or in the output file.
ClientFlow ==
  /\ ending # "open" => exec = "done"
  /\ ending = "ok" => delivered # "none"
  /\ ~client => phase # "receiving" \/ ending # "open"
  /\ phase = "completed" => ending = "ok" /\ (output = "good" \/ (output = "bad" /\ ~checksum))
  /\ phase = "receiving" /\ exec \notin {"storing", "closing", "done"} =>
       output \in {"none", "empty"} /\ \A i \in 1..Len(inbox) : ~DataIn(i)
  /\ phase = "receiving" /\ delivered # "none" =>
       /\ \A i \in 1..Len(inbox) : DataIn(i) => inbox[i].value = delivered
       /\ output = delivered \/ \E i \in 1..Len(inbox) : DataIn(i)
  /\ ending = "error" /\ delivered # "none" => phase \notin {"receiving", "completed"}

ClientInv == ClientTypes /\ ClientFlow

LEMMA ClientInit == E2EInit => ClientInv
<1> SUFFICES ASSUME E2EInit PROVE ClientInv
  OBVIOUS
<1>1. /\ counted = 0 /\ exec = "start" /\ client = TRUE /\ delivered = "none"
      /\ inbox = <<[kind |-> "pending", value |-> 0]>> /\ resp = [kind |-> "pending", value |-> 0]
      /\ ending = "open" /\ phase = "receiving" /\ output = "none"
  BY DEF E2EInit, Init, Client!Init, Client!Pending
<1>2. [kind |-> "pending", value |-> 0] \in ClientMessages
  BY DEF ClientMessages
<1>3. inbox \in Seq(ClientMessages) /\ Len(inbox) = 1 /\ inbox[1].kind = "pending"
  BY <1>1, <1>2
<1>4. ClientTypes
  BY <1>1, <1>3 DEF ClientTypes, Client!Kinds
<1>5. ClientFlow
  BY <1>1, <1>3 DEF ClientFlow, DataIn
<1> QED BY <1>4, <1>5 DEF ClientInv

\* The client and what it depends on do not move; the count may grow.
LEMMA ClientKept ==
  ASSUME ClientInv, AmountsInv, AmountsInv', counted' >= counted,
         UNCHANGED <<clientVars, exec, delivered, client, checksum>>
  PROVE  ClientInv'
<1>1. ClientMessages \subseteq ClientMessages'
  BY DEF ClientMessages, AmountsInv
<1>2. inbox' \in Seq(ClientMessages')
  BY <1>1, SeqMonotonic DEF ClientInv, ClientTypes, clientVars
<1>3. ClientTypes'
  BY <1>2 DEF ClientInv, ClientTypes, clientVars, AmountsInv
<1>4. ClientFlow'
  BY DEF ClientInv, ClientFlow, clientVars, DataIn
<1> QED BY <1>3, <1>4 DEF ClientInv

\* The server sends one message, or none.
LEMMA SendOne ==
  ASSUME ClientTypes, NEW m \in ClientMessages, Send(<<m>>)
  PROVE  IF client /\ phase = "receiving"
         THEN /\ inbox' \in Seq(ClientMessages) /\ Len(inbox') = Len(inbox) + 1
              /\ \A i \in 1..Len(inbox) : inbox'[i] = inbox[i]
              /\ inbox'[Len(inbox) + 1] = m
         ELSE inbox' = inbox
<1>1. CASE client /\ phase = "receiving"
  <2>1. inbox' = Append(inbox, m)
    BY <1>1, AppendIsConcat DEF Send, ClientTypes
  <2> QED BY <1>1, <2>1, AppendProperties DEF ClientTypes
<1>2. CASE ~(client /\ phase = "receiving")
  BY <1>2 DEF Send
<1> QED BY <1>1, <1>2

LEMMA SendNone == ASSUME ClientTypes, Send(<<>>) PROVE inbox' = inbox
  BY ConcatEmptySeq DEF Send, ClientTypes

LEMMA ClientReport ==
  ASSUME ClientInv, AmountsInv, AmountsInv', counted' >= counted, ReportStep
  PROVE  ClientInv'
<1>1. /\ UNCHANGED <<ending, phase, output, resp>>
      /\ UNCHANGED <<exec, delivered, client, checksum>>
  BY DEF ReportStep, KeepClient, ReporterReceives, ReporterSends, ReporterExits, resultVars
<1>2. CASE UNCHANGED inbox
  BY <1>1, <1>2, ClientKept DEF clientVars
<1>3. CASE Send(<<[kind |-> "progress", value |-> counted]>>) /\ UNCHANGED counted
  <2> DEFINE m == [kind |-> "progress", value |-> counted]
  <2>1. m \in ClientMessages /\ m.kind # "data"
    BY DEF ClientMessages, AmountsInv
  <2> HIDE DEF m
  <2>2. CASE inbox' = inbox
    BY <1>2, <2>2
  <2>3. CASE /\ inbox' \in Seq(ClientMessages) /\ Len(inbox') = Len(inbox) + 1
             /\ \A i \in 1..Len(inbox) : inbox'[i] = inbox[i]
             /\ inbox'[Len(inbox) + 1] = m
    <3>1. ClientMessages' = ClientMessages /\ Len(inbox) \in Nat
      BY <1>3 DEF ClientMessages, ClientInv, ClientTypes
    <3>2. ClientTypes'
      BY <1>1, <1>3, <2>3, <3>1 DEF ClientInv, ClientTypes
    <3>3. /\ \A i \in 1..Len(inbox) : DataIn(i)' <=> DataIn(i)
          /\ \A i \in 1..Len(inbox') : DataIn(i)' => i \in 1..Len(inbox)
      BY <2>1, <2>3, <3>1 DEF DataIn
    <3>4. \A i \in 1..Len(inbox) : i \in 1..Len(inbox')
      BY <2>3, <3>1
    <3>5. ClientFlow'
      BY <1>1, <2>3, <3>3, <3>4 DEF ClientInv, ClientFlow
    <3> QED BY <3>2, <3>5 DEF ClientInv
  <2>4. Send(<<m>>)
    BY <1>3 DEF m
  <2> QED BY <2>1, <2>2, <2>3, <2>4, SendOne DEF ClientInv
<1> QED BY <1>2, <1>3 DEF ReportStep

LEMMA ClientExec ==
  ASSUME Inv, ClientInv, AmountsInv, AmountsInv', ExecStep
  PROVE  ClientInv'
<1>1. UNCHANGED <<ending, phase, output, resp, counted>> /\ UNCHANGED <<client, checksum>>
  BY DEF ExecStep, KeepClient, linkVars, countVars, TaskStep, Begin, Collect, Combine,
     Validate, Transfer, Store, Finish
<1>2. ClientMessages' = ClientMessages /\ Len(inbox) \in Nat
  BY <1>1 DEF ClientMessages, ClientInv, ClientTypes
<1>3. CASE Begin \/ (\E s \in Subtasks : Collect(s)) \/ Combine \/ Store \/ Finish
  <2>1. /\ exec \notin {"validating", "transferring", "done"} /\ delivered' = delivered
        /\ exec \in {"storing", "closing", "done"} => exec' \in {"storing", "closing", "done"}
    BY <1>3 DEF Begin, Collect, Combine, Store, Finish, Fail, resultVars
  <2>2. inbox' = inbox
    BY <2>1, SendNone DEF ExecStep, Sendings, ClientInv
  <2>3. ClientTypes'
    BY <1>1, <1>2, <2>2 DEF ClientInv, ClientTypes
  <2>4. ClientFlow'
    BY <1>1, <2>1, <2>2 DEF ClientInv, ClientFlow, DataIn
  <2> QED BY <2>3, <2>4 DEF ClientInv
<1>4. CASE Validate
  <2> DEFINE m == [kind |-> "validating", value |-> 0]
  <2>1. /\ exec = "validating" /\ delivered' = delivered /\ Send(<<m>>)
    BY <1>4 DEF Validate, Fail, resultVars, ExecStep, Sendings
  <2>2. m \in ClientMessages /\ m.kind # "data"
    BY DEF ClientMessages
  <2> HIDE DEF m
  <2>3. IF client /\ phase = "receiving"
        THEN /\ inbox' \in Seq(ClientMessages) /\ Len(inbox') = Len(inbox) + 1
             /\ \A i \in 1..Len(inbox) : inbox'[i] = inbox[i]
             /\ inbox'[Len(inbox) + 1] = m
        ELSE inbox' = inbox
    BY <2>1, <2>2, SendOne DEF ClientInv
  <2>4. ClientTypes'
    BY <1>1, <1>2, <2>3 DEF ClientInv, ClientTypes
  <2>5. delivered = "none"
    BY <2>1 DEF Inv, PhaseInv, TaskTypeOK
  <2>6. ClientFlow'
    BY <1>1, <1>2, <2>1, <2>2, <2>3, <2>5 DEF ClientInv, ClientFlow, DataIn
  <2> QED BY <2>4, <2>6 DEF ClientInv
<1>5. CASE Transfer /\ delivered' # "none"
  <2> DEFINE m == [kind |-> "data", value |-> delivered']
  <2>1. /\ exec = "transferring" /\ exec' = "storing" /\ client /\ delivered = "none"
        /\ delivered' \in {"good", "bad"}
    BY <1>5 DEF Transfer, Fail, Content, resultVars, Inv, PhaseInv, TaskTypeOK
  <2>2. m \in ClientMessages /\ m.kind = "data" /\ m.value = delivered'
    BY <2>1 DEF ClientMessages
  <2>3. Send(<<m>>)
    BY <1>5, <2>1 DEF ExecStep, Sendings
  <2> HIDE DEF m
  <2>4. IF client /\ phase = "receiving"
        THEN /\ inbox' \in Seq(ClientMessages) /\ Len(inbox') = Len(inbox) + 1
             /\ \A i \in 1..Len(inbox) : inbox'[i] = inbox[i]
             /\ inbox'[Len(inbox) + 1] = m
        ELSE inbox' = inbox
    BY <2>2, <2>3, SendOne DEF ClientInv
  <2>5. ClientTypes'
    BY <1>1, <1>2, <2>4 DEF ClientInv, ClientTypes
  <2>6. ClientFlow'
    <3>1. CASE phase = "receiving"
      <4>1. /\ Len(inbox') = Len(inbox) + 1
            /\ inbox'[Len(inbox) + 1].kind = "data"
            /\ inbox'[Len(inbox) + 1].value = delivered'
            /\ \A i \in 1..Len(inbox) : inbox'[i].kind # "data"
        BY <2>1, <2>2, <2>4, <3>1 DEF ClientInv, ClientFlow, DataIn
      <4>2. \A i \in 1..Len(inbox') : DataIn(i)' => i = Len(inbox) + 1
        BY <1>2, <4>1 DEF DataIn
      <4>3. Len(inbox) + 1 \in 1..Len(inbox')
        BY <1>2, <4>1
      <4>4. \E i \in 1..Len(inbox') : DataIn(i)'
        BY <4>1, <4>3 DEF DataIn
      <4>5. ending = "open"
        BY <2>1 DEF ClientInv, ClientFlow, ClientTypes
      <4> QED BY <1>1, <2>1, <3>1, <4>1, <4>2, <4>4, <4>5 DEF ClientInv, ClientFlow
    <3>2. CASE phase # "receiving"
      BY <1>1, <2>1, <2>4, <3>2 DEF ClientInv, ClientFlow
    <3> QED BY <3>1, <3>2
  <2> QED BY <2>5, <2>6 DEF ClientInv
<1>6. CASE Transfer /\ delivered' = "none"
  <2> DEFINE m == [kind |-> "data", value |-> "part"]
  <2>1. exec = "transferring" /\ exec' = "closing" /\ delivered = "none"
    BY <1>6 DEF Transfer, Fail, Content, resultVars, Inv, PhaseInv, TaskTypeOK
  <2>2. m \in ClientMessages
    BY DEF ClientMessages
  <2>3. Send(<<m>>) \/ Send(<<>>)
    BY <1>6, <2>1 DEF ExecStep, Sendings
  <2> HIDE DEF m
  <2>4. inbox' \in Seq(ClientMessages)
    BY <2>2, <2>3, SendOne, SendNone DEF ClientInv, ClientTypes
  <2>5. ClientTypes'
    BY <1>1, <1>2, <2>4 DEF ClientInv, ClientTypes
  <2>6. ClientFlow'
    BY <1>1, <1>6, <2>1 DEF ClientInv, ClientFlow
  <2> QED BY <2>5, <2>6 DEF ClientInv
<1> QED BY <1>3, <1>4, <1>5, <1>6 DEF ExecStep, TaskStep

LEMMA ClientCall ==
  ASSUME Inv, QuitInv, ClientInv, AmountsInv, CallReturns \/ StreamCloses
  PROVE  ClientInv'
<1>1. /\ UNCHANGED <<inbox, phase, output, resp, counted>> /\ UNCHANGED <<exec, delivered, checksum, quitFlag>>
  BY DEF CallReturns, StreamCloses, ClientLeaves, vars, clientVars, linkVars, countVars, resultVars
<1>2. ClientMessages' = ClientMessages
  BY <1>1 DEF ClientMessages
<1>3. CASE CallReturns
  <2>1. /\ exec = "done" /\ ending = "open" /\ client' = client
        /\ ending' = IF quitFlag THEN "error" ELSE "ok"
    BY <1>3 DEF CallReturns, vars
  <2>2. ClientTypes'
    BY <1>1, <1>2, <2>1 DEF ClientInv, ClientTypes
  <2>3. phase # "completed"
    BY <2>1 DEF ClientInv, ClientFlow
  <2>4. CASE quitFlag
    <3>1. delivered # "none" => phase # "receiving"
      BY <2>1, <2>4 DEF QuitInv, ClientInv, ClientFlow
    <3>2. ClientFlow'
      BY <1>1, <2>1, <2>3, <2>4, <3>1 DEF ClientInv, ClientFlow, DataIn
    <3> QED BY <2>2, <3>2 DEF ClientInv
  <2>5. CASE ~quitFlag
    <3>1. delivered # "none"
      BY <2>1, <2>5 DEF Inv, PhaseInv
    <3>2. ClientFlow'
      BY <1>1, <2>1, <2>3, <2>5, <3>1 DEF ClientInv, ClientFlow, DataIn
    <3> QED BY <2>2, <3>2 DEF ClientInv
  <2> QED BY <2>4, <2>5
<1>4. CASE StreamCloses
  <2>1. (phase # "receiving" \/ ending # "open") /\ ending' = ending
    BY <1>4 DEF StreamCloses, clientVars
  <2>2. ClientTypes'
    BY <1>1, <1>2, <2>1 DEF ClientInv, ClientTypes
  <2>3. ClientFlow'
    BY <1>1, <2>1 DEF ClientInv, ClientFlow, DataIn
  <2> QED BY <2>2, <2>3 DEF ClientInv
<1> QED BY <1>3, <1>4

LEMMA ClientExits ==
  ASSUME Inv, ClientInv, AmountsInv, NEW how \in {"completed", "failed", "panicked"}, Client!Exits(how),
         phase = "receiving", how = "completed" => ending = "ok" /\ inbox = <<>>,
         UNCHANGED <<exec, delivered, client, checksum, counted>>
  PROVE  ClientInv'
<1>1. /\ phase' = how /\ inbox' = <<>> /\ resp' = [kind |-> "pending", value |-> 0]
      /\ UNCHANGED <<ending, output>>
  BY DEF Client!Exits, Client!Pending
<1>2. 0 \in 0..counted
  BY DEF AmountsInv
<1>3. ClientTypes'
  BY <1>1, <1>2 DEF ClientInv, ClientTypes, Client!Kinds
<1>4. how = "completed" => output = "good" \/ (output = "bad" /\ ~checksum)
  <2> SUFFICES ASSUME how = "completed" PROVE output = "good" \/ (output = "bad" /\ ~checksum)
    OBVIOUS
  <2>1. delivered # "none" /\ Len(inbox) = 0
    BY DEF ClientInv, ClientFlow
  <2>2. output = delivered
    BY <2>1 DEF ClientInv, ClientFlow
  <2> QED BY <2>1, <2>2 DEF Inv, PhaseInv, TaskTypeOK
<1>5. ClientFlow'
  BY <1>1, <1>4 DEF ClientInv, ClientFlow
<1> QED BY <1>3, <1>5 DEF ClientInv

LEMMA ClientReceives ==
  ASSUME ClientInv, AmountsInv, Client!Receive, phase' = phase,
         UNCHANGED <<exec, delivered, client, checksum, counted>>
  PROVE  ClientInv'
<1> DEFINE m == Head(inbox)
<1>1. /\ phase = "receiving" /\ inbox # <<>> /\ inbox' = Tail(inbox)
      /\ resp' = [m EXCEPT !.value = IF m.kind = "progress" THEN @ ELSE 0]
      /\ output' = IF m.kind = "data" THEN m.value
                   ELSE IF output = "none" THEN "empty" ELSE output
      /\ UNCHANGED ending
  BY DEF Client!Receive, Client!Exits
<1>2. /\ m \in ClientMessages /\ Len(inbox) \in Nat /\ Len(inbox) >= 1 /\ m = inbox[1]
      /\ inbox' \in Seq(ClientMessages) /\ Len(inbox') = Len(inbox) - 1
      /\ \A i \in 1..Len(inbox') : inbox'[i] = inbox[i + 1]
  BY <1>1 DEF ClientInv, ClientTypes
<1> HIDE DEF m
<1>3. /\ m.kind \in Client!Kinds
      /\ m.kind = "progress" => m.value \in 0..counted
      /\ m.kind = "data" => m.value \in {"good", "bad", "part"}
  BY <1>2 DEF ClientMessages, Client!Kinds
<1>4. resp'.kind \in Client!Kinds /\ resp'.value \in 0..counted
  <2>1. 0 \in 0..counted
    BY DEF AmountsInv
  <2>2. resp'.kind = m.kind /\ resp'.value = IF m.kind = "progress" THEN m.value ELSE 0
    BY <1>1, <1>2 DEF ClientMessages
  <2> QED BY <1>3, <2>1, <2>2
<1>5. ClientMessages' = ClientMessages
  BY DEF ClientMessages
<1>6. ClientTypes'
  BY <1>1, <1>2, <1>3, <1>4, <1>5 DEF ClientInv, ClientTypes
<1>7. \A i \in 1..Len(inbox') : i + 1 \in 1..Len(inbox) /\ inbox'[i] = inbox[i + 1]
  BY <1>2
<1>8. CASE m.kind = "data"
  <2>1. 1 \in 1..Len(inbox) /\ DataIn(1)
    BY <1>2, <1>8 DEF DataIn
  <2>2. exec \in {"storing", "closing", "done"} /\ (delivered # "none" => output' = delivered)
    BY <1>1, <1>2, <1>8, <2>1 DEF ClientInv, ClientFlow
  <2>3. delivered # "none" => \A i \in 1..Len(inbox') : DataIn(i)' => inbox'[i].value = delivered
    BY <1>1, <1>7 DEF ClientInv, ClientFlow, DataIn
  <2>4. ClientFlow'
    BY <1>1, <2>2, <2>3 DEF ClientInv, ClientFlow
  <2> QED BY <1>6, <2>4 DEF ClientInv
<1>9. CASE m.kind # "data"
  <2>1. \A i \in 1..Len(inbox) : DataIn(i) => i - 1 \in 1..Len(inbox') /\ inbox'[i - 1] = inbox[i]
    BY <1>2, <1>9 DEF DataIn
  <2>2. /\ (\A i \in 1..Len(inbox) : ~DataIn(i)) => \A i \in 1..Len(inbox') : ~DataIn(i)'
        /\ (\E i \in 1..Len(inbox) : DataIn(i)) => \E i \in 1..Len(inbox') : DataIn(i)'
    BY <1>7, <2>1 DEF DataIn
  <2>3. /\ output \in {"none", "empty"} => output' \in {"none", "empty"}
        /\ output \notin {"none"} => output' = output
    BY <1>1, <1>9
  <2>4. delivered # "none" =>
          /\ \A i \in 1..Len(inbox') : DataIn(i)' => inbox'[i].value = delivered
          /\ output' = delivered \/ \E i \in 1..Len(inbox') : DataIn(i)'
    BY <1>1, <1>7, <2>2, <2>3 DEF ClientInv, ClientFlow, DataIn
  <2>5. ClientFlow'
    BY <1>1, <2>2, <2>3, <2>4 DEF ClientInv, ClientFlow
  <2> QED BY <1>6, <2>5 DEF ClientInv
<1> QED BY <1>8, <1>9

LEMMA ClientMoves ==
  ASSUME Inv, ClientInv, AmountsInv, ClientStep \/ ClientLost
  PROVE  ClientInv'
<1>1. UNCHANGED <<exec, delivered, client, checksum, counted>>
  BY DEF ClientStep, ClientLost, vars, resultVars, linkVars, countVars
<1>2. phase = "receiving"
  BY DEF ClientStep, ClientLost, Client!ClientStep, Client!Receive, Client!EndReceived,
     Client!RenderPanics, Client!Lost
<1>3. \/ Client!Receive /\ phase' = phase
      \/ Client!Exits("failed") \/ Client!Exits("panicked")
      \/ Client!Exits("completed") /\ ending = "ok" /\ inbox = <<>>
  BY DEF ClientStep, ClientLost, Client!ClientStep, Client!Receive, Client!EndReceived,
     Client!RenderPanics, Client!Lost
<1> QED BY <1>1, <1>2, <1>3, ClientExits, ClientReceives

LEMMA ClientNext ==
  ASSUME Inv, QuitInv, ClientInv, AmountsInv, AmountsInv', counted' >= counted, [E2ENext]_e2eVars
  PROVE  ClientInv'
<1>1. ASSUME NEW s \in Subtasks, ChunkStep(s)
      PROVE  UNCHANGED <<clientVars, exec, delivered, client, checksum>>
  <2>1. UNCHANGED clientVars
    BY <1>1 DEF ChunkStep, ChunkLocal, ChunkRequest, ChunkData, ChunkProgress, ChunkReport, ChunkEnds
  <2>2. SubtaskStep(s)
    BY <1>1, ChunkStepRefines
  <2> QED BY <2>1, <2>2 DEF SubtaskStep, ExecuteLoop, GetAgent, RequestChunk, ReceiveData,
       ReceiveProgress, ReportProgress, StreamEnds, ReleaseAgent, Notify, resultVars
<1>2. CASE AgentStep \/ Break \/ Joins \/ UNCHANGED e2eVars
  <2>1. UNCHANGED <<clientVars, exec, delivered, client, checksum>>
    BY <1>2 DEF AgentStep, Break, Joins, AgentJoins, vars, resultVars, e2eVars
  <2> QED BY <2>1, ClientKept
<1> QED BY <1>1, <1>2, ClientKept, ClientReport, ClientExec, ClientCall, ClientMoves
    DEF E2ENext, Running

LEMMA ClientInvariance == E2ESpec => [](QuitInv /\ AmountsInv /\ ClientInv)
<1> DEFINE I == QuitInv /\ AmountsInv /\ ClientInv
<1>1. E2EInit => I
  BY QuitInit, AmountsInit, ClientInit
<1>2. Inv /\ AgentInv /\ I /\ [E2ENext]_e2eVars => I'
  BY StepRefines, QuitNext, AmountsNext, ClientNext
<1> QED BY <1>1, <1>2, TaskInvariance, AgentInvariance, PTL DEF E2ESpec

\* A client that ends with success has the whole file, right if it gave a
\* checksum, although it compares neither size nor content itself (download in
\* download_mode.go).
THEOREM SuccessIsWhole == E2ESpec => []CompletedFileIsWhole
<1>1. ClientInv => CompletedFileIsWhole
  BY DEF ClientInv, ClientFlow, CompletedFileIsWhole
<1> QED BY <1>1, ClientInvariance, PTL

\* An error behind a file that was sent is only ever told to a client that has
\* gone (progressFunc's setError after a failed Send).
THEOREM SentIsOk == E2ESpec => []SentMeansOk
<1>1. ClientInv => SentMeansOk
  BY DEF ClientInv, ClientFlow, SentMeansOk
<1> QED BY <1>1, ClientInvariance, PTL

-----------------------------------------------------------------------------
(* How often an agent is called.                                           *)

\* Calls in r calls of RunTask.
Budget(r) == MaxAttempts * r

LEMMA BudgetLaws ==
  ASSUME NEW r \in Nat
  PROVE  /\ Budget(r) \in Nat
         /\ Budget(r + 1) = Budget(r) + MaxAttempts
         /\ \A m \in Nat : r <= m => Budget(r) <= Budget(m)
<1>1. Budget(r) \in Nat /\ Budget(r + 1) = Budget(r) + MaxAttempts
  BY ListAssumption DEF Budget
<1>2. ASSUME NEW m \in Nat, r <= m PROVE MaxAttempts * r <= MaxAttempts * m
  <2>1. MaxAttempts * (m - r) >= 0
    BY <1>2, ListAssumption, SMT
  <2>2. MaxAttempts * (m - r) = MaxAttempts * m - MaxAttempts * r
    BY ListAssumption, SMT
  <2> QED BY <2>1, <2>2, ListAssumption, SMT
<1> QED BY <1>1, <1>2 DEF Budget

\* The agent that this attempt has, or will get, has not been called.
AboutToRequest(s) ==
  pc[s] \in {"locking", "waiting"} \/ (pc[s] = "running" /\ stage[s] = "request")

CallInv ==
  /\ call \in Nat
  /\ \A s \in Subtasks :
       /\ sub[s] \in {"none", "loop"} => call <= Budget(retryCount[s])
       /\ sub[s] = "calling" => call <= Budget(retryCount[s]) + attempt[s]
       /\ sub[s] = "calling" /\ AboutToRequest(s) =>
            call <= Budget(retryCount[s]) + attempt[s] - 1
       /\ sub[s] \in {"notify", "finished"} => call <= Budget(MaxRetries + 1)

LEMMA CallInit == E2EInit => CallInv
<1> SUFFICES ASSUME E2EInit PROVE CallInv
  OBVIOUS
<1>1. call = 0 /\ sub = [s \in Subtasks |-> "none"] /\ retryCount = [s \in Subtasks |-> 0]
  BY DEF E2EInit, Init
<1>2. Budget(0) \in Nat
  BY BudgetLaws
<1> QED BY <1>1, <1>2 DEF CallInv

\* What is known of the chunk in hand.
LEMMA ChunkTypes ==
  ASSUME Inv, NEW s \in Subtasks
  PROVE  /\ Subtasks = {s}
         /\ retryCount[s] \in Nat /\ retryCount[s] <= MaxRetries + 1
         /\ attempt[s] \in Nat /\ attempt[s] <= MaxAttempts
         /\ sub[s] = "calling" <=> pc[s] # "idle"
         /\ sub[s] = "calling" => retryCount[s] <= MaxRetries
         /\ TaskTypeOK /\ Pool!TypeOK
<1>1. Subtasks = {s}
  BY TheChunk
<1> QED BY <1>1, SizesAssumption, ListAssumption
        DEF Inv, SubtaskInv, SubtaskOK, TaskTypeOK, Pool!Inv, Pool!TypeOK

LEMMA CallLocal ==
  ASSUME Inv, CallInv, NEW s \in Subtasks, ChunkLocal(s)
  PROVE  CallInv'
<1>1. call' = call /\ call \in Nat
  BY DEF ChunkLocal, linkVars, CallInv
<1>2. /\ Subtasks = {s} /\ TaskTypeOK /\ Pool!TypeOK
      /\ retryCount[s] \in Nat /\ retryCount[s] <= MaxRetries + 1
      /\ attempt[s] \in Nat /\ attempt[s] <= MaxAttempts
      /\ sub[s] = "calling" <=> pc[s] # "idle"
      /\ sub[s] = "calling" => retryCount[s] <= MaxRetries
  BY ChunkTypes
<1>3. MaxRetries + 1 \in Nat /\ MaxRetries \in Nat /\ MaxAttempts \in Nat
  BY SizesAssumption, ListAssumption
<1>4. Budget(retryCount[s]) \in Nat /\ Budget(retryCount[s]) <= Budget(MaxRetries + 1)
  BY <1>2, <1>3, BudgetLaws
<1>5. CASE ExecuteLoop(s)
  <2>1. sub[s] = "loop" /\ UNCHANGED <<stage, retryCount>>
    BY <1>5 DEF ExecuteLoop
  <2>2. CASE sub' = [sub EXCEPT ![s] = "calling"] /\ Pool!RunTask(s)
    <3>1. attempt'[s] = 1 /\ sub'[s] = "calling"
      BY <1>2, <2>2 DEF Pool!RunTask, TaskTypeOK, Pool!TypeOK
    <3> QED BY <1>1, <1>2, <1>4, <2>1, <3>1 DEF CallInv
  <2>3. CASE sub' = [sub EXCEPT ![s] = "notify"]
    <3>1. sub'[s] = "notify"
      BY <1>2, <2>3 DEF TaskTypeOK
    <3>2. Budget(MaxRetries + 1) \in Nat
      BY <1>3, BudgetLaws
    <3> QED BY <1>1, <1>2, <1>4, <2>1, <3>1, <3>2 DEF CallInv
  <2> QED BY <1>5, <2>2, <2>3 DEF ExecuteLoop
<1>6. CASE GetAgent(s)
  <2>1. pc[s] = "locking" /\ UNCHANGED <<sub, retryCount, attempt>>
    BY <1>6 DEF GetAgent, Pool!WaitForAgent, Pool!TakeAgent, subVars
  <2> QED BY <1>1, <1>2, <2>1 DEF CallInv, AboutToRequest
<1>7. CASE ReleaseAgent(s)
  <2>1. /\ pc[s] \in {"succeeded", "failed"} /\ sub[s] = "calling"
        /\ attempt'[s] = IF Pool!RunTaskReturns(s) THEN 0 ELSE attempt[s] + 1
        /\ call <= Budget(retryCount[s]) + attempt[s]
    BY <1>2, <1>7 DEF ReleaseAgent, Pool!FreeAgent, CallInv, Pool!TypeOK
  <2>2. CASE ~Pool!RunTaskReturns(s)
    <3>1. UNCHANGED <<sub, retryCount>> /\ attempt'[s] = attempt[s] + 1
      BY <1>7, <2>1, <2>2 DEF ReleaseAgent
    <3> QED BY <1>1, <1>2, <1>4, <2>1, <3>1 DEF CallInv
  <2>3. CASE Pool!RunTaskReturns(s)
    <3>1. /\ sub'[s] = IF pc[s] = "failed" THEN "loop" ELSE "notify"
          /\ retryCount'[s] = IF pc[s] = "failed" THEN retryCount[s] + 1 ELSE retryCount[s]
      BY <1>2, <1>7, <2>3 DEF ReleaseAgent, TaskTypeOK
    <3>2. call <= Budget(retryCount[s] + 1)
      <4>1. Budget(retryCount[s] + 1) = Budget(retryCount[s]) + MaxAttempts
        BY <1>2, BudgetLaws
      <4> QED BY <1>1, <1>2, <1>3, <1>4, <2>1, <4>1
    <3>3. Budget(retryCount[s] + 1) <= Budget(MaxRetries + 1) /\ Budget(retryCount[s] + 1) \in Nat
          /\ Budget(MaxRetries + 1) \in Nat
      BY <1>2, <1>3, <2>1, BudgetLaws
    <3> QED BY <1>1, <1>2, <3>1, <3>2, <3>3 DEF CallInv
  <2> QED BY <2>2, <2>3
<1>8. CASE Notify(s)
  <2>1. sub[s] = "notify" /\ sub'[s] = "finished"
    BY <1>2, <1>8 DEF Notify, TaskTypeOK
  <2> QED BY <1>1, <1>2, <2>1 DEF CallInv
<1> QED BY <1>5, <1>6, <1>7, <1>8 DEF ChunkLocal

LEMMA CallDownloads ==
  ASSUME Inv, CallInv, NEW s \in Subtasks,
         \/ ChunkRequest(s) \/ ChunkData(s) \/ ChunkProgress(s) \/ ChunkReport(s) \/ ChunkEnds(s)
  PROVE  CallInv'
<1>1. /\ Subtasks = {s} /\ TaskTypeOK /\ Pool!TypeOK /\ sub[s] = "calling"
      /\ retryCount[s] \in Nat /\ attempt[s] \in Nat
  <2>1. pc[s] = "running"
    BY DEF ChunkRequest, ChunkData, ChunkProgress, ChunkReport, ChunkEnds, RequestChunk, ReceiveData,
       ReceiveProgress, ReportProgress, StreamEnds
  <2> QED BY <2>1, ChunkTypes
<1>2. /\ UNCHANGED <<sub, retryCount, attempt>>
      /\ pc' = pc \/ pc' = [pc EXCEPT ![s] = "failed"] \/ pc' = [pc EXCEPT ![s] = "succeeded"]
  BY DEF ChunkRequest, ChunkData, ChunkProgress, ChunkReport, ChunkEnds, RequestChunk, ReceiveData,
     ReceiveProgress, ReportProgress, StreamEnds, ReceiveLoop, Pool!TaskReturns, subVars, poolVars
<1>3. pc'[s] = "running" => stage'[s] # "request"
  BY <1>1 DEF ChunkRequest, ChunkData, ChunkProgress, ChunkReport, ChunkEnds, RequestChunk, ReceiveData,
     ReceiveProgress, ReportProgress, StreamEnds, ReceiveLoop, Pool!TaskReturns, subVars, poolVars,
     TaskTypeOK, Pool!TypeOK
<1>4. ~AboutToRequest(s)'
  <2>1. pc'[s] \in {"running", "failed", "succeeded"}
    BY <1>1, <1>2 DEF Pool!TypeOK, ChunkRequest, ChunkData, ChunkProgress, ChunkReport, ChunkEnds,
       RequestChunk, ReceiveData, ReceiveProgress, ReportProgress, StreamEnds
  <2> QED BY <1>3, <2>1 DEF AboutToRequest
<1>5. Budget(retryCount[s]) \in Nat
  BY <1>1, BudgetLaws
<1>6. call' \in Nat /\ call' <= Budget(retryCount[s]) + attempt[s]
  <2>1. CASE ChunkRequest(s)
    <3>1. AboutToRequest(s) /\ call' \in {call, call + 1}
      BY <2>1 DEF ChunkRequest, RequestChunk, AboutToRequest
    <3> QED BY <1>1, <1>5, <3>1 DEF CallInv
  <2>2. CASE call' = call
    BY <1>1, <2>2 DEF CallInv
  <2> QED BY <2>1, <2>2 DEF ChunkData, ChunkProgress, ChunkReport, ChunkEnds, linkVars
<1> QED BY <1>1, <1>2, <1>4, <1>6 DEF CallInv

LEMMA CallNext ==
  ASSUME Inv, CallInv, [E2ENext]_e2eVars
  PROVE  CallInv'
<1>1. ASSUME UNCHANGED <<stage, retryCount, attempt, call>>,
             \A s \in Subtasks : pc'[s] = pc[s] \/ (pc[s] = "waiting" /\ pc'[s] = "locking"),
             sub' = sub \/ (Before /\ \A s \in Subtasks : sub'[s] = "loop")
      PROVE  CallInv'
  BY <1>1 DEF CallInv, AboutToRequest, Before
<1>2. CASE AgentStep \/ Break
  BY <1>1, <1>2 DEF AgentStep, Break, vars, poolVars, subVars, linkVars
<1>3. CASE ReportStep \/ ExecStep \/ CallReturns \/ StreamCloses \/ ClientStep \/ ClientLost
           \/ Joins \/ UNCHANGED e2eVars
  <2>1. sub' = sub \/ (Before /\ \A s \in Subtasks : sub'[s] = "loop")
    <3>1. CASE ExecStep
      <4>1. CASE Begin
        BY <4>1 DEF Begin, Inv, PhaseInv
      <4> QED BY <3>1, <4>1 DEF ExecStep, TaskStep, Collect, Combine, Validate, Transfer, Store,
           Finish, subVars
    <3>2. CASE ReportStep \/ Joins
      BY <3>2 DEF ReportStep, ReporterReceives, ReporterSends, ReporterExits, Joins, AgentJoins, subVars
    <3> QED BY <1>3, <3>1, <3>2 DEF CallReturns, StreamCloses, ClientLeaves, ClientStep, ClientLost,
         e2eVars, vars, subVars
  <2> QED BY <1>1, <1>3, <2>1, OthersKeepChunks
<1> QED BY <1>2, <1>3, CallLocal, CallDownloads DEF E2ENext, Running, ChunkStep

LEMMA CallInvariance == E2ESpec => []CallInv
  BY CallInit, CallNext, TaskInvariance, PTL DEF E2ESpec

-----------------------------------------------------------------------------
(* What the client is shown.                                               *)

\* The sum of the numbers in q, added to "from", is "to".  The partial sums
\* witness it, so no recursion is needed.
SumsTo(q, from, to) ==
  \E f \in [0..Len(q) -> Nat] :
    /\ f[0] = from /\ f[Len(q)] = to
    /\ \A i \in 1..Len(q) : f[i] = f[i - 1] + q[i]
    /\ \A i, j \in 0..Len(q) : i <= j => f[i] <= f[j]

LEMMA SumEmpty == ASSUME NEW from \in Nat PROVE SumsTo(<<>>, from, from)
<1> DEFINE f == [i \in 0..0 |-> from]
<1>1. /\ f \in [0..Len(<<>>) -> Nat] /\ f[0] = from /\ f[Len(<<>>)] = from
      /\ \A i \in 1..Len(<<>>) : f[i] = f[i - 1] + <<>>[i]
      /\ \A i, j \in 0..Len(<<>>) : i <= j => f[i] <= f[j]
  OBVIOUS
<1> QED BY <1>1 DEF SumsTo

LEMMA SumBounds ==
  ASSUME NEW q \in Seq(Nat), NEW from, NEW to, SumsTo(q, from, to)
  PROVE  from \in Nat /\ to \in Nat /\ from <= to
<1>1. Len(q) \in Nat
  OBVIOUS
<1> QED BY <1>1 DEF SumsTo

LEMMA SumAppend ==
  ASSUME NEW q \in Seq(Nat), NEW from, NEW to, SumsTo(q, from, to), NEW x \in Nat
  PROVE  SumsTo(Append(q, x), from, to + x)
<1> DEFINE n == Len(q)
<1>1. PICK f \in [0..n -> Nat] :
        /\ f[0] = from /\ f[n] = to
        /\ \A i \in 1..n : f[i] = f[i - 1] + q[i]
        /\ \A i, j \in 0..n : i <= j => f[i] <= f[j]
  BY DEF SumsTo
<1> DEFINE g == [i \in 0..(n + 1) |-> IF i = n + 1 THEN to + x ELSE f[i]]
<1>2. /\ n \in Nat /\ Len(Append(q, x)) = n + 1 /\ Append(q, x)[n + 1] = x
      /\ \A i \in 1..n : Append(q, x)[i] = q[i]
  OBVIOUS
<1>3. to \in Nat
  BY <1>1, <1>2
<1>4. g \in [0..(n + 1) -> Nat] /\ g[0] = from /\ g[n + 1] = to + x
  BY <1>1, <1>2, <1>3
<1>5. ASSUME NEW i \in 1..(n + 1) PROVE g[i] = g[i - 1] + Append(q, x)[i]
  <2>1. CASE i = n + 1
    <3>1. g[i] = to + x /\ g[i - 1] = f[n]
      BY <1>2, <2>1
    <3> QED BY <1>1, <1>2, <2>1, <3>1
  <2>2. CASE i # n + 1
    <3>1. i \in 1..n /\ g[i] = f[i] /\ g[i - 1] = f[i - 1]
      BY <1>2, <2>2
    <3> QED BY <1>1, <1>2, <3>1
  <2> QED BY <2>1, <2>2
<1>6. ASSUME NEW i \in 0..(n + 1), NEW j \in 0..(n + 1), i <= j PROVE g[i] <= g[j]
  <2>1. CASE j = n + 1
    <3>1. CASE i = n + 1
      BY <1>3, <2>1, <3>1
    <3>2. CASE i # n + 1
      <4>1. i \in 0..n /\ n \in 0..n /\ i <= n /\ g[i] = f[i]
        BY <1>2, <3>2
      <4>2. f[i] <= f[n] /\ f[i] \in Nat
        BY <1>1, <4>1
      <4> QED BY <1>1, <1>3, <2>1, <4>1, <4>2
    <3> QED BY <3>1, <3>2
  <2>2. CASE j # n + 1
    <3>1. i \in 0..n /\ j \in 0..n /\ g[i] = f[i] /\ g[j] = f[j]
      BY <1>2, <1>6, <2>2
    <3> QED BY <1>1, <1>6, <3>1
  <2> QED BY <2>1, <2>2
<1> HIDE DEF g
<1> QED BY <1>2, <1>4, <1>5, <1>6 DEF SumsTo

LEMMA SumTail ==
  ASSUME NEW q \in Seq(Nat), q # <<>>, NEW from, NEW to, SumsTo(q, from, to)
  PROVE  SumsTo(Tail(q), from + Head(q), to)
<1> DEFINE n == Len(q)
<1>1. PICK f \in [0..n -> Nat] :
        /\ f[0] = from /\ f[n] = to
        /\ \A i \in 1..n : f[i] = f[i - 1] + q[i]
        /\ \A i, j \in 0..n : i <= j => f[i] <= f[j]
  BY DEF SumsTo
<1> DEFINE g == [i \in 0..(n - 1) |-> f[i + 1]]
<1>2. /\ n \in Nat /\ n >= 1 /\ Len(Tail(q)) = n - 1 /\ Head(q) = q[1]
      /\ \A i \in 1..(n - 1) : Tail(q)[i] = q[i + 1]
  OBVIOUS
<1>3. \A i \in 0..(n - 1) : i + 1 \in 1..n /\ i + 1 \in 0..n /\ (i + 1) - 1 = i
  BY <1>2
<1>4. g \in [0..(n - 1) -> Nat] /\ \A i \in 0..(n - 1) : g[i] = f[i + 1]
  BY <1>1, <1>3
<1>5. g[0] = from + Head(q) /\ g[n - 1] = to
  <2>1. g[0] = f[1] /\ g[n - 1] = f[n] /\ 1 \in 1..n
    BY <1>2, <1>4
  <2> QED BY <1>1, <1>2, <2>1
<1>6. ASSUME NEW i \in 1..(n - 1) PROVE g[i] = g[i - 1] + Tail(q)[i]
  <2>1. i \in 0..(n - 1) /\ i - 1 \in 0..(n - 1) /\ i + 1 \in 1..n /\ (i + 1) - 1 = i /\ (i - 1) + 1 = i
    BY <1>2
  <2>2. g[i] = f[i + 1] /\ g[i - 1] = f[i]
    BY <1>4, <2>1
  <2> QED BY <1>1, <1>2, <2>1, <2>2
<1>7. ASSUME NEW i \in 0..(n - 1), NEW j \in 0..(n - 1), i <= j PROVE g[i] <= g[j]
  <2>1. i + 1 <= j + 1
    BY <1>7, <1>2
  <2> QED BY <1>1, <1>3, <1>4, <2>1
<1> HIDE DEF g
<1> QED BY <1>2, <1>4, <1>5, <1>6, <1>7 DEF SumsTo

\* What a message of an agent adds to the progress.
Value(m) == IF m.kind = "progress" THEN m.value ELSE 0
Values(q) == [i \in 1..Len(q) |-> Value(q[i])]

LEMMA ValueType == ASSUME NEW m \in AgentMessages PROVE Value(m) \in Nat
  BY SizesAssumption DEF AgentMessages, Value

LEMMA ValuesType == ASSUME NEW q \in Seq(AgentMessages) PROVE Values(q) \in Seq(Nat) /\ Len(Values(q)) = Len(q)
<1>1. Len(q) \in Nat /\ \A i \in 1..Len(q) : q[i] \in AgentMessages
  OBVIOUS
<1>2. \A i \in 1..Len(q) : Value(q[i]) \in Nat
  BY <1>1, ValueType
<1> QED BY <1>1, <1>2 DEF Values

LEMMA ValuesAppend ==
  ASSUME NEW q \in Seq(AgentMessages), NEW m \in AgentMessages
  PROVE  Values(Append(q, m)) = Append(Values(q), Value(m))
<1>1. /\ Append(q, m) \in Seq(AgentMessages) /\ Len(Append(q, m)) = Len(q) + 1 /\ Len(q) \in Nat
      /\ \A i \in 1..Len(q) : Append(q, m)[i] = q[i]
      /\ Append(q, m)[Len(q) + 1] = m
  OBVIOUS
<1>2. /\ Values(q) \in Seq(Nat) /\ Len(Values(q)) = Len(q) /\ Value(m) \in Nat
      /\ Values(Append(q, m)) \in Seq(Nat) /\ Len(Values(Append(q, m))) = Len(q) + 1
  BY <1>1, ValuesType, ValueType
<1>3. /\ Append(Values(q), Value(m)) \in Seq(Nat) /\ Len(Append(Values(q), Value(m))) = Len(q) + 1
      /\ \A i \in 1..Len(q) : Append(Values(q), Value(m))[i] = Values(q)[i]
      /\ Append(Values(q), Value(m))[Len(q) + 1] = Value(m)
  BY <1>2, AppendProperties
<1>4. ASSUME NEW i \in 1..(Len(q) + 1)
      PROVE  Values(Append(q, m))[i] = Append(Values(q), Value(m))[i]
  <2>1. CASE i = Len(q) + 1
    BY <1>1, <1>3, <2>1 DEF Values
  <2>2. CASE i # Len(q) + 1
    <3>1. i \in 1..Len(q)
      BY <1>1, <2>2
    <3> QED BY <1>1, <1>3, <3>1 DEF Values
  <2> QED BY <2>1, <2>2
<1> QED BY <1>2, <1>3, <1>4, SeqEqual

LEMMA ValuesTail ==
  ASSUME NEW q \in Seq(AgentMessages), q # <<>>
  PROVE  /\ Values(q) # <<>> /\ Head(Values(q)) = Value(Head(q))
         /\ Values(Tail(q)) = Tail(Values(q))
<1>1. /\ Tail(q) \in Seq(AgentMessages) /\ Len(Tail(q)) = Len(q) - 1 /\ Len(q) \in Nat /\ Len(q) >= 1
      /\ \A i \in 1..(Len(q) - 1) : Tail(q)[i] = q[i + 1]
      /\ Head(q) = q[1]
  OBVIOUS
<1>2. /\ Values(q) \in Seq(Nat) /\ Len(Values(q)) = Len(q)
      /\ Values(Tail(q)) \in Seq(Nat) /\ Len(Values(Tail(q))) = Len(q) - 1
  BY <1>1, ValuesType
<1>3. Values(q) # <<>>
  BY <1>1, <1>2
<1>4. /\ Tail(Values(q)) \in Seq(Nat) /\ Len(Tail(Values(q))) = Len(q) - 1
      /\ \A i \in 1..(Len(q) - 1) : Tail(Values(q))[i] = Values(q)[i + 1]
      /\ Head(Values(q)) = Values(q)[1]
  BY <1>2, <1>3, HeadTailProperties
<1>5. ASSUME NEW i \in 1..(Len(q) - 1) PROVE Values(Tail(q))[i] = Tail(Values(q))[i]
  <2>1. i + 1 \in 1..Len(q)
    BY <1>1
  <2> QED BY <1>1, <1>4, <2>1 DEF Values
<1>6. Head(Values(q)) = Value(Head(q))
  <2>1. 1 \in 1..Len(q)
    BY <1>1
  <2> QED BY <1>1, <1>4, <2>1 DEF Values
<1> QED BY <1>2, <1>3, <1>4, <1>5, <1>6, SeqEqual

\* Pieces the agent has read or may read, and has not reported.
Work == offered + unreported + Unread
\* What has been requested.
Limit == ChunkSize * call

\* Counted, on its way through the channel (a), on the agent's stream (b - c),
\* in hand, or still with the agent: no piece is in two places.
CountInv ==
  \E a, b, c \in Nat :
    /\ SumsTo(amounts, counted, a)
    /\ SumsTo(Values(stream), c, b)
    /\ a + (b - c) + reported + Work <= Limit

LEMMA LimitLaws ==
  ASSUME call \in Nat
  PROVE  /\ Limit \in Nat
         /\ call' = call => Limit' = Limit
         /\ call' = call + 1 => Limit' = Limit + ChunkSize
         /\ call' \in Nat => Limit' \in Nat
<1>1. /\ ChunkSize \in Nat /\ ChunkSize * call \in Nat
      /\ ChunkSize * (call + 1) = ChunkSize * call + ChunkSize
  BY SizesAssumption
<1>2. \A n \in Nat : ChunkSize * n \in Nat
  BY SizesAssumption
<1> QED BY <1>1, <1>2 DEF Limit

LEMMA CountInit == E2EInit => CountInv
<1> SUFFICES ASSUME E2EInit PROVE CountInv
  OBVIOUS
<1>1. /\ amounts = <<>> /\ counted = 0 /\ stream = <<>> /\ reported = 0 /\ call = 0
      /\ serve = "none" /\ offered = 0 /\ unreported = 0
  BY DEF E2EInit, Agent!Init
<1>2. SumsTo(amounts, counted, 0) /\ 0 \in Nat
  BY <1>1, SumEmpty
<1>3. Values(stream) = <<>>
  BY <1>1 DEF Values
<1>4. SumsTo(Values(stream), 0, 0)
  BY <1>2, <1>3, SumEmpty
<1>5. Work = 0
  BY <1>1 DEF Work, Unread
<1>6. 0 + (0 - 0) + reported + Work <= Limit
  BY <1>1, <1>5, LimitLaws
<1> QED BY <1>2, <1>4, <1>6 DEF CountInv

\* What a step of the agent, of the server's end of its stream, does to them.
LEMMA AgentWork ==
  ASSUME Inv, AgentInv, AgentStep \/ Break
  PROVE  /\ Work' \in Nat /\ Work \in Nat
         /\ \/ stream' = stream /\ Work' <= Work
            \/ \E m \in AgentMessages :
                 stream' = Append(stream, m) /\ Work' + Value(m) <= Work
<1>1. /\ offered \in Nat /\ unreported \in Nat /\ got \in 0..ChunkSize
      /\ offered + unreported + Unread <= ChunkSize
      /\ serve \in {"none", "fetch", "offer", "join", "upload", "returned"}
      /\ source \in {"right", "wrong"} /\ failed \in BOOLEAN
  BY CapsAssumption DEF AgentInv
<1>2. Unread \in Nat /\ Work \in Nat
  BY <1>1, SizesAssumption DEF Unread, Work
<1>3. CASE Agent!Fetch
  <2>1. /\ UNCHANGED <<offered, unreported, stream>> /\ serve = "fetch" /\ Unread = ChunkSize
        /\ \/ serve' \in {"returned", "join"}
           \/ serve' = "offer" /\ got' = 1
    BY <1>3, SizesAssumption DEF Agent!Fetch, Agent!Read, Unread
  <2>2. Unread' \in Nat /\ Unread' <= Unread
    BY <2>1, SizesAssumption DEF Unread
  <2>3. offered' = offered /\ unreported' = unreported
    BY <2>1
  <2>4. Work' = offered' + unreported' + Unread' /\ Work = offered + unreported + Unread
    BY DEF Work
  <2>5. offered \in Nat /\ unreported \in Nat /\ Unread \in Nat
    BY <1>1, <1>2
  <2>6. \A x, y, z, w \in Nat : w <= z => x + y + w \in Nat /\ x + y + w <= x + y + z
    OBVIOUS
  <2>7. Work' \in Nat /\ Work' <= Work
    BY <2>2, <2>3, <2>4, <2>5, <2>6
  <2> QED BY <1>2, <2>1, <2>7
<1>4. CASE Agent!Offer
  <2>1. /\ UNCHANGED <<unreported, stream>> /\ offered' = offered + 1
        /\ serve = "offer" /\ Unread = ChunkSize - got + 1
        /\ \/ serve' = "join"
           \/ serve' = "offer" /\ got' = got + 1 /\ got < ChunkSize
    BY <1>4 DEF Agent!Offer, Agent!Read, Unread
  <2>2. Unread' + 1 <= Unread /\ Unread' \in Nat
    BY <1>1, <2>1, SizesAssumption DEF Unread
  <2>3. offered' = offered + 1 /\ unreported' = unreported
    BY <2>1
  <2>4. Work' = offered' + unreported' + Unread' /\ Work = offered + unreported + Unread
    BY DEF Work
  <2>5. offered \in Nat /\ unreported \in Nat /\ Unread \in Nat
    BY <1>1, <1>2
  <2>6. \A x, y, z, w \in Nat :
          w + 1 <= z => (x + 1) + y + w \in Nat /\ (x + 1) + y + w <= x + y + z
    OBVIOUS
  <2>7. Work' \in Nat /\ Work' <= Work
    BY <2>2, <2>3, <2>4, <2>5, <2>6
  <2> QED BY <1>2, <2>1, <2>7
<1>5. CASE Agent!Join
  <2>1. UNCHANGED <<offered, unreported, stream>> /\ Unread' = 0
    BY <1>5 DEF Agent!Join, Unread
  <2> QED BY <1>1, <1>2, <2>1 DEF Work
<1>6. CASE Agent!Upload
  <2> DEFINE m == [kind |-> "data", value |-> source]
  <2>1. UNCHANGED <<offered, unreported>> /\ Unread' = 0
        /\ (stream' = Append(stream, m) \/ stream' = stream)
    BY <1>6 DEF Agent!Upload, Agent!Sent, Agent!Message, Unread
  <2>2. m \in AgentMessages /\ Value(m) = 0
    BY <1>1 DEF AgentMessages, Value
  <2> HIDE DEF m
  <2>3. Work' \in Nat /\ Work' + 0 <= Work /\ Work' <= Work
    BY <1>1, <1>2, <2>1 DEF Work
  <2> QED BY <1>2, <2>1, <2>2, <2>3
<1>7. CASE Agent!RelayReceives \/ Agent!RelayExits
  <2>1. UNCHANGED <<stream, serve, got>>
    BY <1>7 DEF Agent!RelayReceives, Agent!RelayExits
  <2>2. Unread' = Unread
    BY <2>1 DEF Unread
  <2>3. \/ offered > 0 /\ offered' = offered - 1 /\ unreported' = unreported + 1
        \/ offered' = offered /\ unreported' = 0
    BY <1>7 DEF Agent!RelayReceives, Agent!RelayExits
  <2> QED BY <1>1, <1>2, <2>1, <2>2, <2>3 DEF Work
<1>8. CASE Agent!RelaySends
  <2> DEFINE m == [kind |-> "progress", value |-> unreported]
  <2>1. /\ UNCHANGED <<offered, serve, got>> /\ unreported' = 0
        /\ (stream' = Append(stream, m) \/ stream' = stream)
    BY <1>8 DEF Agent!RelaySends, Agent!Sent, Agent!Message
  <2>2. Unread' = Unread
    BY <2>1 DEF Unread
  <2>3. unreported \in 0..ChunkSize
    BY <1>1, <1>2, SizesAssumption
  <2>4. m \in AgentMessages /\ Value(m) = unreported
    BY <2>3 DEF AgentMessages, Value
  <2> HIDE DEF m
  <2>5. Work' \in Nat /\ Work' + unreported <= Work /\ Work' <= Work
    BY <1>1, <1>2, <2>1, <2>2 DEF Work
  <2> QED BY <1>2, <2>1, <2>4, <2>5
<1>9. CASE Break
  <2>1. UNCHANGED <<offered, unreported, serve, got, stream>>
    BY <1>9 DEF Break, Agent!Break
  <2> QED BY <1>2, <2>1 DEF Work, Unread
<1> QED BY <1>3, <1>4, <1>5, <1>6, <1>7, <1>8, <1>9
    DEF AgentStep, Agent!ServeStep, Agent!RelayStep

LEMMA CountAgent ==
  ASSUME Inv, AgentInv, CountInv, AmountsInv, AgentStep \/ Break, call \in Nat
  PROVE  CountInv'
<1>1. UNCHANGED <<call, reported, amounts, counted>>
  BY DEF AgentStep, Break, linkVars, countVars
<1>2. PICK a, b, c \in Nat :
        /\ SumsTo(amounts, counted, a) /\ SumsTo(Values(stream), c, b)
        /\ a + (b - c) + reported + Work <= Limit
  BY DEF CountInv
<1>3. SumsTo(amounts', counted', a)
  BY <1>1, <1>2
<1>4. /\ Work' \in Nat /\ Work \in Nat /\ reported \in Nat /\ Limit \in Nat
      /\ stream \in Seq(AgentMessages) /\ Values(stream) \in Seq(Nat)
  BY AgentWork, ValuesType, LimitLaws DEF AgentInv, AmountsInv
<1> Limit' = Limit
  BY <1>1, LimitLaws
<1>5. CASE stream' = stream /\ Work' <= Work
  <2>1. SumsTo(Values(stream'), c, b)
    BY <1>2, <1>5
  <2>2. \A r, w, v, n \in Int : a + (b - c) + r + w <= n /\ v <= w => a + (b - c) + r + v <= n
    OBVIOUS
  <2>3. /\ reported \in Int /\ Work \in Int /\ Work' \in Int /\ Limit \in Int
        /\ a + (b - c) + reported + Work <= Limit /\ Work' <= Work
    BY <1>2, <1>4, <1>5
  <2>4. a + (b - c) + reported + Work' <= Limit
    BY <2>2, <2>3
  <2>5. a + (b - c) + reported' + Work' <= Limit'
    BY <1>1, <2>4
  <2> QED BY <1>3, <2>1, <2>5 DEF CountInv
<1>6. ASSUME NEW m \in AgentMessages, stream' = Append(stream, m), Work' + Value(m) <= Work
      PROVE  CountInv'
  <2>1. Value(m) \in Nat
    BY ValueType
  <2>2. Values(stream') = Append(Values(stream), Value(m))
    BY <1>4, <1>6, ValuesAppend
  <2>3. SumsTo(Append(Values(stream), Value(m)), c, b + Value(m))
    BY <1>2, <1>4, <2>1, SumAppend
  <2>4. b + Value(m) \in Nat
    BY <2>1
  <2>5. \A x, r, w, v, k, n \in Int :
          a + (b - c) + r + w <= n /\ v + x <= w => a + ((b + x) - c) + r + v <= n
    OBVIOUS
  <2>6. /\ Value(m) \in Int /\ reported \in Int /\ Work \in Int /\ Work' \in Int /\ Limit \in Int
        /\ a + (b - c) + reported + Work <= Limit /\ Work' + Value(m) <= Work
    BY <1>2, <1>4, <1>6, <2>1
  <2>7. a + ((b + Value(m)) - c) + reported + Work' <= Limit
    BY <2>5, <2>6
  <2>8. a + ((b + Value(m)) - c) + reported' + Work' <= Limit'
    BY <1>1, <2>7
  <2> QED BY <1>3, <2>2, <2>3, <2>4, <2>8 DEF CountInv
<1> QED BY <1>5, <1>6, AgentWork

\* When the server takes its end of the stream down, what is on its way is lost.
LEMMA CountClosed ==
  ASSUME Agent!Closed, NEW a \in Nat, SumsTo(amounts', counted', a),
         reported' \in Nat, call' \in Nat, a + reported' <= Limit'
  PROVE  CountInv'
<1>1. stream' = <<>> /\ Work' = 0
  BY DEF Agent!Closed, Work, Unread
<1>2. Values(stream') = <<>>
  BY <1>1 DEF Values
<1>3. SumsTo(Values(stream'), 0, 0)
  BY <1>2, SumEmpty
<1>4. \A n \in Nat : ChunkSize * n \in Nat
  BY SizesAssumption
<1>5. Limit' \in Nat
  BY <1>4 DEF Limit
<1>6. \A r, n \in Nat : a + r <= n => a + (0 - 0) + r + 0 <= n
  OBVIOUS
<1>7. a + (0 - 0) + reported' + Work' <= Limit'
  BY <1>1, <1>5, <1>6
<1> QED BY <1>3, <1>7 DEF CountInv

LEMMA CountChunk ==
  ASSUME Inv, AgentInv, CountInv, AmountsInv, AmountsInv', call \in Nat, call' \in Nat,
         NEW s \in Subtasks, ChunkStep(s)
  PROVE  CountInv'
<1>1. PICK a, b, c \in Nat :
        /\ SumsTo(amounts, counted, a) /\ SumsTo(Values(stream), c, b)
        /\ a + (b - c) + reported + Work <= Limit
  BY DEF CountInv
<1>2. /\ stream \in Seq(AgentMessages) /\ Values(stream) \in Seq(Nat)
      /\ amounts \in Seq(Nat) /\ c <= b
      /\ reported \in Nat /\ reported' \in Nat /\ Limit \in Nat
      /\ offered \in Nat /\ unreported \in Nat /\ Unread \in Nat
  <2>1. /\ reported \in Nat /\ reported' \in Nat /\ amounts \in Seq(Nat)
        /\ offered \in Nat /\ unreported \in Nat /\ Unread \in Nat
        /\ stream \in Seq(AgentMessages)
    BY SizesAssumption, CapsAssumption DEF AgentInv, AmountsInv, Unread
  <2>2. Values(stream) \in Seq(Nat) /\ Limit \in Nat
    BY <2>1, ValuesType, LimitLaws
  <2>3. c <= b
    BY <1>1, <2>2, SumBounds
  <2> QED BY <2>1, <2>2, <2>3
<1>3. Work \in Nat /\ (call' = call => Limit' = Limit)
  BY <1>2, LimitLaws DEF Work
<1>4. CASE ChunkLocal(s)
  BY <1>1, <1>4 DEF ChunkLocal, agentVars, linkVars, countVars, CountInv, Work, Unread, Limit
<1>5. CASE ChunkRequest(s)
  <2>1. UNCHANGED <<reported, amounts, counted>>
    BY <1>5 DEF ChunkRequest, countVars
  <2>2. CASE call' = call + 1 /\ Agent!Called
    <3>1. serve = "none"
      BY <1>5 DEF ChunkRequest, RequestChunk, AgentInv, Requested
    <3>2. UNCHANGED <<stream, offered, unreported>> /\ Unread' = ChunkSize /\ Unread = 0
      BY <2>2, <3>1 DEF Agent!Called, Unread
    <3>3. Limit' = Limit + ChunkSize
      BY <2>2, LimitLaws
    <3>4. Work' = Work + ChunkSize
      BY <1>2, <3>2, SizesAssumption DEF Work
    <3>5. a + (b - c) + reported' + Work' <= Limit'
      BY <1>1, <1>2, <1>3, <2>1, <3>3, <3>4, SizesAssumption
    <3> QED BY <1>1, <2>1, <3>2, <3>5 DEF CountInv
  <2>3. CASE UNCHANGED <<call, agentVars>>
    BY <1>1, <2>1, <2>3 DEF agentVars, CountInv, Work, Unread, Limit
  <2> QED BY <1>5, <2>2, <2>3 DEF ChunkRequest
<1>6. CASE ChunkData(s)
  <2>1. /\ UNCHANGED <<call, reported, amounts, counted>>
        /\ stream # <<>> /\ Head(stream).kind = "data"
        /\ Agent!Taken(Tail(stream)) \/ Agent!Closed
    BY <1>6 DEF ChunkData, linkVars, countVars, Arrived, Hold
  <2>2. CASE Agent!Taken(Tail(stream))
    <3>1. stream' = Tail(stream) /\ Work' = Work
      BY <2>2 DEF Agent!Taken, Work, Unread
    <3>2. Value(Head(stream)) = 0
      BY <2>1 DEF Value
    <3>3. SumsTo(Values(stream'), c + 0, b)
      BY <1>1, <1>2, <2>1, <3>1, <3>2, ValuesTail, SumTail
    <3>4. c + 0 = c
      OBVIOUS
    <3> QED BY <1>1, <1>3, <2>1, <3>1, <3>3, <3>4 DEF CountInv
  <2>3. CASE Agent!Closed
    <3>1. a + reported' <= Limit'
      BY <1>1, <1>2, <1>3, <2>1
    <3> QED BY <1>1, <1>2, <2>1, <2>3, <3>1, CountClosed
  <2> QED BY <2>1, <2>2, <2>3
<1>7. CASE ChunkProgress(s)
  <2>1. /\ UNCHANGED <<call, amounts, counted>>
        /\ stream # <<>> /\ Head(stream).kind = "progress" /\ reported' = Head(stream).value
        /\ Agent!Taken(Tail(stream)) \/ Agent!Closed
    BY <1>7 DEF ChunkProgress, Arrived, Hold
  <2>2. Agent!Taken(Tail(stream))
    BY <1>7, <2>1 DEF ChunkProgress, ReceiveProgress, poolVars, Hold
  <2>3. stream' = Tail(stream) /\ Work' = Work
    BY <2>2 DEF Agent!Taken, Work, Unread
  <2>4. Value(Head(stream)) = reported'
    BY <2>1 DEF Value
  <2>5. /\ Values(stream) # <<>> /\ Head(Values(stream)) = reported'
        /\ Values(stream') = Tail(Values(stream))
    BY <1>2, <2>1, <2>3, <2>4, ValuesTail
  <2>6. SumsTo(Tail(Values(stream)), c + reported', b)
    BY <1>1, <1>2, <2>5, SumTail
  <2>7. PICK x \in Nat : x = reported'
    BY <1>2
  <2>8. c + x \in Nat
    OBVIOUS
  <2>9. \A r, w, n \in Nat :
          a + (b - c) + r + w <= n => a + (b - (c + x)) + x + w <= n
    OBVIOUS
  <2>10. a + (b - (c + x)) + x + Work <= Limit
    BY <1>1, <1>2, <1>3, <2>9
  <2>11. Work' = Work /\ Limit' = Limit
    BY <1>3, <2>1, <2>3
  <2> QED BY <1>1, <2>1, <2>5, <2>6, <2>7, <2>8, <2>10, <2>11 DEF CountInv
<1>8. CASE ChunkReport(s)
  <2>1. /\ UNCHANGED <<call, counted>>
        /\ amounts' = Append(amounts, reported) /\ reported' = 0
        /\ Agent!Taken(stream) \/ Agent!Closed
    BY <1>8 DEF ChunkReport, Hold
  <2>2. SumsTo(amounts', counted', a + reported) /\ a + reported \in Nat
    BY <1>1, <1>2, <2>1, SumAppend
  <2>3. CASE Agent!Taken(stream)
    <3>1. stream' = stream /\ Work' = Work
      BY <2>3 DEF Agent!Taken, Work, Unread
    <3>2. (a + reported) + (b - c) + reported' + Work' <= Limit'
      BY <1>1, <1>2, <1>3, <2>1, <3>1
    <3> QED BY <1>1, <2>2, <3>1, <3>2 DEF CountInv
  <2>4. CASE Agent!Closed
    <3>1. (a + reported) + reported' <= Limit'
      BY <1>1, <1>2, <1>3, <2>1
    <3> QED BY <1>2, <2>2, <2>4, <3>1, CountClosed
  <2> QED BY <2>1, <2>3, <2>4
<1>9. CASE ChunkEnds(s)
  <2>1. UNCHANGED <<call, reported, amounts, counted>> /\ Agent!Closed
    BY <1>9 DEF ChunkEnds, linkVars, countVars
  <2>2. a + reported' <= Limit'
    BY <1>1, <1>2, <1>3, <2>1
  <2> QED BY <1>1, <1>2, <2>1, <2>2, CountClosed
<1> QED BY <1>4, <1>5, <1>6, <1>7, <1>8, <1>9 DEF ChunkStep

LEMMA CountNext ==
  ASSUME Inv, AgentInv, CountInv, AmountsInv, AmountsInv', CallInv, CallInv', [E2ENext]_e2eVars
  PROVE  CountInv'
<1>1. call \in Nat /\ call' \in Nat
  BY DEF CallInv
<1>2. CASE UNCHANGED <<agentVars, call, countVars>>
  BY <1>2 DEF agentVars, countVars, CountInv, Work, Unread, Limit
<1>3. CASE ReportStep
  <2>1. UNCHANGED <<agentVars, call, reported>>
    BY <1>3 DEF ReportStep
  <2>2. CASE UNCHANGED <<amounts, counted>>
    BY <1>2, <2>1, <2>2 DEF countVars
  <2>3. CASE ReporterReceives /\ amounts' = Tail(amounts) /\ counted' = Counted
    <3>1. PICK a, b, c \in Nat :
            /\ SumsTo(amounts, counted, a) /\ SumsTo(Values(stream), c, b)
            /\ a + (b - c) + reported + Work <= Limit
      BY DEF CountInv
    <3>2. progress > 0 /\ amounts # <<>> /\ amounts \in Seq(Nat)
      BY <2>3 DEF ReporterReceives, AmountsInv
    <3>3. SumsTo(amounts', counted', a)
      BY <2>3, <3>1, <3>2, SumTail DEF Counted
    <3>4. UNCHANGED <<stream, Work, Limit>>
      BY <2>1 DEF agentVars, Work, Unread, Limit
    <3> QED BY <2>1, <3>1, <3>3, <3>4 DEF CountInv
  <2> QED BY <1>3, <2>2, <2>3 DEF ReportStep
<1>4. CASE ExecStep \/ CallReturns \/ StreamCloses \/ ClientStep \/ ClientLost \/ Joins
           \/ UNCHANGED e2eVars
  BY <1>2, <1>4 DEF ExecStep, CallReturns, StreamCloses, ClientStep, ClientLost, Joins, e2eVars,
     linkVars
<1> QED BY <1>1, <1>3, <1>4, CountAgent, CountChunk DEF E2ENext, Running

LEMMA CountInvariance == E2ESpec => []CountInv
  BY CountInit, CountNext, TaskInvariance, AgentInvariance, ClientInvariance, CallInvariance, PTL
  DEF E2ESpec

\* However often messages are lost, calls break off and chunks are requested
\* again, no piece is added to the progress twice for one request
\* (downloadFromServer, reportProgress, downloadChunk and progressFunc each pass on
\* what they have and forget it).
THEOREM NoDoubleCount == E2ESpec => []CountedOnce
<1>1. CountInv /\ AmountsInv /\ AgentInv /\ CallInv => CountedOnce
  <2> SUFFICES ASSUME CountInv, AmountsInv, AgentInv, CallInv PROVE counted <= Limit
    BY DEF CountedOnce, Limit
  <2>1. PICK a, b, c \in Nat :
          /\ SumsTo(amounts, counted, a) /\ SumsTo(Values(stream), c, b)
          /\ a + (b - c) + reported + Work <= Limit
    BY DEF CountInv
  <2>2. counted \in Nat /\ counted <= a /\ c <= b
    BY <2>1, SumBounds, ValuesType DEF AmountsInv, AgentInv
  <2>3. reported \in Nat /\ Work \in Nat /\ Limit \in Nat
    BY SizesAssumption, CapsAssumption, LimitLaws DEF AmountsInv, AgentInv, Work, Unread, CallInv
  <2> QED BY <2>1, <2>2, <2>3
<1> QED BY <1>1, CountInvariance, ClientInvariance, AgentInvariance, CallInvariance, PTL

-----------------------------------------------------------------------------
(* The client's bar, and the types.                                        *)

Bar == INSTANCE ProgressBarProofs

\* The progress shown is one of the three: none, a message's, all.
LEMMA ShownBounds ==
  ASSUME ClientTypes, AmountsInv, CountedOnce, call \in 0..1
  PROVE  Client!Shown \in 0..ChunkSize
<1>1. counted \in Nat /\ resp.value \in 0..counted
  BY DEF ClientTypes, AmountsInv
<1>2. counted <= ChunkSize
  <2>1. CASE call = 0
    BY <1>1, <2>1, SizesAssumption DEF CountedOnce
  <2>2. CASE call = 1
    BY <1>1, <2>2, SizesAssumption DEF CountedOnce
  <2> QED BY <2>1, <2>2
<1> QED BY <1>1, <1>2, SizesAssumption DEF Client!Shown

LEMMA BarWithoutTerminal ==
  ASSUME NEW x \in Nat, NEW d \in Nat \ {0}, NEW n \in Nat
  PROVE  Client!PlainSafe(0, x, n, d)
<1>1. Bar!PlainSafe(0, x, n, d)
  BY Bar!SafeWithoutTerminal
<1> QED BY <1>1
    DEF Bar!PlainSafe, Bar!DashesBefore, Bar!DashesAfter, Bar!CurrentPosition, Bar!TotalWidth,
        Bar!AtLeast, Client!PlainSafe, Client!DashesBefore, Client!DashesAfter,
        Client!CurrentPosition, Client!TotalWidth, Client!AtLeast

LEMMA BarOnTerminal ==
  ASSUME NEW x \in Nat \ {0}, NEW w \in Nat, w >= x + 2,
         NEW b \in 0..w,
         NEW d \in Nat \ {0}, NEW n \in 0..d
  PROVE  Client!CursorSafe(w, x, n, d, b)
<1>1. Bar!CursorSafe(w, x, n, d, b)
  BY Bar!SafeOnWideTerminals
<1> QED BY <1>1
    DEF Bar!CursorSafe, Bar!PlainSafe, Bar!DashesBefore, Bar!DashesAfter, Bar!CurrentPosition,
        Bar!TotalWidth, Bar!AtLeast, Bar!AtMost, Bar!Offset, Bar!ProgressLine,
        Client!CursorSafe, Client!PlainSafe, Client!DashesBefore, Client!DashesAfter,
        Client!CurrentPosition, Client!TotalWidth, Client!AtLeast, Client!AtMost,
        Client!Offset, Client!ProgressLine

\* The terminal has room for the bar: none is as good as a wide one.
WideTerminal ==
  /\ FrameWidth \in Nat \ {0}
  /\ \/ ScreenWidth = 0
     \/ /\ ScreenWidth \in Nat /\ ScreenWidth >= FrameWidth + 2
        /\ \A kind \in Client!Kinds : LineWidth[kind] \in 0..ScreenWidth

\* On a terminal that is wide enough, drawing the bar does not take the client
\* down unless the chunk has been requested again: one request is never counted
\* for more than the file (render; downloadChunk's loop over the agents).
THEOREM BarHolds == ASSUME WideTerminal PROVE E2ESpec => []BarSafe
<1>1. ClientTypes /\ AmountsInv /\ CountedOnce /\ CallInv => BarSafe
  <2> SUFFICES ASSUME ClientTypes, AmountsInv, CountedOnce, CallInv, ~(call > 1)
               PROVE  Client!RenderSafe
    BY DEF BarSafe
  <2>1. call \in 0..1
    BY DEF CallInv
  <2>2. Client!Shown \in 0..ChunkSize /\ ChunkSize \in Nat \ {0}
    BY <2>1, ShownBounds, SizesAssumption
  <2>3. resp.kind \in Client!Kinds
    BY DEF ClientTypes
  <2>4. CASE ScreenWidth = 0
    <3>1. Client!Shown \in Nat /\ FrameWidth \in Nat
      BY <2>2 DEF WideTerminal
    <3>2. Client!PlainSafe(0, FrameWidth, Client!Shown, ChunkSize)
      BY <2>2, <3>1, BarWithoutTerminal
    <3> QED BY <2>4, <3>2 DEF Client!RenderSafe
  <2>5. CASE ScreenWidth # 0
    <3>1. /\ FrameWidth \in Nat \ {0} /\ ScreenWidth \in Nat /\ ScreenWidth >= FrameWidth + 2
          /\ LineWidth[resp.kind] \in 0..ScreenWidth
      BY <2>3, <2>5 DEF WideTerminal
    <3>2. Client!CursorSafe(ScreenWidth, FrameWidth, Client!Shown, ChunkSize, LineWidth[resp.kind])
      BY <2>2, <3>1, BarOnTerminal
    <3> QED BY <2>5, <3>2 DEF Client!RenderSafe
  <2> QED BY <2>4, <2>5
<1> QED BY <1>1, ClientInvariance, NoDoubleCount, CallInvariance, PTL DEF ClientInv

\* The chunk is requested at most MaxAttempts times in each of MaxRetries + 1
\* rounds (Execute, downloadChunk).
LEMMA CallBound == Inv /\ CallInv => call \in 0..(MaxAttempts * (MaxRetries + 1))
<1> SUFFICES ASSUME Inv, CallInv PROVE call \in 0..Budget(MaxRetries + 1)
  BY DEF Budget
<1>1. PICK s : s \in Subtasks
  BY TheChunk
<1>2. sub[s] \in {"none", "loop", "calling", "notify", "finished"}
  BY <1>1, ChunkTypes DEF TaskTypeOK
<1>3. /\ retryCount[s] \in Nat /\ retryCount[s] <= MaxRetries + 1
      /\ attempt[s] \in Nat /\ attempt[s] <= MaxAttempts
      /\ sub[s] = "calling" => retryCount[s] <= MaxRetries
  BY <1>1, ChunkTypes
<1>4. call \in Nat /\ MaxRetries \in Nat /\ MaxRetries + 1 \in Nat /\ MaxAttempts \in Nat
  BY SizesAssumption, ListAssumption DEF CallInv
<1>5. Budget(MaxRetries + 1) \in Nat
  BY <1>4, BudgetLaws
<1>6. CASE sub[s] \in {"none", "loop"}
  <2>1. call <= Budget(retryCount[s]) /\ Budget(retryCount[s]) <= Budget(MaxRetries + 1)
    BY <1>1, <1>3, <1>4, <1>6, BudgetLaws DEF CallInv
  <2>2. Budget(retryCount[s]) \in Nat
    BY <1>3, BudgetLaws
  <2> QED BY <1>4, <1>5, <2>1, <2>2
<1>7. CASE sub[s] = "calling"
  <2>1. call <= Budget(retryCount[s]) + attempt[s]
    BY <1>1, <1>7 DEF CallInv
  <2>2. /\ Budget(retryCount[s]) \in Nat
        /\ Budget(retryCount[s] + 1) = Budget(retryCount[s]) + MaxAttempts
    BY <1>3, BudgetLaws
  <2>3. retryCount[s] + 1 \in Nat /\ retryCount[s] + 1 <= MaxRetries + 1
    BY <1>3, <1>4, <1>7
  <2>4. Budget(retryCount[s] + 1) <= Budget(MaxRetries + 1)
    BY <1>4, <2>3, BudgetLaws
  <2> QED BY <1>3, <1>4, <1>5, <2>1, <2>2, <2>4
<1>8. CASE sub[s] \in {"notify", "finished"}
  <2>1. call <= Budget(MaxRetries + 1)
    BY <1>1, <1>8 DEF CallInv
  <2> QED BY <1>4, <1>5, <2>1
<1> QED BY <1>2, <1>6, <1>7, <1>8

\* Every variable of the composition stays within its type.
THEOREM E2ETypeCorrect == E2ESpec => []E2ETypeOK
<1>1. Inv => TypeOK
  BY DEF Inv, TaskTypeOK, TypeOK, Pool!Inv
<1>2. AgentInv => Agent!TypeOK
  <2> SUFFICES ASSUME AgentInv PROVE Agent!TypeOK
    OBVIOUS
  <2>1. unreported \in 0..ChunkSize
    <3>1. /\ unreported \in Nat /\ offered \in 0..ChannelCap /\ got \in 0..ChunkSize
          /\ offered + unreported + Unread <= ChunkSize
      BY DEF AgentInv
    <3>2. Unread \in Nat
      BY <3>1, SizesAssumption DEF Unread
    <3> QED BY <3>1, <3>2, SizesAssumption, CapsAssumption
  <2> QED BY <2>1 DEF AgentInv, Agent!TypeOK
<1>3. ClientTypes /\ AmountsInv => Client!TypeOK
  <2> SUFFICES ASSUME ClientTypes, AmountsInv PROVE Client!TypeOK
    OBVIOUS
  <2>1. \A i \in 1..Len(inbox) : inbox[i].kind \in Client!Kinds
    <3>1. \A m \in ClientMessages : m.kind \in Client!Kinds
      BY DEF ClientMessages, Client!Kinds
    <3> QED BY <3>1 DEF ClientTypes
  <2>2. resp.kind \in Client!Kinds /\ resp.value \in Nat
    BY DEF ClientTypes, AmountsInv
  <2> QED BY <2>1, <2>2 DEF ClientTypes, Client!TypeOK
<1>4. Inv /\ AgentInv /\ ClientTypes /\ AmountsInv /\ CallInv => E2ETypeOK
  BY <1>1, <1>2, <1>3, CallBound DEF E2ETypeOK, AmountsInv
<1> QED BY <1>4, TaskInvariance, AgentInvariance, ClientInvariance, CallInvariance, PTL
    DEF ClientInv
=============================================================================
