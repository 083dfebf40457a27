---------------------------- MODULE AgentDownload ----------------------------
(***************************************************************************)
(* The agent's side of a chunk: DownloadPart with downloadFromServer and   *)
(* the goroutine reportProgress (cmd/client/agent_download_part.go), for   *)
(* one call of the server.  The chunk is read from the origin piece by     *)
(* piece while the goroutine tells the server how much has arrived, and is *)
(* sent when it is complete.                                               *)
(*                                                                         *)
(* stream is what gRPC holds for the server; Send blocks while it is full  *)
(* (flow control) and fails once the connection is lost.  The server may   *)
(* be slow to see that, or take the stream down itself: the agent goes on, *)
(* with nothing but locals of the call, which the model then drops.        *)
(***************************************************************************)
EXTENDS Integers, Sequences

CONSTANTS
  ChunkSize,   \* pieces asked for
  ChannelCap,  \* capacity of progressChannel (10 in the code)
  StreamCap    \* messages gRPC holds

VARIABLES
  serve,       \* where the call is in DownloadPart
  source,      \* what the origin answers with: "right" or "wrong" bytes
  got,         \* pieces read and not sent
  offered,     \* pieces in progressChannel, one each
  relay,       \* where reportProgress is
  unreported,  \* pieces it has received and not reported
  failed,      \* whether the call (is about to) return an error
  stream,      \* messages on their way to the server
  open         \* whether the stream is intact

vars == <<serve, source, got, offered, relay, unreported, failed, stream, open>>

Message(kind, value) == [kind |-> kind, value |-> value]

Init ==
  /\ serve = "none"
  /\ source = "right"
  /\ got = 0
  /\ offered = 0
  /\ relay = "none"
  /\ unreported = 0
  /\ failed = FALSE
  /\ stream = <<>>
  /\ open = FALSE

\* The server calls.
Called ==
  /\ serve' = "fetch"
  /\ open' = TRUE
  /\ UNCHANGED <<source, got, offered, relay, unreported, failed, stream>>

\* The server takes messages off the stream.
Taken(rest) ==
  /\ stream' = rest
  /\ UNCHANGED <<serve, source, got, offered, relay, unreported, failed, open>>

\* The server takes its end of the stream down.
Closed ==
  /\ serve' = "none" /\ source' = "right" /\ got' = 0 /\ offered' = 0
  /\ relay' = "none" /\ unreported' = 0 /\ failed' = FALSE
  /\ stream' = <<>> /\ open' = FALSE

\* The connection breaks.
Break ==
  /\ open
  /\ open' = FALSE
  /\ UNCHANGED <<serve, source, got, offered, relay, unreported, failed, stream>>

-----------------------------------------------------------------------------
(* A name that ends in _Mutant is a plausible slip in the definition after   *)
(* it; none is part of the specification.                                  *)

\* A short body is taken for the chunk.
Read_Mutant(pieces) ==
  \/ /\ pieces < ChunkSize
     /\ got' = pieces + 1
     /\ serve' = "offer"
     /\ UNCHANGED failed
  \/ /\ serve' = "join"
     /\ UNCHANGED <<got, failed>>

\* After some pieces the next one is read; or the chunk is complete; or the
\* body breaks off, or is too short, or its last read runs past the end of the
\* chunk, which is an error like the others.
Read(pieces) ==
  \/ /\ pieces < ChunkSize
     /\ got' = pieces + 1
     /\ serve' = "offer"
     /\ UNCHANGED failed
  \/ /\ serve' = "join"
     /\ failed' = (pieces < ChunkSize)
     /\ UNCHANGED got

\* The request to the origin: it fails, is refused, or is answered with the
\* range (206) or the whole file (200), whose first bytes are then taken for
\* the chunk, wherever that begins.
Fetch ==
  /\ serve = "fetch"
  /\ \/ /\ serve' = "returned"
        /\ failed' = TRUE
        /\ UNCHANGED <<source, got, relay>>
     \/ /\ Read(0)
        /\ source' \in {"right", "wrong"}
        /\ relay' = "recv"
  /\ UNCHANGED <<offered, unreported, stream, open>>

\* A piece is reported on the channel, which blocks while that is full.
Offer ==
  /\ serve = "offer"
  /\ offered < ChannelCap
  /\ offered' = offered + 1
  /\ Read(got)
  /\ UNCHANGED <<source, relay, unreported, stream, open>>

\* The goroutine is not waited for.
Join_Mutant ==
  /\ serve = "join"
  /\ serve' = IF failed THEN "returned" ELSE "upload"
  /\ UNCHANGED <<source, got, offered, relay, unreported, failed, stream, open>>

\* The deferred calls: the channel is closed, then the goroutine waited for.
Join ==
  /\ serve = "join"
  /\ relay = "exited"
  /\ serve' = IF failed THEN "returned" ELSE "upload"
  /\ got' = IF failed THEN 0 ELSE got
  /\ UNCHANGED <<source, offered, relay, unreported, failed, stream, open>>

\* Whether Send returns, and what it does.
CanSend == ~open \/ Len(stream) < StreamCap
Sent(m) == stream' = IF open THEN Append(stream, m) ELSE stream

\* One message more is sent when nothing is left.
Upload_Mutant ==
  /\ serve = "upload"
  /\ CanSend
  /\ Sent(Message("data", source))
  /\ got' = IF open THEN got - 1 ELSE 0
  /\ failed' = ~open
  /\ serve' = IF got' < 0 \/ ~open THEN "returned" ELSE "upload"
  /\ UNCHANGED <<source, offered, relay, unreported, open>>

\* The chunk is sent, a piece a message, until none is left.
Upload ==
  /\ serve = "upload"
  /\ CanSend
  /\ Sent(Message("data", source))
  /\ got' = IF open THEN got - 1 ELSE 0
  /\ failed' = ~open
  /\ serve' = IF got' = 0 THEN "returned" ELSE "upload"
  /\ UNCHANGED <<source, offered, relay, unreported, open>>

-----------------------------------------------------------------------------
\* reportProgress receives; every two seconds it reports.
RelayReceives ==
  /\ relay = "recv" /\ offered > 0
  /\ offered' = offered - 1
  /\ unreported' = unreported + 1
  /\ \E next \in {"recv", "send"} : relay' = next
  /\ UNCHANGED <<serve, source, got, failed, stream, open>>

\* What was reported is reported again.
RelaySends_Mutant ==
  /\ relay = "send"
  /\ CanSend
  /\ Sent(Message("progress", unreported))
  /\ relay' = IF open THEN "recv" ELSE "exited"
  /\ UNCHANGED <<serve, source, got, offered, unreported, failed, open>>

\* On failure it returns, though the channel has another end.
RelaySends ==
  /\ relay = "send"
  /\ CanSend
  /\ Sent(Message("progress", unreported))
  /\ unreported' = 0
  /\ relay' = IF open THEN "recv" ELSE "exited"
  /\ UNCHANGED <<serve, source, got, offered, failed, open>>

\* The channel is closed and drained.
RelayExits_Mutant == FALSE
RelayExits ==
  /\ relay = "recv" /\ offered = 0
  /\ serve = "join"
  /\ relay' = "exited"
  /\ unreported' = 0
  /\ UNCHANGED <<serve, source, got, offered, failed, stream, open>>

ServeStep == Fetch \/ Offer \/ Join \/ Upload
RelayStep == RelayReceives \/ RelaySends \/ RelayExits

\* What the server finds behind the last message: EOF, or an error; a lost
\* connection is one at once.
AtEnd == serve = "returned" /\ ~failed /\ stream = <<>> /\ open
AtError == ~open \/ (serve = "returned" /\ failed /\ stream = <<>>)

-----------------------------------------------------------------------------
TypeOK ==
  /\ serve \in {"none", "fetch", "offer", "join", "upload", "returned"}
  /\ source \in {"right", "wrong"}
  /\ got \in 0..ChunkSize
  /\ offered \in 0..ChannelCap
  /\ relay \in {"none", "recv", "send", "exited"}
  /\ unreported \in 0..ChunkSize
  /\ failed \in BOOLEAN
  /\ Len(stream) <= StreamCap
  /\ open \in BOOLEAN

\* Two goroutines never send on one stream at a time, which gRPC forbids: the
\* chunk is sent when reportProgress has returned.
NoConcurrentSend == serve = "upload" => relay = "exited"
=============================================================================
