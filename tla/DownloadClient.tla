---------------------------- MODULE DownloadClient ---------------------------
(***************************************************************************)
(* The process that asked for a download: the receive loop of download     *)
(* (cmd/client/download_mode.go), the file it writes, and the progress bar *)
(* that a goroutine of its own draws.                                      *)
(***************************************************************************)
EXTENDS Integers, Sequences, ProgressBar

CONSTANTS
  Total,       \* pieces of the file, as the client has asked the origin
  ScreenWidth, \* of the terminal; 0 if the output is none
  FrameWidth,  \* of the animation (4 in the code)
  LineWidth    \* of fmtProgress, per kind of message

VARIABLES
  inbox,       \* messages on their way to the client
  ending,      \* how the server's call has returned, if it has
  phase,       \* the receive loop, or how the process has ended
  output,      \* content of the output file
  resp         \* the last message

vars == <<inbox, ending, phase, output, resp>>

Kinds == {"pending", "progress", "validating", "data"}
Pending == [kind |-> "pending", value |-> 0]

Init ==
  /\ inbox = <<Pending>>
  /\ ending = "open"
  /\ phase = "receiving"
  /\ output = "none"
  /\ resp = Pending

\* The process ends; what it has not read is lost.
Exits(how) ==
  /\ phase' = how
  /\ inbox' = <<>>
  /\ resp' = Pending
  /\ UNCHANGED <<ending, output>>

\* A message is received.  The first one creates the file; data is written to
\* it.  Either may fail, which ends the process.
Receive ==
  /\ phase = "receiving"
  /\ inbox # <<>>
  /\ \/ Exits("failed")
     \/ LET m == Head(inbox)
        IN  /\ inbox' = Tail(inbox)
            /\ resp' = [m EXCEPT !.value = IF m.kind = "progress" THEN @ ELSE 0]
            /\ output' = IF m.kind = "data" THEN m.value
                         ELSE IF output = "none" THEN "empty" ELSE output
            /\ UNCHANGED <<ending, phase>>

\* Any end of the stream is a success.
EndReceived_Mutant ==
  /\ phase = "receiving"
  /\ inbox = <<>> /\ ending # "open"
  /\ Exits("completed")

\* EOF, or the error of the call.  Nothing is compared with the size.
EndReceived ==
  /\ phase = "receiving"
  /\ inbox = <<>>
  /\ \/ ending = "ok" /\ Exits("completed")
     \/ ending = "error" /\ Exits("failed")

\* The connection breaks, or the process is killed.
Lost == phase = "receiving" /\ Exits("failed")

\* The bar's progress, in pieces, behind a message.
Shown ==
  CASE resp.kind = "pending"  -> 0
    [] resp.kind = "progress" -> resp.value
    [] OTHER                  -> Total

\* The bar is drawn every 400 ms; it may be the end of the process.
RenderSafe ==
  IF ScreenWidth = 0 THEN PlainSafe(0, FrameWidth, Shown, Total)
  ELSE CursorSafe(ScreenWidth, FrameWidth, Shown, Total, LineWidth[resp.kind])

RenderPanics ==
  /\ phase = "receiving"
  /\ ~RenderSafe
  /\ Exits("panicked")

ClientStep == Receive \/ EndReceived \/ RenderPanics

-----------------------------------------------------------------------------
TypeOK ==
  /\ \A i \in 1..Len(inbox) : inbox[i].kind \in Kinds
  /\ ending \in {"open", "ok", "error"}
  /\ phase \in {"receiving", "completed", "failed", "panicked"}
  /\ output \in {"none", "empty", "part", "good", "bad"}
  /\ resp.kind \in Kinds /\ resp.value \in Nat
=============================================================================
