----------------------------- MODULE ProgressBar -----------------------------
(***************************************************************************)
(* The arithmetic of the client's progress bar,                            *)
(* internal/progressbar/progressbar.go: how often render repeats a         *)
(* character.  A negative number panics.                                   *)
(*                                                                         *)
(* The progress is n / d, as a floating-point number in the code; its      *)
(* rounding is left out.  The terminal is w wide, the frames are x wide,   *)
(* all lines of all frames (New refuses others).                           *)
(***************************************************************************)
EXTENDS Integers

AtLeast(a, b) == IF a < b THEN b ELSE a
AtMost(a, b) == IF a < b THEN a ELSE b

\* generateProgressLine: [----^------]
TotalWidth(w, x) == AtLeast(w - x, 2)
CurrentPosition_Mutant(w, x, n, d) == (TotalWidth(w, x) * n) \div d + 1   \* brackets forgotten
CurrentPosition(w, x, n, d) == ((TotalWidth(w, x) - 2) * n) \div d + 1
DashesBefore(w, x, n, d) == CurrentPosition(w, x, n, d) - 1
DashesAfter(w, x, n, d) == TotalWidth(w, x) - CurrentPosition(w, x, n, d) - 1
ProgressLine(w, x, n, d) == DashesBefore(w, x, n, d) + DashesAfter(w, x, n, d) + 3

\* generateOffset: where the frame is drawn.  Only here the progress is cut.
Offset(w, x, n, d) ==
  IF w - x - 2 <= 0 THEN 0 ELSE ((w - x - 2) * AtMost(n, d)) \div d + 1

\* renderPlainText, whose terminal has no width: the progress line.
PlainSafe(w, x, n, d) == DashesBefore(w, x, n, d) >= 0 /\ DashesAfter(w, x, n, d) >= 0

\* renderWithCursorControl, with a bottom line of b characters: the progress
\* line, and the padding of the frame and of the two lines below it.
CursorSafe(w, x, n, d, b) ==
  /\ PlainSafe(w, x, n, d)
  /\ Offset(w, x, n, d) >= 0
  /\ w - Offset(w, x, n, d) - x >= 0
  /\ w - ProgressLine(w, x, n, d) >= 0
  /\ w - b >= 0
=============================================================================
