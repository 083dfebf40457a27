-------------------------- MODULE ProgressBarProofs --------------------------
(***************************************************************************)
(* How wide a terminal the progress bar needs, and what it needs of the    *)
(* progress.                                                               *)
(***************************************************************************)
EXTENDS ProgressBar, TLAPS

\* A share n / d of a whole a, rounded down, is one of 0..a.
LEMMA Share ==
  ASSUME NEW a \in Nat, NEW d \in Nat \ {0}, NEW n \in 0..d
  PROVE  (a * n) \div d \in 0..a
<1> DEFINE q == (a * n) \div d
<1>1. q \in Int /\ d * q <= a * n /\ a * n < d * q + d
  BY SMT
<1>2. a * n >= 0 /\ a * n <= d * a
  BY SMT
<1>3. d * q <= d * a
  BY <1>1, <1>2, SMT
<1>4. q <= a
  BY <1>1, <1>3, SMT
<1>5. q >= 0
  BY <1>1, <1>2, SMT
<1> QED BY <1>1, <1>4, <1>5

\* Without a terminal the bar is two characters wide, so the progress is not
\* even looked at: the client outlives any progress (renderPlainText).
THEOREM SafeWithoutTerminal ==
  ASSUME NEW x \in Nat, NEW d \in Nat \ {0}, NEW n \in Nat
  PROVE  PlainSafe(0, x, n, d)
<1>1. TotalWidth(0, x) = 2
  BY DEF TotalWidth, AtLeast
<1>2. (0 * n) \div d = 0
  BY SMT
<1>3. CurrentPosition(0, x, n, d) = 1
  BY <1>1, <1>2, SMT DEF CurrentPosition
<1> QED BY <1>1, <1>3 DEF PlainSafe, DashesBefore, DashesAfter

\* On a terminal as wide as the bottom line, and two wider than the frames, no
\* repeat count is negative as long as the progress is at most 1
\* (renderWithCursorControl, generateProgressLine, generateOffset).
THEOREM SafeOnWideTerminals ==
  ASSUME NEW x \in Nat \ {0}, NEW w \in Nat, w >= x + 2,
         NEW b \in 0..w,
         NEW d \in Nat \ {0}, NEW n \in 0..d
  PROVE  CursorSafe(w, x, n, d, b)
<1> DEFINE a == w - x - 2
           q == (a * n) \div d
<1>1. a \in Nat /\ q \in 0..a
  BY Share
<1> HIDE DEF q
<1>2. TotalWidth(w, x) = a + 2 /\ TotalWidth(w, x) - 2 = a
  BY DEF TotalWidth, AtLeast
<1>3. CurrentPosition(w, x, n, d) = q + 1
  BY <1>2 DEF CurrentPosition, q
<1>4. /\ DashesBefore(w, x, n, d) = q
      /\ DashesAfter(w, x, n, d) = a - q
      /\ ProgressLine(w, x, n, d) = a + 3
  BY <1>1, <1>2, <1>3 DEF DashesBefore, DashesAfter, ProgressLine
<1>5. Offset(w, x, n, d) = 0 \/ Offset(w, x, n, d) = q + 1
  BY <1>1 DEF Offset, AtMost, q
<1> QED BY <1>1, <1>4, <1>5 DEF CursorSafe, PlainSafe
=============================================================================
