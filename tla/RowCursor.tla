----------------------------- MODULE RowCursor -----------------------------
(***************************************************************************)
(* What move_row promises: a cursor over the list of the live rows of a    *)
(* table.  Row 0 is in front of the first row and NumRows + 1 behind the   *)
(* last one.  A move may fail; the cursor has then lost its row until a    *)
(* MoveFirst or a MoveLast finds one again.                                *)
(***************************************************************************)
EXTENDS Integers

VARIABLES
  NumRows,  \* how many rows the table has; never changes
  row, asked, answer

Lost == -1

Init == NumRows \in Nat /\ row = 0 /\ asked = "none" /\ answer = "none"

\* A caller asks for a move ...
Ask(move) ==
  /\ asked = "none"
  /\ asked' = move
  /\ UNCHANGED <<row, answer>>

\* ... and is answered.
Reply(a) == asked' = "none" /\ answer' = a

First ==
  /\ asked = "first"
  /\ \/ NumRows > 0 /\ row' = 1 /\ Reply("true")
     \/ NumRows = 0 /\ row' \in {0, 1} /\ Reply("false")

Last ==
  /\ asked = "last"
  /\ \/ NumRows > 0 /\ row' = NumRows /\ Reply("true")
     \/ NumRows = 0 /\ row' \in {0, 1} /\ Reply("false")

\* At the end the cursor stays on the last row or goes behind it.
NextRow ==
  /\ asked = "next" /\ row # Lost
  /\ \/ row < NumRows /\ row' = row + 1 /\ Reply("true")
     \/ row >= NumRows /\ row' \in {row, NumRows + 1} /\ Reply("false")

PreviousRow ==
  /\ asked = "previous" /\ row # Lost
  /\ \/ row > 1 /\ row' = row - 1 /\ Reply("true")
     \/ row <= 1 /\ row' \in {row, 0} /\ Reply("false")

\* Nothing is promised of a relative move from a lost position.
Grope ==
  /\ asked \in {"next", "previous"} /\ row = Lost
  /\ row' = Lost
  /\ \E a \in {"true", "false"} : Reply(a)

\* A move fails, at once or on its way.
Fail == row' \in {row, Lost} /\ Reply("failed")

Stay == asked = "none" /\ answer' = "true" /\ UNCHANGED <<row, asked>>

Next ==
  /\ \/ \E move \in {"first", "last", "next", "previous"} : Ask(move)
     \/ First \/ Last \/ NextRow \/ PreviousRow \/ Grope \/ Fail \/ Stay
  /\ NumRows' = NumRows

Spec == Init /\ [][Next]_<<NumRows, row, asked, answer>>

=============================================================================
