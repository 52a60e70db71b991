-------------------------- MODULE TableCursorRows --------------------------
(***************************************************************************)
(* TableCursor with a history variable, the row the cursor stands for, and *)
(* the claim that on properly linked tables it implements RowCursor.       *)
(***************************************************************************)
EXTENDS MCTableCursor, FiniteSets

VARIABLE row

\* Pages are linked in the order of their numbers, so rows are numbered by page
\* and tag.
Before(p, t) == {r \in Rows : r[1] < p \/ (r[1] = p /\ r[2] < t)}

NumRows == Cardinality(Rows)

\* The row at tag t of page p.  A cursor that is on no row was left on a page
\* without live rows, at one of the two ends of the table.
RowAt(p, t) ==
  IF Rows = {} \/ p = 0 THEN 0
  ELSE IF <<p, t>> \in Rows THEN Cardinality(Before(p, t)) + 1
  ELSE IF Before(p, 1) = {} THEN 0 ELSE NumRows + 1

Running(s) == s \notin {"idle", "again"}

\* The history variable changes when a move is over.
RowStep ==
  row' = IF ~ (Running(step) /\ ~ Running(step')) THEN row
         ELSE IF result' \notin {"true", "false"} THEN -1
         ELSE IF op \in {"next", "previous"} /\ row = -1 THEN -1
         ELSE RowAt(current_page', page_tag_index')

RowsInit == Init /\ row = 0
RowsSpec == RowsInit /\ [][Next /\ RowStep]_<<vars, row>>

\* On properly linked tables every answer of move_row is the answer of a cursor
\* over the list of live rows: no row is skipped, repeated or invented by moves
\* in any order, over defunct tags and page boundaries, after errors too.
Abstract == INSTANCE RowCursor WITH
  NumRows <- NumRows, row <- row,
  asked <- IF Running(step) THEN op ELSE "none",
  answer <- IF result \in {"none", "true", "false"} THEN result ELSE "failed"

MovesOverRows == Abstract!Spec

=============================================================================
