---------------------------- MODULE RecordCursor ----------------------------
(***************************************************************************)
(* get_column: finding a column in the record under the cursor.  A record  *)
(* holds its fixed columns, then the variable ones, then the tagged ones,  *)
(* and is read from front to back; LastLoadState remembers how far the     *)
(* last call got, so that the columns of a row can be read in one pass.    *)
(*                                                                         *)
(* Values are stretches of the record, counted from its data definition    *)
(* header.  The flag byte of a tagged value is left out.  The row under    *)
(* the cursor is a live record of a leaf page (TableCursor), so the checks *)
(* of the page flags and of the tag index at the head of load_data pass.   *)
(***************************************************************************)
EXTENDS Integers, Sequences, FiniteSetsExt

CONSTANTS
  Catalog,         \* column_catalog_definition_array: [id, size, default]
  LongColumns,     \* tagged columns kept as long values or compressed
  FixedSizes,      \* the sizes of the fixed columns 1, 2, ... of the records
  Records,         \* the records a table may hold
  NumRows,         \* bound: number of rows
  UnknownColumns,  \* identifiers asked for that no column has
  MayFail,         \* TRUE: loads of pages and of long values may fail
  MaxFailures      \* bound: failures after which a call still takes up LastLoadState

VARIABLES
  rows,            \* the records of the table; never written
  overflow_checks, \* a build where integer underflow panics; never written
  row,             \* the row under the cursor, 0 for an empty table
  lls,             \* LastLoadState
  step,            \* what the running call does next; "idle" between calls
  column_id,       \* the column asked for
  i,               \* index of the loop over the catalog
  cold,            \* the page of the record has to be read and cannot be
  result,          \* what the last call returned
  failures         \* history: calls that failed since LastLoadState was reset

vars == <<rows, overflow_checks, row, lls, step, column_id, i, cold, result, failures>>

HeaderSize == 4        \* DataDefinitionHeader
MaxPageSize == 32768
MaxU16 == 65535

Columns == {Catalog[k] : k \in 1 .. Len(Catalog)}
Identifiers == {c.id : c \in Columns}
Tagged == {id \in Identifiers : id > 255}

-----------------------------------------------------------------------------
(* A record: last_fixed and the set of mask bits that are set; the sizes   *)
(* and null flags of the variable columns 128 .. last_variable; the tagged *)
(* columns with their sizes.                                               *)

SizeSum(s, n) == MapThenSumSet(LAMBDA k : s[k].size, 1 .. n)
FixedSum(n) == MapThenSumSet(LAMBDA k : FixedSizes[k], 1 .. n)

\* variable_size_data_types_offset: behind the fixed columns and their mask
VarTypes(r) == HeaderSize + FixedSum(r.last_fixed) + ((r.last_fixed + 7) \div 8)
LastVariable(r) == 127 + Len(r.variable)
VarValues(r) == VarTypes(r) + 2 * Len(r.variable)
VarEnd(r, id) == SizeSum(r.variable, id - 127)
TagTypes(r) == VarValues(r) + VarEnd(r, LastVariable(r))
TagOffset(r, k) == 4 * Len(r.tagged) + SizeSum(r.tagged, k - 1)
RecordSize(r) == TagTypes(r) + TagOffset(r, Len(r.tagged) + 1)

\* What a tagged definition read at an offset may be.  Where there is none,
\* the bytes of something else are taken for one.
DefinitionsAt(r, offset) ==
  LET places == {k \in 1 .. Len(r.tagged) : offset = TagTypes(r) + 4 * (k - 1)}
  IN  IF places # {}
      THEN {[id |-> r.tagged[k].id, offset |-> TagOffset(r, k)] : k \in places}
      ELSE [id : Tagged \cup {0}, offset : {0, 4, 9}]

-----------------------------------------------------------------------------
(* LastLoadState                                                           *)

NoTagState == [types_offset |-> 0, identifier |-> 0, type_offset |-> 0,
               offset_data_size |-> 0, remaining |-> 0]

LastLoadStateInit(r) ==
  [row |-> r, last_column |-> 0, offset |-> 0, current_type |-> 0,
   value_offset |-> 0, previous_size |-> 0, tag |-> NoTagState]

Outcome(kind, at, len) == [kind |-> kind, at |-> at, len |-> len]
NoResult == Outcome("none", 0, 0)
Null == Outcome("null", 0, 0)
Default == Outcome("default", 0, 0)
LoadError == Outcome("load error", 0, 0)     \* a page or a long value cannot be read
RecordError == Outcome("record error", 0, 0) \* the record makes no sense
NotFound == Outcome("not found", 0, 0)       \* the column is not in the catalog
Panic == Outcome("panic", 0, 0)

Init ==
  /\ rows \in [1 .. NumRows -> Records]
  /\ overflow_checks \in BOOLEAN
  /\ row \in {0, 1}
  /\ lls = LastLoadStateInit(0)
  /\ step = "idle" /\ column_id = 0 /\ i = 1 /\ cold = FALSE
  /\ result = NoResult
  /\ failures = 0

record == rows[row]
col == Catalog[i]
Wanted == col.id = column_id

\* The end of a call that has moved LastLoadState on to s: the column is noted
\* after a success, and only then.  A panic is the end of the program.
AnswerWith(outcome, s) ==
  LET failed == outcome \in {LoadError, RecordError, NotFound, Panic}
  IN  /\ result' = outcome
      /\ step' = IF outcome = Panic THEN "panicked" ELSE "idle"
      /\ lls' = IF failed THEN s ELSE [s EXCEPT !.last_column = column_id]
      /\ failures' = IF failed THEN failures + 1 ELSE failures
      /\ i' = 1 /\ cold' = FALSE
      /\ UNCHANGED <<rows, overflow_checks, row, column_id>>

Answer(outcome) == AnswerWith(outcome, lls)

\* The call goes on: LastLoadState is s, stage is what comes next.
GoOn(s, stage, index, unread) ==
  /\ lls' = s /\ step' = stage /\ i' = index /\ cold' = unread
  /\ UNCHANGED <<rows, overflow_checks, row, column_id, result, failures>>

\* Arithmetic on u16: an underflow panics or wraps, depending on the build.
Wrapped(n) == n % (MaxU16 + 1)
Checked(underflow, action) ==
  \/ overflow_checks /\ underflow /\ Answer(Panic)
  \/ ~ (overflow_checks /\ underflow) /\ action

\* read_bytes of a value; a size that has wrapped reaches beyond every page.
ReadValue(at, size) ==
  IF size > MaxPageSize THEN Panic ELSE Outcome("value", at, size)

-----------------------------------------------------------------------------
(* load_data up to its loop                                                *)

\* Mutant: the state is kept when the same column is asked for again.
ReviewLastLoadStateKeeps(c) ==
  IF lls.row # row \/ c < lls.last_column THEN LastLoadStateInit(row) ELSE lls

\* Mutant: only the row and the column are reset.
ReviewLastLoadStateShallow(c) ==
  IF lls.row # row \/ c <= lls.last_column
  THEN [lls EXCEPT !.row = row, !.last_column = 0] ELSE lls

\* review_last_load_state
ReviewLastLoadState(c) ==
  IF lls.row # row \/ c <= lls.last_column THEN LastLoadStateInit(row) ELSE lls

\* What is read from the head of the record when no column was found in it yet:
\* tag_state and previous_variable_size_data_type_size are not set here.
ReadHead(s) ==
  [s EXCEPT !.offset = HeaderSize, !.current_type = 127, !.value_offset = VarValues(record)]

IndexOf(c) == CHOOSE k \in 1 .. Len(Catalog) : Catalog[k].id = c

\* get_column.  The page of the record may have left the cache: then the first
\* thing read from it, here or later in the call, may fail.
GetColumn(c) ==
  LET s == ReviewLastLoadState(c)
      since == IF s = LastLoadStateInit(row) THEN 0 ELSE failures
  IN  /\ step = "idle" /\ row # 0
      /\ failures <= MaxFailures \/ s = LastLoadStateInit(row)
      /\ column_id' = c
      /\ cold' \in {FALSE, MayFail}
      /\ UNCHANGED <<rows, overflow_checks, row>>
      /\ \/ /\ s.last_column = 0 /\ cold'
            /\ result' = LoadError /\ step' = "idle" /\ lls' = s /\ failures' = since + 1 /\ i' = 1
         \/ /\ s.last_column = 0 /\ ~ cold'
            /\ lls' = ReadHead(s) /\ step' = "column" /\ i' = 1
            /\ failures' = since /\ result' = result
         \/ /\ s.last_column # 0
            /\ lls' = s /\ step' = "column" /\ i' = IndexOf(s.last_column)
            /\ UNCHANGED <<failures, result>>

\* A cursor on no row: an empty table
GetFromNoRow(c) ==
  /\ step = "idle" /\ row = 0
  /\ lls' = [ReviewLastLoadState(c) EXCEPT !.last_column = c]
  /\ column_id' = c /\ result' = Null
  /\ UNCHANGED <<rows, overflow_checks, row, step, i, cold, failures>>

-----------------------------------------------------------------------------
(* The loop over the catalog                                               *)

AtColumn == step = "column" /\ i <= Len(Catalog)

\* Fixed columns: the null mask is looked up by position in the catalog.
FixedHere == AtColumn /\ col.id <= 127 /\ col.id <= record.last_fixed

SkipFixed ==
  FixedHere /\ ~ Wanted /\ GoOn([lls EXCEPT !.offset = @ + col.size], "over", i, cold)

FoundFixed ==
  /\ FixedHere /\ Wanted
  /\ \/ i - 1 \in record.nulls /\ Answer(Null)
     \/ i - 1 \notin record.nulls /\ cold /\ Answer(LoadError)
     \/ i - 1 \notin record.nulls /\ ~ cold /\ Answer(ReadValue(lls.offset, col.size))

NoFixed ==
  /\ AtColumn /\ col.id <= 127 /\ col.id > record.last_fixed
  /\ \/ Wanted /\ Answer(Null)
     \/ ~ Wanted /\ GoOn(lls, "over", i, cold)

\* Variable columns: the while loop reads the table of their ends entry by entry,
\* from where the last call stopped.
VariableHere == AtColumn /\ col.id > 127 /\ lls.current_type < LastVariable(record)

PassedVariable ==
  VariableHere /\ lls.current_type >= col.id /\ GoOn(lls, "over", i, cold)

\* The entry of the column itself, with a value: its size is the distance from
\* the last end seen.
TakeVariable(s) ==
  LET end == VarEnd(record, col.id)
      size == Wrapped(end - lls.previous_size)
      t == [s EXCEPT !.value_offset = Wrapped(@ + size), !.previous_size = end]
  IN  Checked(end < lls.previous_size,
        \/ Wanted /\ AnswerWith(ReadValue(lls.value_offset, size), t)
        \/ ~ Wanted /\ GoOn(t, "over", i, FALSE))

ReadVariable ==
  LET id == lls.current_type + 1
      s == [lls EXCEPT !.current_type = id]
      valued == id = col.id /\ ~ record.variable[id - 127].null
      last == id >= col.id \/ id >= LastVariable(record)
  IN  /\ VariableHere /\ lls.current_type < col.id
      /\ \/ cold /\ Answer(LoadError)
         \/ ~ cold /\ valued /\ TakeVariable(s)
         \/ ~ cold /\ ~ valued /\ GoOn(s, IF last THEN "over" ELSE "column", i, FALSE)

-----------------------------------------------------------------------------
(* Tagged columns: load_tagged_data_linear.  The definitions are read one  *)
(* ahead: tag.identifier is the next tagged column of the record.          *)

TaggedHere == AtColumn /\ col.id > 127 /\ lls.current_type >= LastVariable(record)

WithDefinition(s, d) ==
  [s EXCEPT !.offset = @ + 4, !.tag.identifier = d.id, !.tag.type_offset = d.offset,
            !.tag.remaining = Wrapped(@ - 4)]

\* init_tag_state.  An error leaves types_offset set, which is what tells later
\* calls that the state is there.
InitTagState ==
  LET at == lls.value_offset
      s == [lls EXCEPT !.tag.types_offset = at]
      t == [s EXCEPT !.offset = at, !.tag.remaining = RecordSize(record) - at]
  IN  /\ TaggedHere /\ lls.tag.types_offset = 0
      /\ \/ /\ at > RecordSize(record)
            /\ Checked(TRUE, AnswerWith(RecordError, s))
         \/ at = RecordSize(record) /\ GoOn(t, "tagged", i, cold)
         \/ at < RecordSize(record) /\ cold /\ AnswerWith(LoadError, t)
         \/ /\ at < RecordSize(record) /\ ~ cold
            /\ \E d \in DefinitionsAt(record, at) :
                 LET u == WithDefinition(t, d)
                 IN  \/ d.offset = 0 /\ AnswerWith(RecordError, [u EXCEPT !.tag.remaining = t.tag.remaining])
                     \/ /\ d.offset # 0
                        /\ Checked(t.tag.remaining < 4,
                             GoOn([u EXCEPT !.tag.offset_data_size = d.offset - 4], "tagged", i, FALSE))

HasTagState == TaggedHere /\ lls.tag.types_offset # 0 /\ GoOn(lls, "tagged", i, cold)

NextTagged == lls.tag.remaining > 0 /\ col.id = lls.tag.identifier

OtherTagged == step = "tagged" /\ ~ NextTagged /\ GoOn(lls, "over", i, cold)

\* load_tagged_column: long values and compressed ones may fail to load.
LoadTaggedColumn(s, at, size) ==
  \/ AnswerWith(ReadValue(at, size), s)
  \/ MayFail /\ col.id \in LongColumns /\ AnswerWith(LoadError, s)

\* The value that starts at previous ends where the next one starts; the last
\* one takes all that is left.  Its flag byte, where it has one, is read whether
\* the column is wanted or not.
PassTagged(s, previous) ==
  LET next == s.tag.type_offset
      size == IF next > previous THEN next - previous ELSE s.tag.remaining
      t == [s EXCEPT !.tag.remaining = Wrapped(@ - size)]
  IN  Checked(size > s.tag.remaining,
        \/ ~ (Wanted /\ size > 0) /\ GoOn(t, "over", i, cold)
        \/ size > 0 /\ cold /\ AnswerWith(LoadError, t)
        \/ Wanted /\ size > 0 /\ ~ cold /\ LoadTaggedColumn(t, s.tag.types_offset + previous, size))

TakeTagged ==
  LET ahead == lls.tag.offset_data_size
  IN  /\ step = "tagged" /\ NextTagged
      /\ \/ ahead > 0 /\ cold /\ Answer(LoadError)
         \/ /\ ahead > 0 /\ ~ cold
            /\ \E d \in DefinitionsAt(record, lls.offset) :
                 Checked(ahead < 4 \/ lls.tag.remaining < 4,
                   PassTagged([WithDefinition(lls, d) EXCEPT !.tag.offset_data_size = Wrapped(ahead - 4)],
                              lls.tag.type_offset))
         \/ ahead = 0 /\ PassTagged(lls, lls.tag.type_offset)

-----------------------------------------------------------------------------
\* The column is not in the record.
ColumnOver ==
  /\ step = "over"
  /\ \/ Wanted /\ Answer(IF col.default THEN Default ELSE Null)
     \/ ~ Wanted /\ GoOn(lls, "column", i + 1, cold)

ColumnNotFound == step = "column" /\ i > Len(Catalog) /\ Answer(NotFound)

\* move_row, as far as load_data sees it
MoveTo(r) ==
  /\ step = "idle" /\ row # 0 /\ r # row
  /\ row' = r /\ result' = NoResult
  /\ UNCHANGED <<rows, overflow_checks, lls, step, column_id, i, cold, failures>>

Next ==
  \/ \E c \in Identifiers \cup UnknownColumns : GetColumn(c) \/ GetFromNoRow(c)
  \/ \E r \in 1 .. NumRows : MoveTo(r)
  \/ SkipFixed \/ FoundFixed \/ NoFixed
  \/ PassedVariable \/ ReadVariable
  \/ InitTagState \/ HasTagState \/ OtherTagged \/ TakeTagged
  \/ ColumnOver \/ ColumnNotFound

Spec == Init /\ [][Next]_vars

-----------------------------------------------------------------------------
(* Properties                                                              *)

\* Where the value of a column of a record is, by the layout of the record alone.
Value(r, c) ==
  LET absent == IF Catalog[IndexOf(c)].default THEN Default ELSE Null
      stretch(at, len) == Outcome("value", at, len)
      places == {k \in 1 .. Len(r.tagged) : r.tagged[k].id = c /\ r.tagged[k].size > 0}
  IN  CASE c <= 127 ->
             IF c > r.last_fixed \/ c - 1 \in r.nulls THEN Null
             ELSE stretch(HeaderSize + FixedSum(c - 1), FixedSizes[c])
        [] c \in 128 .. LastVariable(r) ->
             IF r.variable[c - 127].null THEN absent
             ELSE stretch(VarValues(r) + VarEnd(r, c - 1), r.variable[c - 127].size)
        [] OTHER ->
             IF places = {} THEN absent
             ELSE LET k == CHOOSE k \in places : TRUE
                  IN  stretch(TagTypes(r) + TagOffset(r, k), r.tagged[k].size)

Answered == step = "idle" /\ row # 0 /\ result.kind \in {"value", "null", "default"}

\* In whatever order the columns of the rows are asked for, and wherever the
\* state of the last call is taken up again: as long as no call has failed since
\* LastLoadState was reset, get_column finds the very bytes of its column.
CleanMeansExact == failures = 0 /\ Answered => result = Value(record, column_id)

\* The first call to fail since the reset could not load something or was asked
\* for a column that does not exist: on well formed records the state taken up
\* again leads by itself to no error and to no panic.
FirstFailureExplained ==
  step \in {"idle", "panicked"} /\ failures = 1 =>
    result \notin {RecordError, NotFound, Panic} \/ column_id \in UnknownColumns

\* get_row answers None only for a field that is NULL.
NoneMeansNull == Answered /\ result = Null => Value(record, column_id) = Null

=============================================================================
