-------------------------- MODULE MCRecordCursor --------------------------
(* A table with columns of all three kinds for RecordCursor *)
EXTENDS RecordCursor

MCCatalog ==
  <<[id |-> 1, size |-> 4, default |-> FALSE], [id |-> 2, size |-> 1, default |-> FALSE],
    [id |-> 3, size |-> 2, default |-> FALSE],
    [id |-> 128, size |-> 0, default |-> FALSE], [id |-> 129, size |-> 0, default |-> TRUE],
    [id |-> 256, size |-> 0, default |-> FALSE], [id |-> 257, size |-> 0, default |-> TRUE],
    [id |-> 259, size |-> 0, default |-> FALSE]>>

MCFixedSizes == <<4, 1, 2>>

Var(size) == [size |-> size, null |-> FALSE]
NullVar == [size |-> 0, null |-> TRUE]
Tag(id, size) == [id |-> id, size |-> size]

\* Everything present; nulls and gaps; a long variable value; nothing at all
MCRecords ==
  {[last_fixed |-> 3, nulls |-> {1}, variable |-> <<Var(3), Var(2)>>,
    tagged |-> <<Tag(256, 5), Tag(257, 2), Tag(259, 3)>>],
   [last_fixed |-> 2, nulls |-> {}, variable |-> <<NullVar, Var(0)>>,
    tagged |-> <<Tag(257, 1), Tag(259, 0)>>],
   [last_fixed |-> 3, nulls |-> {0, 2}, variable |-> <<Var(2), Var(40)>>,
    tagged |-> <<Tag(259, 4)>>],
   [last_fixed |-> 1, nulls |-> {}, variable |-> <<>>, tagged |-> <<>>]}

=============================================================================
