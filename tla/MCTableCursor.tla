--------------------------- MODULE MCTableCursor ---------------------------
(* Properly linked tables for TableCursor *)
EXTENDS TableCursor

Patterns(low, high) == UNION {[1 .. n -> {"live", "defunct"}] : n \in low .. high}

Unused == [leaf |-> TRUE, child |-> 1, next |-> 0, prev |-> 0, tag0 |-> TRUE, tags |-> <<>>]

\* Leaf pages 1 .. Len(s) with the tags of s, linked both ways; page 9, when
\* there is one, is a branch page above them.
Chain(s, root) ==
  [root |-> root,
   page |-> [p \in Pages |->
     IF p = 9 THEN [Unused EXCEPT !.leaf = FALSE, !.tags = <<"live">>]
     ELSE IF p > Len(s) THEN Unused
     ELSE [leaf |-> TRUE, child |-> 1, tag0 |-> TRUE, tags |-> s[p], prev |-> p - 1,
           next |-> IF p = Len(s) THEN 0 ELSE p + 1]]]

\* Tables of one to three leaf pages of one or two records, and of two leaf pages
\* under a branch page; a table without records is a single page without tags.
LinkedTables ==
  LET leaves == Pages \ {9}
      long == {Chain(s, 1) : s \in UNION {[1 .. n -> Patterns(1, 2)] : n \in leaves}}
      deep == {Chain(s, 9) : s \in [1 .. 2 -> Patterns(1, 2)]}
  IN  {Chain(<<<<>>>>, 1)} \cup long \cup (IF 9 \in Pages THEN deep ELSE {})

=============================================================================
