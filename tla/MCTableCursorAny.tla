-------------------------- MODULE MCTableCursorAny --------------------------
(* Page graphs with any links at all for TableCursor *)
EXTENDS TableCursor

Links == [next : Pages \cup {0}, prev : Pages \cup {0}]

\* Leaf pages with the links and the tags given.  A page may hold a live row, a
\* defunct one, no row, or no tags at all.
Leaf(link, has) ==
  [leaf |-> TRUE, child |-> 1, next |-> link.next, prev |-> link.prev, tag0 |-> has # "no tags",
   tags |-> IF has \in {"live", "defunct"} THEN <<has>> ELSE <<>>]

Leaves(links, has) == [p \in Pages |-> Leaf(links[p], has[p])]

\* Two pages of any kind that link in any way, the third alone.
Pairs ==
  {Leaves(links, has) :
     links \in {l \in [Pages -> Links] : l[3] = [next |-> 0, prev |-> 0] /\ \A p \in {1, 2} : l[p].next # 3 /\ l[p].prev # 3},
     has \in {h \in [Pages -> {"live", "defunct", "no rows", "no tags"}] : h[3] = "live"}}

\* Three pages that link in any way in one direction: forward, with no way back,
\* and backward, from a chain that is in order.  Of two tables that differ by the
\* numbers of pages 2 and 3 only, one is enough.
Threes ==
  LET kinds == [Pages -> {"live", "defunct"}]
      forward == {l \in [Pages -> Links] : (\A p \in Pages : l[p].prev = 0) /\ l[1].next # 3}
      backward == {l \in [Pages -> Links] : \A p \in Pages : l[p].next = (p + 1) % 4}
  IN  {Leaves(links, has) : links \in forward \cup backward, has \in kinds}

\* Branch pages with any first child or without one, and leaf pages on their own.
Trees ==
  LET branch == [leaf : {FALSE}, child : Pages, next : {0}, prev : {0}, tag0 : {TRUE}, tags : {<<"live">>, <<>>}]
  IN  [Pages -> branch \cup {Leaf([next |-> 0, prev |-> 0], "live")}]

AnyTables == {[root |-> 1, page |-> f] : f \in Pairs \cup Threes \cup Trees}

=============================================================================
