--------------------------- MODULE MCLongValues ---------------------------
(* Trees of long values of up to three levels, and what looks like one     *)
EXTENDS Integers, SequencesExt

CONSTANTS Pages, Keys, NoTag

T(k, offset, size, len) ==
  [live |-> TRUE, header |-> FALSE, key |-> k, offset |-> offset, size |-> size, len |-> len]
Header(k) == [T(k, 0, 8, 8) EXCEPT !.header = TRUE]
Old(k, offset, size) == [T(k, offset, size, size) EXCEPT !.live = FALSE]

\* Key 1 in three segments, key 2 compressed in two; key 3 is not stored.
Plain == <<Header(1), T(1, 0, 5, 5), T(1, 5, 5, 5), T(1, 10, 2, 2), Header(2), T(2, 0, 3, 6), T(2, 6, 1, 4)>>

\* The same with what an update left behind, before and behind its successor
WithOld == <<Header(1), T(1, 0, 5, 5), Old(1, 5, 3), T(1, 5, 5, 5), T(1, 10, 2, 2), Old(1, 12, 4),
             Header(2), T(2, 0, 3, 6), T(2, 6, 1, 4), Old(2, 6, 2)>>

Leaf(prev, next, s) ==
  [leaf |-> TRUE, long_value |-> TRUE, prev |-> prev, next |-> next, child |-> 0, tags |-> s]
Branch(prev, next, child) ==
  [leaf |-> FALSE, long_value |-> TRUE, prev |-> prev, next |-> next, child |-> child, tags |-> <<>>]
Unused == Leaf(0, 0, <<>>)

\* The same with a segment without bytes
WithEmpty == <<Header(1), T(1, 0, 5, 5), T(1, 5, 0, 0), Header(2), T(2, 0, 3, 6), T(2, 6, 1, 4)>>

File(root, page) == [root |-> root, page |-> page @@ [p \in Pages |-> Unused]]

OneLeaf(s) == File(1, 1 :> Leaf(0, 0, s))

Part(s, n) == <<SubSeq(s, 1, n), SubSeq(s, n + 1, Len(s))>>

\* Leaves 4 and 5 with s between them, below page 1
TwoLevels(s, n) ==
  File(1, (1 :> Branch(0, 0, 4)) @@ (4 :> Leaf(0, 5, Part(s, n)[1])) @@ (5 :> Leaf(4, 0, Part(s, n)[2])))

\* The same with page 2 between page 1 and the leaves
Narrow(s, n) ==
  [TwoLevels(s, n) EXCEPT !.page[1] = Branch(0, 0, 2), !.page[2] = Branch(0, 0, 4)]

\* Pages 2 and 3 between page 1 and the leaves, a leaf each.  The leaves are linked
\* with one another or not.
Wide(s, n, linked) ==
  LET t == [TwoLevels(s, n) EXCEPT !.page[1] = Branch(0, 0, 2),
                                   !.page[2] = Branch(0, 3, 4), !.page[3] = Branch(2, 0, 5)]
  IN  IF linked THEN t ELSE [t EXCEPT !.page[4].next = 0, !.page[5].prev = 0]

Splits(s) == 1 .. Len(s) - 1

\* Two leaves below page 1 that link anyhow
Short == <<T(1, 0, 5, 5), T(1, 5, 5, 5)>>
LeavesAnyhow ==
  {File(1, (1 :> Branch(0, 0, 4)) @@ (4 :> Leaf(prev[4], next[4], Part(Short, 1)[1]))
                                  @@ (5 :> Leaf(prev[5], next[5], Part(Short, 1)[2]))) :
   prev \in [{4, 5} -> {0, 1, 4, 5}], next \in [{4, 5} -> {0, 4, 5}]}

\* Pages 1 and 2 with any children, or none, and page 2 with any links
BranchesAnyhow ==
  {File(1, (1 :> Branch(0, 0, up)) @@ (2 :> Branch(prev, next, down)) @@ (4 :> Leaf(0, 0, Short))) :
   up \in {0, 1, 2, 4}, down \in {NoTag, 0, 1, 2, 4}, prev \in {0, 1, 2}, next \in {0, 1, 2, 4}}

NotLongValue == [OneLeaf(<<>>) EXCEPT !.page[1].long_value = FALSE]
LeafNotLongValue == [TwoLevels(Plain, 3) EXCEPT !.page[5].long_value = FALSE]

MCTrees ==
  {OneLeaf(Plain), OneLeaf(WithOld), OneLeaf(WithEmpty), NotLongValue, LeafNotLongValue}
  \cup {OneLeaf(SelectSeq(WithOld, LAMBDA t : t.key = k \/ t.live)) : k \in Keys}
  \cup UNION {{TwoLevels(WithOld, n), Narrow(WithOld, n), Wide(WithOld, n, TRUE), Wide(WithOld, n, FALSE)} :
                n \in Splits(WithOld)}
  \cup LeavesAnyhow \cup BranchesAnyhow

=============================================================================
