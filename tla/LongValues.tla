----------------------------- MODULE LongValues -----------------------------
(***************************************************************************)
(* Long values: open_table reads the tree of a table's long values once,   *)
(* page by page, into lv_tags, a map from key and offset to the segment    *)
(* there; load_lv_data puts a value together from its segments.            *)
(* close_table forgets the map.  Page loads, segment reads and             *)
(* decompression may fail at any time.                                     *)
(***************************************************************************)
EXTENDS Integers, SequencesExt, Graphs

CONSTANTS
  Pages,           \* page numbers
  Trees,           \* the trees of long values a table may have
  Keys,            \* keys asked for
  CompressedKeys,  \* those of columns with the flag Compressed
  MaxDepth         \* calls of load_lv_metadata within one another that the
                   \* stack of the thread has room for

VARIABLES
  tree,            \* the tree in the file; never written
  lv_tags,         \* Table.lv_tags
  step,            \* what the running call does next; "idle" between calls,
                   \* "aborted" when the process is no more
  at,              \* the page load_lv_metadata has just been called for
  stack,           \* the while loops of load_lv_metadata that are running
  tags,            \* the segments they have collected
  key,             \* the key load_lv_data was called for
  res,             \* the segments it has appended
  result           \* what the last call returned

vars == <<tree, lv_tags, step, at, stack, tags, key, res, result>>

\* A tag of a page: a header holds only the key and the total size of the value,
\* size is what is stored behind the key, len what it decompresses to.  The child
\* of a branch page is in its first record; NoTag says that it has none.
Tag == [live : BOOLEAN, header : BOOLEAN, key : Nat, offset : Nat, size : Nat, len : Nat]
NoTag == -1
Page == [leaf : BOOLEAN, long_value : BOOLEAN, prev : Nat, next : Pages \cup {0},
         child : Pages \cup {0, NoTag}, tags : Seq(Tag)]
Tree == [root : Pages, page : [Pages -> Page]]

HeaderBytes == 8

Segment(t) == [key |-> t.key, offset |-> t.offset, size |-> t.size, len |-> t.len]

\* merge_lv_tags: a new segment replaces the one with its key and offset.
Merge(old, new) ==
  {s \in old : \A n \in new : n.key # s.key \/ n.offset # s.offset} \cup new

\* load_lv_tag: what is exactly as long as a header is taken to be one.
LoadLvTag(t) == IF t.size = HeaderBytes THEN {} ELSE {Segment(t)}

\* Mutant: the first tag that holds a record is skipped.
CollectFromTwo(old, page, skip_defunct) ==
  LET Add(collected, t) ==
        IF skip_defunct /\ ~ t.live THEN collected ELSE Merge(collected, LoadLvTag(t))
  IN  IF page.tags = <<>> THEN old ELSE FoldLeft(Add, old, Tail(page.tags))

\* The loop over the tags of a leaf page; only the one below a branch page skips
\* defunct tags.
Collect(old, page, skip_defunct) ==
  LET Add(collected, t) ==
        IF skip_defunct /\ ~ t.live THEN collected ELSE Merge(collected, LoadLvTag(t))
  IN  FoldLeft(Add, old, page.tags)

-----------------------------------------------------------------------------
Init ==
  /\ tree \in Trees
  /\ lv_tags = {} /\ tags = {} /\ stack = <<>> /\ at = 0
  /\ step = "idle" /\ key = 0 /\ res = <<>>
  /\ result = "none"

Return(outcome) ==
  /\ result' = outcome /\ step' = "idle"
  /\ at' = 0 /\ stack' = <<>> /\ tags' = {}
  /\ UNCHANGED <<tree, key>>

\* open_table on a table with long values
OpenTable ==
  /\ step = "idle"
  /\ step' = "enter" /\ at' = tree.root /\ tags' = {} /\ res' = <<>> /\ key' = 0
  /\ UNCHANGED <<tree, lv_tags, stack, result>>

\* A call of load_lv_metadata for page at
Enter ==
  LET page == tree.page[at]
  IN  /\ step = "enter" /\ Len(stack) < MaxDepth /\ UNCHANGED <<lv_tags, res>>
      /\ \/ ~ page.long_value /\ Return("no long value")
         \/ /\ page.long_value /\ page.leaf
            /\ tags' = Collect(tags, page, FALSE)
            /\ step' = "leave"
            /\ UNCHANGED <<tree, at, stack, key, result>>
         \/ /\ page.long_value /\ ~ page.leaf /\ page.child = NoTag
            /\ Return("panic")
         \/ /\ page.long_value /\ ~ page.leaf /\ page.child # NoTag
            /\ stack' = Append(stack, [prev |-> at, page |-> page.child])
            /\ step' = "walk"
            /\ UNCHANGED <<tree, at, tags, key, result>>

\* A call for which the stack has no room
StackOverflow ==
  /\ step = "enter" /\ Len(stack) = MaxDepth
  /\ step' = "aborted"
  /\ UNCHANGED <<tree, lv_tags, at, stack, tags, key, res, result>>

top == stack[Len(stack)]

\* The loop goes on to the next page of its level.
Advance(frames) ==
  LET f == frames[Len(frames)]
  IN  [frames EXCEPT ![Len(frames)] = [prev |-> f.page, page |-> tree.page[f.page].next]]

\* Mutant: the previous page is not looked at.
LinkedAnyway(page) == TRUE

\* The check of previous_page
Linked(page) == page.prev = 0 \/ page.prev = top.prev

\* One round of the while loop over the children of a branch page.  A page that
\* is no leaf is entered in turn.
Walk ==
  LET page == tree.page[top.page]
  IN  /\ step = "walk" /\ top.page # 0 /\ UNCHANGED <<lv_tags, res>>
      /\ \/ ~ Linked(page) /\ Return("wrong previous page")
         \/ /\ Linked(page) /\ ~ (page.leaf /\ page.long_value)
            /\ step' = "enter" /\ at' = top.page
            /\ UNCHANGED <<tree, stack, tags, key, result>>
         \/ /\ Linked(page) /\ page.leaf /\ page.long_value
            /\ tags' = Collect(tags, page, TRUE)
            /\ stack' = Advance(stack)
            /\ UNCHANGED <<tree, step, at, key, result>>

EndOfWalk ==
  /\ step = "walk" /\ top.page = 0
  /\ stack' = SubSeq(stack, 1, Len(stack) - 1)
  /\ step' = "leave"
  /\ UNCHANGED <<tree, lv_tags, at, tags, key, res, result>>

\* load_lv_metadata returns: to the loop that called it, which goes on, or to
\* open_table, which keeps the tags and then moves to the first row.
Leave ==
  /\ step = "leave" /\ UNCHANGED <<tree, at, tags, key, res, result>>
  /\ \/ /\ stack # <<>>
        /\ stack' = Advance(stack) /\ step' = "walk" /\ lv_tags' = lv_tags
     \/ /\ stack = <<>>
        /\ lv_tags' = tags /\ step' = "first row" /\ stack' = stack

FirstRow ==
  /\ step = "first row" /\ UNCHANGED <<lv_tags, res>>
  /\ Return("opened")

CloseTable ==
  /\ step = "idle"
  /\ lv_tags' = {} /\ result' = "closed" /\ res' = <<>> /\ key' = 0
  /\ UNCHANGED <<tree, step, at, stack, tags>>

-----------------------------------------------------------------------------
\* get_column of a long value with key k: load_lv_data
LoadLvData(k) ==
  /\ step = "idle"
  /\ step' = "append" /\ key' = k /\ res' = <<>>
  /\ UNCHANGED <<tree, lv_tags, at, stack, tags, result>>


\* How many bytes a segment adds to the value
Contributed(s) == IF key \in CompressedKeys THEN s.len ELSE s.size

Appended(pieces) == FoldLeft(LAMBDA n, s : n + Contributed(s), 0, pieces)

\* The next segment is the one whose offset is the length of what there is.
NextSegments == {s \in lv_tags : s.key = key /\ s.offset = Appended(res)}

\* One round of the loop; a segment without bytes leaves the value as it is.
AppendSegment ==
  /\ step = "append"
  /\ \E s \in NextSegments : res' = IF Contributed(s) = 0 THEN res ELSE Append(res, s)
  /\ UNCHANGED <<tree, lv_tags, step, at, stack, tags, key, result>>

EndOfData ==
  /\ step = "append" /\ NextSegments = {}
  /\ Return(IF Appended(res) > 0 THEN "value" ELSE "not found")
  /\ UNCHANGED <<lv_tags, res>>

\* A page cannot be read, a segment cannot be decompressed or the move to the
\* first row fails.
LoadFails ==
  /\ \/ step = "enter" /\ Len(stack) < MaxDepth
     \/ step = "first row"
     \/ step = "walk" /\ top.page # 0
     \/ step = "append" /\ NextSegments # {}
  /\ Return("io error")
  /\ UNCHANGED <<lv_tags, res>>

Next ==
  \/ OpenTable \/ Enter \/ StackOverflow \/ Walk \/ EndOfWalk \/ Leave \/ FirstRow \/ CloseTable
  \/ \E k \in Keys : LoadLvData(k)
  \/ AppendSegment \/ EndOfData \/ LoadFails

Spec == Init /\ [][Next]_vars

\* A call once begun goes on by itself; that it fails is not counted on.
Running ==
  \/ Enter \/ StackOverflow \/ Walk \/ EndOfWalk \/ Leave \/ FirstRow
  \/ AppendSegment \/ EndOfData
FairSpec == Spec /\ WF_vars(Running)

-----------------------------------------------------------------------------
(* Properties                                                              *)

SingleLeaf == tree.page[tree.root].leaf

\* Where the children of branch pages and the links to next pages lead
Parents == {p \in Pages : ~ tree.page[p].leaf /\ tree.page[p].child \in Pages}
Way ==
  LET edges == {<<p, tree.page[p].child>> : p \in Parents} \cup {<<p, tree.page[p].next>> : p \in Pages}
  IN  ConnectionsIn([node |-> Pages, edge |-> edges \cap (Pages \X Pages)])

LeafPages ==
  IF SingleLeaf THEN {tree.root}
  ELSE LET way == Way IN {p \in Pages : tree.page[p].leaf /\ way[tree.root, p]}

\* The tags that hold a segment, and the segments of the live ones
Records == {t \in UNION {ToSet(tree.page[p].tags) : p \in LeafPages} : ~ t.header}
Stored == {Segment(t) : t \in {t \in Records : t.live}}

\* lv_tags is complete or empty: a load that fails in the middle of the tree
\* leaves no half of it behind.  What is in it are the live segments, but for a
\* tree of a single leaf: there load_lv_metadata does not skip defunct tags
\* (reader.rs:1173), and every place of a segment has one that is or was there.
AllOrNothing ==
  lv_tags # {} =>
    IF SingleLeaf
    THEN /\ lv_tags \subseteq {Segment(t) : t \in Records}
         /\ \A t \in Records : \E s \in lv_tags : s.key = t.key /\ s.offset = t.offset
    ELSE lv_tags = Stored

OfKey(segments) == {s \in segments : s.key = key}

\* Defunct segments of the key in a tree of a single leaf
Outdated == SingleLeaf /\ \E t \in Records : ~ t.live /\ t.key = key


\* No link to a next page leads to a page that names no previous page.
NoWayBack ==
  \A p \in Pages : LET next == tree.page[p].next IN next # 0 => tree.page[next].prev # 0

\* No way along children and next pages leads from the child of a page to it.
Downward == LET way == Way IN \A p \in Parents : ~ way[tree.page[p].child, p]

\* load_lv_data has come to a segment without bytes: it looks there for ever.
AtEmptySegment == step = "append" /\ \E s \in NextSegments : Contributed(s) = 0

\* Every call returns.  The check of previous_page (reader.rs:1129) stops the walk
\* in every circle of next pages, but for those that lead back to a page that
\* names no previous page; what else would keep load_lv_metadata going is a
\* child that leads up, and load_lv_data a segment without bytes.
Returns == (NoWayBack /\ Downward /\ step # "idle") ~> (step = "idle" \/ AtEmptySegment)

=============================================================================
