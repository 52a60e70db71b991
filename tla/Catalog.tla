------------------------------ MODULE Catalog ------------------------------
(***************************************************************************)
(* load_catalog: the leaf pages of the catalog are walked along next_page  *)
(* and their records are grouped into tables, each with its columns and    *)
(* its tree of long values.  A page must name the page before it as its    *)
(* previous page, or none: this check is all that stops a circle.          *)
(***************************************************************************)
EXTENDS Integers, SequencesExt

CONSTANTS
  Pages,            \* page numbers
  Root,             \* FixedPageNumber::Catalog
  Files,            \* the catalogs a file may hold
  MaxVisits         \* bound: pages visited in one walk

VARIABLES
  pages,            \* the pages of the file; never written
  page_number,      \* the page to visit next, or under way
  prev_page_number,
  todo,             \* records of the page under way that are still to be read
  table_def,        \* the table that is put together
  res,              \* the tables put together so far
  step,             \* "start", "walk", "page", "done"
  outcome,          \* what load_catalog returned
  walk,             \* history: the pages visited, in order
  repeated          \* history: the page that was the first to be visited again

vars == <<pages, page_number, prev_page_number, todo, table_def, res, step, outcome, walk, repeated>>

Kinds == {"table", "column", "long value", "index", "callback", "unhandled"}
Item == [kind : Kinds, name : Nat, defunct : BOOLEAN]

\* The child of a page is in its first record; NoTag says that it has none.
NoTag == -1
Page == [leaf : BOOLEAN, parent : BOOLEAN, child : Pages \cup {0, NoTag}, prev : Pages \cup {0},
         next : Pages \cup {0}, items : Seq(Item)]

ASSUME CatalogAssumption ==
  /\ Root \in Pages /\ Pages \subseteq Nat \ {0}
  /\ Files \subseteq [Pages -> Page]
  /\ MaxVisits \in Nat

NoName == 0
NoTable == [table |-> NoName, columns |-> <<>>, long_value |-> NoName]

Init ==
  /\ pages \in Files
  /\ page_number = Root /\ prev_page_number = Root
  /\ todo = <<>> /\ table_def = NoTable /\ res = <<>>
  /\ step = "start" /\ outcome = "none"
  /\ walk = <<>> /\ repeated = 0

Return(o) ==
  /\ outcome' = o /\ step' = "done"
  /\ UNCHANGED <<pages, page_number, prev_page_number, todo, table_def, walk, repeated>>

\* The root page: the walk begins at its first child or at the page itself.
Start ==
  LET root == pages[Root]
      first == IF root.parent THEN root.child ELSE Root
  IN  /\ step = "start"
      /\ \/ ~ root.parent /\ ~ root.leaf /\ Return("no parent, no leaf") /\ res' = res
         \/ root.parent /\ root.child = NoTag /\ Return("panic") /\ res' = res
         \/ /\ IF root.parent THEN root.child # NoTag ELSE root.leaf
            /\ page_number' = first /\ step' = "walk"
            /\ UNCHANGED <<pages, prev_page_number, todo, table_def, res, outcome, walk, repeated>>

\* Mutant: the previous page is not checked.
LinkedUnchecked == TRUE

\* Mutant: the page itself passes for the previous one.
LinkedToItself ==
  pages[page_number].prev \in {0, page_number} \/ pages[page_number].prev = prev_page_number

\* The check of previous_page
Linked == pages[page_number].prev = 0 \/ pages[page_number].prev = prev_page_number

Visit ==
  LET page == pages[page_number]
  IN  /\ step = "walk" /\ page_number # 0 /\ Len(walk) < MaxVisits
      /\ \/ ~ Linked /\ Return("wrong previous page") /\ res' = res
         \/ Linked /\ ~ page.leaf /\ Return("no leaf") /\ res' = res
         \/ /\ Linked /\ page.leaf
            /\ todo' = page.items /\ step' = "page"
            /\ walk' = Append(walk, page_number)
            /\ repeated' = IF repeated = 0 /\ page_number \in ToSet(walk) THEN page_number ELSE repeated
            /\ UNCHANGED <<pages, page_number, prev_page_number, table_def, res, outcome>>

-----------------------------------------------------------------------------
(* One record of a page                                                    *)

item == Head(todo)
AtItem(kind) == step = "page" /\ todo # <<>> /\ ~ item.defunct /\ item.kind = kind

NextItem ==
  /\ todo' = Tail(todo)
  /\ UNCHANGED <<pages, page_number, prev_page_number, step, outcome, walk, repeated>>

\* Mutant: the record after a defunct one is skipped with it.
SkipDefunctAndNext ==
  /\ step = "page" /\ todo # <<>> /\ item.defunct
  /\ todo' = IF Len(todo) > 1 THEN Tail(Tail(todo)) ELSE <<>>
  /\ UNCHANGED <<pages, page_number, prev_page_number, table_def, res, step, outcome, walk, repeated>>

SkipDefunct ==
  /\ step = "page" /\ todo # <<>> /\ item.defunct
  /\ NextItem /\ UNCHANGED <<table_def, res>>

TableItem ==
  /\ AtItem("table")
  /\ \/ /\ table_def.table # NoName
        /\ res' = Append(res, table_def)
        /\ table_def' = [NoTable EXCEPT !.table = item.name]
        /\ NextItem
     \/ /\ table_def.table = NoName /\ (table_def.columns # <<>> \/ table_def.long_value # NoName)
        /\ Return("corrupted table") /\ res' = res
     \/ /\ table_def = NoTable
        /\ table_def' = [NoTable EXCEPT !.table = item.name]
        /\ NextItem /\ res' = res

ColumnItem ==
  /\ AtItem("column")
  /\ table_def' = [table_def EXCEPT !.columns = Append(@, item.name)]
  /\ NextItem /\ UNCHANGED res

LongValueItem ==
  /\ AtItem("long value") /\ UNCHANGED res
  /\ \/ table_def.long_value # NoName /\ Return("duplicate")
     \/ /\ table_def.long_value = NoName
        /\ table_def' = [table_def EXCEPT !.long_value = item.name]
        /\ NextItem

IgnoredItem ==
  /\ AtItem("index") \/ AtItem("callback")
  /\ NextItem /\ UNCHANGED <<table_def, res>>

UnhandledItem == AtItem("unhandled") /\ Return("unhandled") /\ UNCHANGED res

EndOfPage ==
  /\ step = "page" /\ todo = <<>>
  /\ prev_page_number' = page_number /\ page_number' = pages[page_number].next
  /\ step' = "walk"
  /\ UNCHANGED <<pages, todo, table_def, res, outcome, walk, repeated>>

\* The last table is still to be added.
Finish ==
  /\ step = "walk" /\ page_number = 0
  /\ Return("ok")
  /\ res' = IF table_def.table # NoName THEN Append(res, table_def) ELSE res

LoadFails ==
  /\ step = "start" \/ (step = "walk" /\ page_number # 0)
  /\ Return("io error") /\ UNCHANGED res

Next ==
  \/ Start \/ Visit \/ SkipDefunct \/ TableItem \/ ColumnItem \/ LongValueItem
  \/ IgnoredItem \/ UnhandledItem \/ EndOfPage \/ Finish \/ LoadFails

Spec == Init /\ [][Next]_vars

\* load_catalog goes on by itself; that a page cannot be read is not counted on.
Working ==
  \/ Start \/ Visit \/ SkipDefunct \/ TableItem \/ ColumnItem \/ LongValueItem
  \/ IgnoredItem \/ UnhandledItem \/ EndOfPage \/ Finish
FairSpec == Spec /\ WF_vars(Working)

-----------------------------------------------------------------------------
(* Properties                                                              *)

TableDef == [table : Nat, columns : Seq(Nat), long_value : Nat]

\* The variables of load_catalog and the two histories
TypeOK ==
  /\ pages \in [Pages -> Page]
  /\ page_number \in Pages \cup {0} /\ prev_page_number \in Pages
  /\ (step = "page" => page_number \in Pages)
  /\ todo \in Seq(Item) /\ table_def \in TableDef /\ res \in Seq(TableDef)
  /\ step \in {"start", "walk", "page", "done"}
  /\ walk \in Seq(Pages) /\ repeated \in Pages \cup {0}

\* The records that count, in the order of the pages walked over
Live ==
  FlattenSeq([k \in 1 .. Len(walk) |->
                SelectSeq(pages[walk[k]].items, LAMBDA x : ~ x.defunct)])

Names(s, kind) ==
  LET chosen == SelectSeq(s, LAMBDA x : x.kind = kind)
  IN  [k \in 1 .. Len(chosen) |-> chosen[k].name]

\* A catalog that is loaded has one entry for every record of a table, in their
\* order; the entry has exactly the columns and the long values between this
\* record and the next one of a table, wherever the pages end.
CatalogExact ==
  LET live == Live
      tables == {n \in 1 .. Len(live) : live[n].kind = "table"}
      rest(n) == SubSeq(live, n + 1, Min({m \in tables : m > n} \cup {Len(live) + 1}) - 1)
  IN  outcome = "ok" =>
        /\ Len(res) = Cardinality(tables)
        /\ \A n \in tables :
             LET entry == res[Cardinality({m \in tables : m <= n})]
                 long == Names(rest(n), "long value")
             IN  /\ entry.table = live[n].name
                 /\ entry.columns = Names(rest(n), "column")
                 /\ long = IF entry.long_value = NoName THEN <<>> ELSE <<entry.long_value>>
        /\ tables # {} =>
             \A n \in 1 .. Min(tables) : live[n].kind \notin {"column", "long value"}

\* No link leads to a page that names no previous page or the root.
NoWayBack ==
  \A p \in Pages : pages[p].next # 0 => pages[pages[p].next].prev \notin {0, Root}

\* Unless some link leads back to such a page load_catalog returns.
Terminates == (NoWayBack /\ step # "done") ~> (step = "done")

\* The check of previous_page stops every circle, but for those that lead back to
\* a page that names no previous page, or the root as the previous one.
CircleNeedsFirstPage == repeated # 0 => pages[repeated].prev \in {0, Root}

=============================================================================
