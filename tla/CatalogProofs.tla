---------------------------- MODULE CatalogProofs ----------------------------
(***************************************************************************)
(* The walk over the pages of the catalog, for every file: load_catalog    *)
(* stays well typed, and which circles the check of previous_page stops.   *)
(***************************************************************************)
EXTENDS Catalog, TLAPS

\* As long as no page has been visited again: the pages visited before the
\* last one are behind us, and every page visited names one of those, no page,
\* or the root as its previous page.
Behind ==
  \A p \in ToSet(walk) :
    pages[p].prev \in {0, Root} \cup (ToSet(walk) \ {walk[Len(walk)]})

\* prev_page_number is the last page visited once the walk has begun.
LastVisited ==
  walk # <<>> =>
    /\ step = "page" => page_number = walk[Len(walk)]
    /\ step = "walk" => prev_page_number = walk[Len(walk)]

\* Until a page has been visited the previous one is the root.
NotBegun == walk = <<>> => prev_page_number = Root /\ step # "page"

\* The walk begins with no page visited.
BeforeWalk == step = "start" => walk = <<>>

\* The inductive invariant.  CircleNeedsFirstPage is not inductive by itself: that
\* a page visited again cannot name the last page is what Behind adds.
WalkInv ==
  /\ TypeOK /\ LastVisited /\ NotBegun /\ BeforeWalk
  /\ repeated = 0 /\ walk # <<>> => Behind
  /\ CircleNeedsFirstPage

-----------------------------------------------------------------------------
\* A record of the catalog and its file are well typed at the start.
LEMMA InitTyped == Init => TypeOK
<1>1. NoTable \in TableDef
  BY DEF NoTable, TableDef, NoName
<1>2. /\ <<>> \in Seq(Item) /\ <<>> \in Seq(TableDef) /\ <<>> \in Seq(Pages)
  OBVIOUS
<1> QED
  BY <1>1, <1>2, CatalogAssumption DEF Init, TypeOK

\* What a record does to the table that is put together keeps the types.
LEMMA ItemsTyped ==
  ASSUME TypeOK, step = "page", todo # <<>>
  PROVE  /\ item \in Item /\ Tail(todo) \in Seq(Item)
         /\ [table_def EXCEPT !.columns = Append(@, item.name)] \in TableDef
         /\ [table_def EXCEPT !.long_value = item.name] \in TableDef
         /\ [NoTable EXCEPT !.table = item.name] \in TableDef
         /\ Append(res, table_def) \in Seq(TableDef)
<1>1. item \in Item /\ Tail(todo) \in Seq(Item)
  BY DEF TypeOK, item
<1>2. item.name \in Nat
  BY <1>1 DEF Item
<1>3. Append(table_def.columns, item.name) \in Seq(Nat)
  BY <1>2 DEF TypeOK, TableDef
<1>4. Append(res, table_def) \in Seq(TableDef)
  BY DEF TypeOK
<1>5. [table_def EXCEPT !.columns = Append(@, item.name)] \in TableDef
  <2> DEFINE c == Append(table_def.columns, item.name)
  <2>1. c \in Seq(Nat) /\ table_def \in TableDef
    BY <1>3 DEF TypeOK
  <2> HIDE DEF c
  <2>2. [table_def EXCEPT !.columns = c] \in TableDef
    BY <2>1 DEF TableDef
  <2> QED
    BY <2>2 DEF c
<1>6. [table_def EXCEPT !.long_value = item.name] \in TableDef
  BY <1>2 DEF TypeOK, TableDef
<1>7. [NoTable EXCEPT !.table = item.name] \in TableDef
  <2>1. NoTable \in TableDef
    BY DEF NoTable, NoName, TableDef
  <2> QED
    BY <1>2, <2>1 DEF TableDef
<1> QED
  BY <1>1, <1>4, <1>5, <1>6, <1>7

\* Every step of load_catalog keeps its variables well typed.
LEMMA StepTyped == TypeOK /\ [Next]_vars => TypeOK'
<1> SUFFICES ASSUME TypeOK, [Next]_vars PROVE TypeOK'
  OBVIOUS
<1>1. CASE Start
  BY <1>1, CatalogAssumption DEF Start, Return, TypeOK, Page
<1>2. CASE Visit
  <2>1. page_number \in Pages /\ pages[page_number] \in Page
    BY <1>2 DEF Visit, TypeOK
  <2>2. pages[page_number].items \in Seq(Item)
    BY <2>1 DEF Page
  <2>3. Append(walk, page_number) \in Seq(Pages)
    BY <2>1 DEF TypeOK
  <2> QED
    BY <1>2, <2>1, <2>2, <2>3 DEF Visit, Return, TypeOK
<1>3. CASE SkipDefunct
  BY <1>3, ItemsTyped DEF SkipDefunct, NextItem, TypeOK
<1>4. CASE TableItem
  BY <1>4, ItemsTyped DEF TableItem, AtItem, NextItem, Return, TypeOK
<1>5. CASE ColumnItem
  BY <1>5, ItemsTyped DEF ColumnItem, AtItem, NextItem, TypeOK
<1>6. CASE LongValueItem
  BY <1>6, ItemsTyped DEF LongValueItem, AtItem, NextItem, Return, TypeOK
<1>7. CASE IgnoredItem
  BY <1>7, ItemsTyped DEF IgnoredItem, AtItem, NextItem, TypeOK
<1>8. CASE UnhandledItem
  BY <1>8 DEF UnhandledItem, AtItem, Return, TypeOK
<1>9. CASE EndOfPage
  <2>1. page_number \in Pages /\ pages[page_number] \in Page
    BY <1>9 DEF EndOfPage, TypeOK
  <2>2. pages[page_number].next \in Pages \cup {0}
    BY <2>1 DEF Page
  <2> QED
    BY <1>9, <2>1, <2>2 DEF EndOfPage, TypeOK
<1>10. CASE Finish
  <2>1. Append(res, table_def) \in Seq(TableDef)
    BY DEF TypeOK
  <2> QED
    BY <1>10, <2>1 DEF Finish, Return, TypeOK
<1>11. CASE LoadFails
  BY <1>11 DEF LoadFails, Return, TypeOK
<1>12. CASE UNCHANGED vars
  BY <1>12 DEF vars, TypeOK
<1> QED
  BY <1>1, <1>2, <1>3, <1>4, <1>5, <1>6, <1>7, <1>8, <1>9, <1>10, <1>11, <1>12 DEF Next

-----------------------------------------------------------------------------
\* What the history of the walk is after one more page.
LEMMA WalkGrows ==
  ASSUME NEW s \in Seq(Pages), NEW p \in Pages
  PROVE  LET t == Append(s, p)
         IN  /\ t # <<>> /\ t[Len(t)] = p
             /\ ToSet(t) = ToSet(s) \cup {p}
<1> DEFINE t == Append(s, p)
<1>1. /\ t \in Seq(Pages) /\ Len(t) = Len(s) + 1 /\ t[Len(s) + 1] = p
      /\ \A n \in 1 .. Len(s) : t[n] = s[n]
      /\ DOMAIN s = 1 .. Len(s) /\ DOMAIN t = 1 .. Len(s) + 1 /\ Len(s) \in Nat
  OBVIOUS
<1>2. ToSet(t) = ToSet(s) \cup {p}
  <2>1. \A x \in ToSet(t) : x \in ToSet(s) \cup {p}
    BY <1>1 DEF ToSet
  <2>2. \A x \in ToSet(s) \cup {p} : x \in ToSet(t)
    BY <1>1 DEF ToSet
  <2> QED
    BY <2>1, <2>2
<1>3. t # <<>>
  BY <1>1
<1> QED
  BY <1>1, <1>2, <1>3

\* The last page of a walk is one of its pages, and they all are pages.
LEMMA LastInWalk ==
  ASSUME NEW s \in Seq(Pages), s # <<>>
  PROVE  s[Len(s)] \in ToSet(s) /\ ToSet(s) \subseteq Pages
<1>1. Len(s) \in 1 .. Len(s) /\ DOMAIN s = 1 .. Len(s)
  OBVIOUS
<1> QED
  BY <1>1 DEF ToSet

\* A step that visits no page and stays on its page keeps the invariant of the
\* walk.
LEMMA SameWalk ==
  ASSUME WalkInv, TypeOK', UNCHANGED <<pages, page_number, prev_page_number, walk, repeated>>,
         step' \in {step, "done"}
  PROVE  WalkInv'
<1>1. CircleNeedsFirstPage'
  BY DEF WalkInv, CircleNeedsFirstPage
<1>2. (repeated = 0 /\ walk # <<>> => Behind)'
  BY DEF WalkInv, Behind
<1>3. LastVisited' /\ NotBegun' /\ BeforeWalk'
  BY DEF WalkInv, LastVisited, NotBegun, BeforeWalk
<1> QED
  BY <1>1, <1>2, <1>3 DEF WalkInv

\* The heart of the matter: a page that is visited again names the page before
\* it, which is the last one visited, but it also names one visited earlier.
LEMMA VisitKeepsWalk ==
  ASSUME WalkInv, Visit, TypeOK'
  PROVE  WalkInv'
<1>1. CASE step' = "done"
  <2>1. UNCHANGED <<pages, page_number, prev_page_number, walk, repeated>>
    BY <1>1 DEF Visit, Return
  <2> QED
    BY <1>1, <2>1, SameWalk
<1>2. CASE step' # "done"
  <2> DEFINE r == page_number
             seen == ToSet(walk)
  <2>1. /\ r \in Pages /\ walk \in Seq(Pages) /\ pages' = pages /\ Linked
        /\ walk' = Append(walk, r) /\ step' = "page" /\ page_number' = r
        /\ repeated' = IF repeated = 0 /\ r \in seen THEN r ELSE repeated
        /\ prev_page_number' = prev_page_number
    BY <1>2 DEF Visit, Return, WalkInv, TypeOK
  <2>2. walk' # <<>> /\ walk'[Len(walk')] = r /\ ToSet(walk') = seen \cup {r}
    BY <2>1, WalkGrows
  <2>3. LastVisited' /\ NotBegun' /\ BeforeWalk'
    BY <2>1, <2>2 DEF LastVisited, NotBegun, BeforeWalk
  <2>4. pages[r].prev = 0 \/ pages[r].prev = prev_page_number
    BY <2>1 DEF Linked
  <2>5. walk = <<>> => prev_page_number = Root /\ seen = {}
    BY DEF WalkInv, NotBegun, ToSet
  <2>6. walk # <<>> => prev_page_number = walk[Len(walk)] /\ prev_page_number \in seen
    BY <2>1, LastInWalk DEF WalkInv, LastVisited, Visit
  <2>7. CASE repeated # 0
    BY <2>1, <2>2, <2>3, <2>7 DEF WalkInv, CircleNeedsFirstPage
  <2>8. CASE repeated = 0 /\ r \in seen
    <3>1. walk # <<>>
      BY <2>5, <2>8
    <3>2. pages[r].prev \in {0, Root} \cup (seen \ {prev_page_number})
      BY <2>6, <2>8, <3>1 DEF WalkInv, Behind
    <3>3. pages[r].prev \in {0, Root}
      BY <2>4, <3>2
    <3>4. repeated' = r /\ r # 0
      BY <2>1, <2>8, CatalogAssumption
    <3> QED
      BY <2>1, <2>3, <3>3, <3>4 DEF WalkInv, CircleNeedsFirstPage
  <2>9. CASE repeated = 0 /\ r \notin seen
    <3>1. repeated' = 0
      BY <2>1, <2>9
    <3>2. pages[r].prev \in {0, Root} \cup ((seen \cup {r}) \ {r})
      BY <2>4, <2>5, <2>6, <2>9
    <3>3. ASSUME NEW p \in seen
          PROVE  pages[p].prev \in {0, Root} \cup ((seen \cup {r}) \ {r})
      BY <2>5, <2>9, <3>3 DEF WalkInv, Behind
    <3>4. Behind'
      BY <2>1, <2>2, <3>2, <3>3 DEF Behind
    <3> QED
      BY <2>3, <3>1, <3>4 DEF WalkInv, CircleNeedsFirstPage
  <2> QED
    BY <2>7, <2>8, <2>9
<1> QED
  BY <1>1, <1>2

\* The invariant of the walk is inductive.
LEMMA StepKeepsWalk == WalkInv /\ [Next]_vars => WalkInv'
<1> SUFFICES ASSUME WalkInv, [Next]_vars PROVE WalkInv'
  OBVIOUS
<1>0. TypeOK'
  BY StepTyped DEF WalkInv
<1>1. CASE Start
  <2>1. walk = <<>> /\ walk' = walk /\ prev_page_number' = prev_page_number
        /\ pages' = pages /\ repeated' = repeated /\ step' \in {"walk", "done"}
    BY <1>1 DEF Start, Return, WalkInv, BeforeWalk
  <2>2. LastVisited' /\ NotBegun' /\ BeforeWalk'
    BY <2>1 DEF WalkInv, LastVisited, NotBegun, BeforeWalk
  <2>3. CircleNeedsFirstPage'
    BY <2>1 DEF WalkInv, CircleNeedsFirstPage
  <2> QED
    BY <1>0, <2>1, <2>2, <2>3 DEF WalkInv
<1>2. CASE Visit
  BY <1>0, <1>2, VisitKeepsWalk
<1>3. CASE SkipDefunct \/ TableItem \/ ColumnItem \/ LongValueItem \/ IgnoredItem \/ UnhandledItem
           \/ Finish \/ LoadFails
  <2>1. /\ UNCHANGED <<pages, page_number, prev_page_number, walk, repeated>>
        /\ step' \in {step, "done"}
    BY <1>3 DEF SkipDefunct, TableItem, ColumnItem, LongValueItem, IgnoredItem, UnhandledItem,
                Finish, LoadFails, NextItem, Return
  <2> QED
    BY <1>0, <2>1, SameWalk
<1>4. CASE EndOfPage
  <2>1. /\ walk # <<>> /\ UNCHANGED <<pages, walk, repeated>> /\ step' = "walk"
        /\ prev_page_number' = page_number /\ page_number = walk[Len(walk)]
    BY <1>4 DEF EndOfPage, WalkInv, NotBegun, LastVisited
  <2>2. LastVisited' /\ NotBegun' /\ BeforeWalk'
    BY <2>1 DEF LastVisited, NotBegun, BeforeWalk
  <2>3. Behind => Behind'
    BY <2>1 DEF Behind
  <2>4. CircleNeedsFirstPage'
    BY <2>1 DEF WalkInv, CircleNeedsFirstPage
  <2> QED
    BY <1>0, <2>1, <2>2, <2>3, <2>4 DEF WalkInv
<1>5. CASE UNCHANGED vars
  BY <1>0, <1>5, SameWalk DEF vars
<1> QED
  BY <1>1, <1>2, <1>3, <1>4, <1>5 DEF Next

\* load_catalog is well typed for every file: the walk is only ever on pages of
\* the file and the page before is always one of them.
THEOREM CatalogTyped == Spec => []TypeOK
<1> QED
  BY InitTyped, StepTyped, PTL DEF Spec

\* For every number of pages and however they link: the first page that
\* load_catalog visits a second time names no previous page or the root.  The
\* check of previous_page stops every other circle.
THEOREM CirclesAreStopped == Spec => []CircleNeedsFirstPage
<1>1. Init => WalkInv
  BY InitTyped DEF Init, WalkInv, LastVisited, NotBegun, BeforeWalk, CircleNeedsFirstPage
<1>2. WalkInv => CircleNeedsFirstPage
  BY DEF WalkInv
<1> QED
  BY <1>1, <1>2, StepKeepsWalk, PTL DEF Spec

=============================================================================
