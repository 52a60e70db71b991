---------------------------- MODULE TableCursor ----------------------------
(***************************************************************************)
(* move_row: the cursor of an open table over the leaf pages of its tree.  *)
(*                                                                         *)
(* A call of move_row runs in steps, one per page it loads, because a load *)
(* may fail and because the loops must end on page graphs that are not     *)
(* trees: the file is an input.  Tags are numbered as in the code: tag 0   *)
(* is the page header, tags 1 .. Len(tags) hold records, live or defunct.  *)
(* A page may have no tags, not even that one.                             *)
(***************************************************************************)
EXTENDS Integers, Sequences

CONSTANTS
  Pages,           \* page numbers of the file (0 means "no page")
  Databases,       \* the page graphs considered
  MaxRepeat,       \* bound: largest |crow| of a relative move
  OverflowChecks   \* TRUE for a build where integer underflow panics

Page == [leaf : BOOLEAN,          \* IS_LEAF
         child : Pages,           \* what tag 1 of a branch page points to
         next : Pages \cup {0}, prev : Pages \cup {0},
         tag0 : BOOLEAN,          \* FALSE for a page whose header says that it has no tags at all
         tags : Seq({"live", "defunct"})]

Scan == [whole : BOOLEAN, rows : SUBSET (Pages \X Nat)]

Database == [root : Pages, page : [Pages -> Page]]

ASSUME PagesAssumption ==
  /\ Pages \subseteq Nat \ {0}
  /\ Databases \subseteq Database
  /\ MaxRepeat \in Nat \ {0}
  /\ OverflowChecks \in BOOLEAN

VARIABLES
  db,              \* the file; never written
  current_page,    \* number of Table.current_page, 0 for None
  page_tag_index,  \* Table.page_tag_index
  visited_pages, direction,  \* Table.validity_info
  step,            \* what the running call does next; "idle" between calls
  op, left,        \* the move being made and how often it is still to be made
  at, seen,        \* find_first_leaf_page: page_number and visited_pages
  i,               \* the tag index of the scanning loops
  result,          \* what the last call returned
  scan             \* history: the rows delivered since MoveFirst

file == <<db>>
validity == <<visited_pages, direction>>
position == <<current_page, page_tag_index>>
call == <<op, left>>
descent == <<at, seen>>
vars == <<db, current_page, page_tag_index, visited_pages, direction,
          step, op, left, at, seen, i, result, scan>>

Moves == {"first", "last", "next", "previous", "stay"}
Results == {"none", "true", "false", "circular", "child loop", "io error", "panic"}

Tags(p) == db.page[p].tags
Live(p, t) == t \in 1 .. Len(Tags(p)) /\ Tags(p)[t] = "live"

Init ==
  /\ db \in Databases
  /\ current_page = 0 /\ page_tag_index = 0
  /\ visited_pages = {} /\ direction = "None"
  /\ step = "idle" /\ op = "stay" /\ left = 0
  /\ at = 0 /\ seen = {} /\ i = 0
  /\ result = "none" /\ scan = [whole |-> FALSE, rows |-> {}]

\* The call ends with r; an outer loop of move_row_helper goes on only after
\* a move that found a row.
Return(r) ==
  /\ result' = r
  /\ left' = IF r = "true" /\ left > 1 THEN left - 1 ELSE 0
  /\ step' = IF r = "true" /\ left > 1 THEN "again" ELSE "idle"
  /\ op' = op

-----------------------------------------------------------------------------
(* Table                                                                   *)

\* Mutant: visited pages are forgotten by MoveFirst and MoveLast only.
UpdateValidityInfoNoTurn(move) ==
  /\ visited_pages' = IF move \in {"first", "last"} THEN {} ELSE visited_pages
  /\ direction' = IF move \in {"first", "next"} THEN "Forward" ELSE "Backward"

\* update_validity_info_for_crow
UpdateValidityInfo(move) ==
  LET turned == \/ move \in {"first", "last"}
                \/ move = "next" /\ direction = "Backward"
                \/ move = "previous" /\ direction = "Forward"
  IN  /\ visited_pages' = IF turned THEN {} ELSE visited_pages
      /\ direction' = IF move \in {"first", "next"} THEN "Forward" ELSE "Backward"

\* Mutant: the page is taken without asking whether it was visited.
SetCurrentPageUnchecked(p) ==
  /\ visited_pages' = visited_pages \cup {p}
  /\ current_page' = p
  /\ UNCHANGED <<direction, page_tag_index>>

\* set_current_page for a page that was loaded
SetCurrentPage(p) ==
  /\ p \notin visited_pages
  /\ visited_pages' = visited_pages \cup {p}
  /\ current_page' = p
  /\ UNCHANGED <<direction, page_tag_index>>

\* set_current_page refuses a page it has seen: nothing changes
Circular(p) ==
  /\ p \in visited_pages
  /\ Return("circular")
  /\ UNCHANGED <<position, validity, i>>

\* DbPage::new reports an error
LoadFails ==
  /\ Return("io error")
  /\ UNCHANGED <<position, validity, i>>

-----------------------------------------------------------------------------
(* move_next_row and move_previous_row                                     *)

\* The history is of a whole scan from the time MoveFirst has reached the first
\* leaf page and for as long as the cursor keeps going forward.
Continue(move) ==
  IF move = "next" /\ direction = "Forward" THEN scan
  ELSE [whole |-> FALSE, rows |-> {}]

\* page() panics when there is no current page; page_tag_index - 1 panics for
\* 0, or wraps to an index that no page has.
Panics(move) ==
  \/ move # "first" /\ current_page = 0
  \/ move = "previous" /\ page_tag_index = 0
  \/ move = "last" /\ page_tag_index = 0 /\ OverflowChecks

\* A move that is to be made n times, up to its first page access
BeginMove(move, n) ==
  /\ UpdateValidityInfo(move)
  /\ scan' = Continue(move)
  /\ op' = move
  /\ \/ /\ Panics(move)
        /\ step' = "idle" /\ left' = 0 /\ result' = "panic"
        /\ UNCHANGED <<i, descent>>
     \/ /\ ~ Panics(move) /\ left' = n /\ result' = result
        /\ \/ /\ move = "first"
              /\ step' = "descend" /\ at' = db.root /\ seen' = {} /\ i' = i
           \/ /\ move = "next"
              /\ step' = "forward" /\ i' = page_tag_index + 1 /\ UNCHANGED descent
           \/ /\ move = "previous"
              /\ step' = "backward" /\ i' = page_tag_index - 1 /\ UNCHANGED descent
           \/ /\ move = "last"
              /\ step' = "to last" /\ i' = i /\ UNCHANGED descent
  /\ UNCHANGED <<file, position>>

\* Mutant: the leaf is not noted as visited when it is the current page.
ReachLeafUnnoted ==
  /\ db.page[at].leaf
  /\ \/ current_page # at /\ SetCurrentPage(at)
     \/ current_page = at /\ UNCHANGED <<position, validity>>
  /\ \/ Len(Tags(at)) = 0 /\ Return("false") /\ i' = i
     \/ Len(Tags(at)) > 0 /\ step' = "forward" /\ i' = 1 /\ UNCHANGED <<call, result>>
  /\ scan' = [whole |-> TRUE, rows |-> {}]
  /\ UNCHANGED descent

\* find_first_leaf_page: one page of the way down.  At the leaf the current
\* page is replaced unless it is that leaf already.
ReachLeaf ==
  /\ db.page[at].leaf
  /\ \/ /\ current_page # at
        /\ SetCurrentPage(at)
     \/ /\ current_page = at
        /\ visited_pages' = visited_pages \cup {at}
        /\ UNCHANGED <<position, direction>>
  /\ \/ /\ Len(Tags(at)) = 0       \* empty table
        /\ Return("false") /\ i' = i
     \/ /\ Len(Tags(at)) > 0
        /\ step' = "forward" /\ i' = 1
        /\ UNCHANGED <<call, result>>
  /\ scan' = [whole |-> TRUE, rows |-> {}]
  /\ UNCHANGED descent

\* A branch page without a tag 1 is a panic.
DescendFurther ==
  /\ ~ db.page[at].leaf
  /\ seen' = seen \cup {at}
  /\ \/ /\ Len(Tags(at)) > 0
        /\ at' = db.page[at].child
        /\ UNCHANGED <<step, call, result>>
     \/ /\ Len(Tags(at)) = 0
        /\ Return("panic") /\ at' = at
  /\ UNCHANGED <<position, validity, i, scan>>

ChildLoop ==
  /\ at \in seen
  /\ Return("child loop")
  /\ UNCHANGED <<position, validity, i, descent, scan>>

Descend ==
  /\ step = "descend"
  /\ \/ ChildLoop
     \/ at \notin seen /\ LoadFails /\ UNCHANGED <<descent, scan>>
     \/ at \notin seen /\ ReachLeaf
     \/ at \notin seen /\ DescendFurther
  /\ UNCHANGED file

\* Mutant: the flags of the tag are not looked at.
FoundForwardAny ==
  /\ i <= Len(Tags(current_page))
  /\ page_tag_index' = i
  /\ Return("true")
  /\ scan' = [scan EXCEPT !.rows = @ \cup {<<current_page, i>>}]
  /\ UNCHANGED <<current_page, validity, i>>

\* The loop of move_next_row: a live tag from i on, else the next page.
FoundForward ==
  \E t \in 1 .. Len(Tags(current_page)) :
    /\ t >= i /\ Live(current_page, t)
    /\ \A u \in i .. t - 1 : ~ Live(current_page, u)
    /\ page_tag_index' = t
    /\ Return("true")
    /\ scan' = [scan EXCEPT !.rows = @ \cup {<<current_page, t>>}]
    /\ UNCHANGED <<current_page, validity, i>>

\* Mutant: the scan of the next page begins behind its first record.
NextPageFromTwo ==
  LET p == db.page[current_page].next
  IN  /\ \A t \in 1 .. Len(Tags(current_page)) : t >= i => ~ Live(current_page, t)
      /\ \/ p = 0 /\ Return("false") /\ UNCHANGED <<position, validity, i>>
         \/ p # 0 /\ SetCurrentPage(p) /\ i' = 2 /\ UNCHANGED <<step, call, result>>
      /\ UNCHANGED scan

NextPage ==
  LET p == db.page[current_page].next
  IN  /\ \A t \in 1 .. Len(Tags(current_page)) : t >= i => ~ Live(current_page, t)
      /\ \/ p = 0 /\ Return("false") /\ UNCHANGED <<position, validity, i>>
         \/ p # 0 /\ LoadFails
         \/ p # 0 /\ Circular(p)
         \/ p # 0 /\ SetCurrentPage(p) /\ i' = 1 /\ UNCHANGED <<step, call, result>>
      /\ UNCHANGED scan

Forward ==
  /\ step = "forward"
  /\ FoundForward \/ NextPage
  /\ UNCHANGED <<file, descent>>

\* MoveLast: to the end of the chain of leaf pages, then backward.
ToLast ==
  LET p == db.page[current_page].next
      n == Len(Tags(current_page))
  IN  /\ step = "to last"
      /\ \/ p # 0 /\ LoadFails
         \/ p # 0 /\ Circular(p)
         \/ p # 0 /\ SetCurrentPage(p) /\ UNCHANGED <<i, step, call, result>>
         \/ p = 0 /\ n = 0 /\ Return("false") /\ UNCHANGED <<position, validity, i>>
         \/ p = 0 /\ n > 0 /\ step' = "backward" /\ i' = n
            /\ UNCHANGED <<position, validity, call, result>>
      /\ UNCHANGED <<file, descent, scan>>

\* The loop of move_previous_row: a live tag down from i, else the page before.
\* An index beyond the tags of the page is a panic.
FoundBackward ==
  /\ i <= Len(Tags(current_page))
  /\ \E t \in 1 .. i :
       /\ Live(current_page, t)
       /\ \A u \in t + 1 .. i : ~ Live(current_page, u)
       /\ page_tag_index' = t
       /\ Return("true")
       /\ UNCHANGED <<current_page, validity, i>>

\* Mutant: the scan of the page before begins in front of its last record.
PreviousPageShort ==
  LET p == db.page[current_page].prev
  IN  /\ i <= Len(Tags(current_page))
      /\ \A t \in 1 .. i : ~ Live(current_page, t)
      /\ \/ p = 0 /\ Return("false") /\ UNCHANGED <<position, validity, i>>
         \/ p # 0 /\ SetCurrentPage(p) /\ i' = Len(Tags(p)) - 1
            /\ UNCHANGED <<step, call, result>>

\* page_tags.len() - 1 panics on a page without tags, or wraps to an index that
\* the page does not have.
PreviousPage ==
  LET p == db.page[current_page].prev
  IN  /\ i <= Len(Tags(current_page))
      /\ \A t \in 1 .. i : ~ Live(current_page, t)
      /\ \/ p = 0 /\ Return("false") /\ UNCHANGED <<position, validity, i>>
         \/ p # 0 /\ LoadFails
         \/ p # 0 /\ Circular(p)
         \/ p # 0 /\ SetCurrentPage(p) /\ db.page[p].tag0 /\ i' = Len(Tags(p)) /\ UNCHANGED <<step, call, result>>
         \/ p # 0 /\ SetCurrentPage(p) /\ ~ db.page[p].tag0 /\ i' = i /\ Return("panic")

IndexOutOfPage ==
  /\ i > Len(Tags(current_page))
  /\ Return("panic")
  /\ UNCHANGED <<position, validity, i>>

Backward ==
  /\ step = "backward"
  /\ FoundBackward \/ PreviousPage \/ IndexOutOfPage
  /\ UNCHANGED <<file, descent, scan>>

-----------------------------------------------------------------------------
(* move_row_helper                                                         *)

\* The other row of a relative move of more than one row
Again ==
  /\ step = "again"
  /\ BeginMove(op, left)

\* crow = 0: Ok(true), whatever the cursor is on
Stay ==
  /\ step = "idle"
  /\ op' = "stay" /\ result' = "true"
  /\ UNCHANGED <<file, position, validity, step, left, descent, i, scan>>

\* One call of move_row; open_table makes a MoveFirst of its own.
MoveRow(move, n) ==
  /\ step = "idle"
  /\ BeginMove(move, n)

Run == Again \/ Descend \/ Forward \/ ToLast \/ Backward

Next ==
  \/ Stay
  \/ \E move \in {"first", "last"} : MoveRow(move, 1)
  \/ \E move \in {"next", "previous"}, n \in 1 .. MaxRepeat : MoveRow(move, n)
  \/ Run

Spec == Init /\ [][Next]_vars

\* A call that has begun keeps running: one thread, no waiting.
FairSpec == Spec /\ WF_vars(Run)

-----------------------------------------------------------------------------
(* What the cursor promises                                                *)

Rows == UNION {{<<p, t>> : t \in {u \in 1 .. Len(Tags(p)) : Live(p, u)}} :
               p \in {q \in Pages : db.page[q].leaf}}

\* The variables have their types (Table, ValidityInfo and the locals of the
\* loops: tag indices never go below zero).
TypeOK ==
  /\ db \in Database
  /\ current_page \in Pages \cup {0} /\ page_tag_index \in Nat
  /\ visited_pages \subseteq Pages /\ direction \in {"None", "Forward", "Backward"}
  /\ step \in {"idle", "again", "descend", "forward", "to last", "backward"}
  /\ op \in Moves /\ left \in Nat
  /\ at \in Pages \cup {0} /\ seen \subseteq Pages /\ i \in Nat
  /\ result \in Results
  /\ scan \in Scan

\* Whenever move_row has answered true to a move, the cursor is on a record that
\* exists and is not defunct, after whatever moves
\* and errors went before.
OnLiveRow ==
  step = "idle" /\ result = "true" /\ op # "stay" => Live(current_page, page_tag_index)

\* A scan (MoveFirst, then MoveNext again and again, failed loads retried) never
\* delivers a row twice, even when the leaf pages link in a circle: this is what
\* ValidityInfo is for.
EachRowOnce ==
  [][scan.whole /\ scan'.whole /\ step = "forward" /\ result' = "true" /\ step' # step
     => <<current_page', page_tag_index'>> \notin scan.rows]_vars

\* Every move_row call comes back, even when pages link in a circle.
Terminates == step # "idle" ~> step = "idle"

\* In a properly linked table going forward is never mistaken for going in a
\* circle, whatever moves, turns and failed loads went before.
ScanNeverRefused ==
  step = "idle" /\ op \in {"first", "next"} => result \notin {"circular", "child loop"}

\* In a properly linked table, when MoveNext says that there are no more rows, the
\* scan has delivered every live row, although loads failed and were retried.
CompleteScan ==
  step = "idle" /\ op = "next" /\ result = "false" /\ scan.whole => scan.rows = Rows

-----------------------------------------------------------------------------
(* What the comments and the documentation say and the code does not do    *)

\* "protect against circular reference situations", and no error for reading
\* back over pages that were read forward (ValidityInfo and
\* update_validity_info_for_crow): a circle is reported only where there is one.
\* In a properly linked table there is none.
CircularMeansCircle == result # "circular"

=============================================================================
