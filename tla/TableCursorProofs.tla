------------------------- MODULE TableCursorProofs -------------------------
(***************************************************************************)
(* Proofs about TableCursor for any number of pages, any tables and any    *)
(* sequence of moves and failed loads.                                     *)
(***************************************************************************)
EXTENDS TableCursor, TLAPS

\* What the code between two page loads may rely on: there is a current page
\* where page() is called, and the locals fit the move being made.
CallInv ==
  /\ step \in {"again", "forward", "to last", "backward"} => current_page \in Pages
  /\ step = "descend" => at \in Pages
  /\ step \in {"descend", "forward"} => op \in {"first", "next"} /\ direction = "Forward"
  /\ step \in {"to last", "backward"} => op \in {"last", "previous"} /\ direction = "Backward"
  /\ step # "idle" => left > 0 /\ op # "stay"

TypeInv == TypeOK /\ CallInv

\* The expansion of the tuples of unchanged variables
USE DEF file, position, validity, call, descent

LEMMA PageType ==
  ASSUME TypeInv, NEW p \in Pages
  PROVE  /\ db.page[p].next \in Pages \cup {0} /\ db.page[p].prev \in Pages \cup {0}
         /\ db.page[p].child \in Pages
         /\ Tags(p) \in Seq({"live", "defunct"}) /\ Len(Tags(p)) \in Nat
  <1>1. db \in Database
    BY DEF TypeInv, TypeOK
  <1>2. db.page[p] \in Page
    BY <1>1 DEF Database
  <1>3. Tags(p) \in Seq({"live", "defunct"})
    BY <1>2 DEF Page, Tags
  <1>4. Len(Tags(p)) \in Nat
    BY <1>3
  <1> QED
    BY <1>2, <1>3, <1>4 DEF Page

LEMMA InitTyped == Init => TypeInv
  BY PagesAssumption DEF Init, TypeInv, TypeOK, CallInv, Moves, Results, Scan

\* Where a call returns, what it leaves fits.
LEMMA ReturnTyped ==
  ASSUME TypeInv, NEW r \in Results, Return(r), op # "stay", left > 0
  PROVE  /\ result' \in Results /\ op' = op /\ left' \in Nat
         /\ step' \in {"idle", "again"}
         /\ step' = "again" => left' > 0 /\ r = "true"
  <1>1. left \in Nat
    BY PagesAssumption DEF TypeInv, TypeOK
  <1> QED
    BY <1>1 DEF Return

LEMMA BeginTyped ==
  ASSUME TypeInv, NEW move \in Moves \ {"stay"}, NEW n \in Nat \ {0}, BeginMove(move, n)
  PROVE  TypeInv'
  <1>0. page_tag_index \in Nat
    BY DEF TypeInv, TypeOK
  <1>1. UpdateValidityInfo(move) /\ scan' = Continue(move) /\ op' = move
        /\ UNCHANGED <<db, current_page, page_tag_index>>
    BY DEF BeginMove
  <1>2. visited_pages' \subseteq Pages /\ direction' \in {"Forward", "Backward"}
        /\ (move \in {"first", "next"} => direction' = "Forward")
        /\ (move \in {"last", "previous"} => direction' = "Backward")
    BY <1>1 DEF UpdateValidityInfo, TypeInv, TypeOK
  <1>3. scan' \in Scan
    BY <1>1 DEF Continue, Scan, TypeInv, TypeOK
  <1>4. CASE Panics(move)
    <2>1. step' = "idle" /\ left' = 0 /\ result' = "panic" /\ UNCHANGED <<i, at, seen>>
      BY <1>4 DEF BeginMove
    <2>2. TypeOK'
      BY <1>1, <1>2, <1>3, <2>1 DEF TypeInv, TypeOK, Results
    <2>3. CallInv'
      BY <2>1 DEF CallInv
    <2> QED
      BY <2>2, <2>3 DEF TypeInv
  <1>5. CASE ~ Panics(move)
    <2>0. left' = n /\ result' = result
      BY <1>5 DEF BeginMove
    <2>1. left' \in Nat /\ left' > 0 /\ result' = result
      BY <2>0
    <2>2. move # "first" => current_page \in Pages
      BY <1>5 DEF Panics, TypeInv, TypeOK
    <2>3. db.root \in Pages
      BY DEF TypeInv, TypeOK, Database
    <2>4. CASE move = "first"
      <3>1. step' = "descend" /\ at' = db.root /\ seen' = {} /\ i' = i
        BY <1>5, <2>4 DEF BeginMove
      <3>7. TypeOK'
        BY <1>1, <1>2, <1>3, <2>1, <2>3, <2>4, <3>1 DEF TypeInv, TypeOK
      <3>8. CallInv'
        BY <1>1, <1>2, <1>3, <2>1, <2>3, <2>4, <3>1 DEF CallInv
      <3> QED
        BY <3>7, <3>8 DEF TypeInv
    <2>5. CASE move = "next"
      <3>1. step' = "forward" /\ i' = page_tag_index + 1 /\ UNCHANGED <<at, seen>>
        BY <1>5, <2>5 DEF BeginMove
      <3>2. i' \in Nat
        BY <1>0, <3>1
      <3>3. step' = "forward" /\ UNCHANGED <<at, seen>>
        BY <3>1
      <3>7. TypeOK'
        BY <1>1, <1>2, <1>3, <2>1, <2>5, <3>2, <3>3 DEF TypeInv, TypeOK
      <3>8. CallInv'
        BY <1>1, <1>2, <1>3, <2>1, <2>2, <2>5, <3>1 DEF CallInv
      <3> QED
        BY <3>7, <3>8 DEF TypeInv
    <2>6. CASE move = "previous"
      <3>1. step' = "backward" /\ i' = page_tag_index - 1 /\ UNCHANGED <<at, seen>>
        BY <1>5, <2>6 DEF BeginMove
      <3>2. page_tag_index # 0
        BY <1>5, <2>6 DEF Panics
      <3>3. i' \in Nat
        BY <1>0, <3>1, <3>2
      <3>4. step' = "backward" /\ UNCHANGED <<at, seen>>
        BY <3>1
      <3>7. TypeOK'
        BY <1>1, <1>2, <1>3, <2>1, <2>6, <3>3, <3>4 DEF TypeInv, TypeOK
      <3>8. CallInv'
        BY <1>1, <1>2, <1>3, <2>1, <2>2, <2>6, <3>1, <3>2 DEF CallInv
      <3> QED
        BY <3>7, <3>8 DEF TypeInv
    <2>7. CASE move = "last"
      <3>1. step' = "to last" /\ i' = i /\ UNCHANGED <<at, seen>>
        BY <1>5, <2>7 DEF BeginMove
      <3>7. TypeOK'
        BY <1>1, <1>2, <1>3, <2>1, <2>2, <2>7, <3>1 DEF TypeInv, TypeOK
      <3>8. CallInv'
        BY <1>1, <1>2, <1>3, <2>1, <2>2, <2>7, <3>1 DEF CallInv
      <3> QED
        BY <3>7, <3>8 DEF TypeInv
    <2> QED
      BY <2>4, <2>5, <2>6, <2>7 DEF Moves
  <1> QED
    BY <1>4, <1>5

\* A return preserves the invariant if what the step assigned before is typed.
LEMMA ReturnPreserves ==
  ASSUME TypeInv, step # "idle", NEW r \in Results, Return(r),
         db' = db, direction' = direction,
         current_page' \in Pages \cup {0}, page_tag_index' \in Nat,
         visited_pages' \subseteq Pages, at' \in Pages \cup {0}, seen' \subseteq Pages,
         i' \in Nat, scan' \in Scan,
         r = "true" => current_page' \in Pages
  PROVE  TypeInv'
  <1>1. op # "stay" /\ left > 0
    BY DEF TypeInv, CallInv
  <1>2. /\ result' \in Results /\ op' = op /\ left' \in Nat
        /\ step' \in {"idle", "again"}
        /\ step' = "again" => left' > 0 /\ r = "true"
    BY <1>1, ReturnTyped
  <1>3. TypeOK'
    BY <1>2 DEF TypeInv, TypeOK
  <1>4. CallInv'
    BY <1>1, <1>2 DEF CallInv
  <1> QED
    BY <1>3, <1>4 DEF TypeInv

\* So does a step within the call that goes on as the same move.
LEMMA StepPreserves ==
  ASSUME TypeInv, step # "idle", UNCHANGED <<db, direction, op, left, result>>,
         current_page' \in Pages \cup {0}, page_tag_index' \in Nat,
         visited_pages' \subseteq Pages, at' \in Pages \cup {0}, seen' \subseteq Pages,
         i' \in Nat, scan' \in Scan,
         \/ step = "descend" /\ step' = "descend" /\ at' \in Pages
         \/ step \in {"descend", "forward"} /\ step' = "forward" /\ current_page' \in Pages
         \/ step \in {"to last", "backward"} /\ step' \in {"to last", "backward"}
            /\ current_page' \in Pages
  PROVE  TypeInv'
  <1>1. step' \in {"descend", "forward", "to last", "backward"}
    OBVIOUS
  <1>2. TypeOK'
    BY <1>1 DEF TypeInv, TypeOK
  <1>3. CallInv'
    BY DEF TypeInv, CallInv
  <1> QED
    BY <1>2, <1>3 DEF TypeInv

LEMMA DescendTyped == TypeInv /\ Descend => TypeInv'
  <1> SUFFICES ASSUME TypeInv, Descend
               PROVE  TypeInv'
    OBVIOUS
  <1>1. /\ step = "descend" /\ at \in Pages /\ db' = db
        /\ current_page \in Pages \cup {0} /\ page_tag_index \in Nat
        /\ visited_pages \subseteq Pages /\ seen \subseteq Pages /\ i \in Nat /\ scan \in Scan
    BY DEF Descend, TypeInv, TypeOK, CallInv
  <1>2. [whole |-> TRUE, rows |-> {}] \in Scan
    BY DEF Scan
  <1>3. CASE ChildLoop
    BY <1>1, <1>3, ReturnPreserves DEF ChildLoop, Results
  <1>4. CASE LoadFails /\ UNCHANGED <<descent, scan>>
    BY <1>1, <1>4, ReturnPreserves DEF LoadFails, Results
  <1>5. CASE ReachLeaf
    <2>1. /\ current_page' \in Pages /\ page_tag_index' \in Nat
          /\ visited_pages' \subseteq Pages /\ direction' = direction
      BY <1>1, <1>5 DEF ReachLeaf, SetCurrentPage
    <2>2. at' = at /\ seen' = seen /\ scan' \in Scan
      BY <1>2, <1>5 DEF ReachLeaf
    <2>3. CASE Return("false") /\ i' = i
      BY <1>1, <2>1, <2>2, <2>3, ReturnPreserves DEF Results
    <2>4. CASE step' = "forward" /\ i' = 1 /\ UNCHANGED <<call, result>>
      BY <1>1, <2>1, <2>2, <2>4, StepPreserves
    <2> QED
      BY <1>5, <2>3, <2>4 DEF ReachLeaf
  <1>6. CASE DescendFurther
    <2>1. seen' \subseteq Pages /\ UNCHANGED <<current_page, page_tag_index, visited_pages, direction, i, scan>>
      BY <1>1, <1>6 DEF DescendFurther
    <2>2. CASE at' = db.page[at].child /\ UNCHANGED <<step, call, result>>
      BY <1>1, <2>1, <2>2, StepPreserves, PageType
    <2>3. CASE Return("panic") /\ at' = at
      BY <1>1, <2>1, <2>3, ReturnPreserves DEF Results
    <2> QED
      BY <1>6, <2>2, <2>3 DEF DescendFurther
  <1> QED
    BY <1>3, <1>4, <1>5, <1>6 DEF Descend

\* The facts the walking steps need of the state they start from
LEMMA WalkFacts ==
  ASSUME TypeInv, step \in {"forward", "to last", "backward"}
  PROVE  /\ current_page \in Pages /\ page_tag_index \in Nat /\ i \in Nat
         /\ visited_pages \subseteq Pages /\ at \in Pages \cup {0} /\ seen \subseteq Pages
         /\ scan \in Scan
         /\ db.page[current_page].next \in Pages \cup {0}
         /\ db.page[current_page].prev \in Pages \cup {0}
         /\ Len(Tags(current_page)) \in Nat
  <1>1. current_page \in Pages
    BY DEF TypeInv, CallInv
  <1> QED
    BY <1>1, PageType DEF TypeInv, TypeOK

\* The three outcomes of going to a neighbouring page p, and of answering there
LEMMA WalkTyped ==
  ASSUME TypeInv, step \in {"forward", "to last", "backward"},
         UNCHANGED <<db, at, seen, scan>>,
         NEW p \in Pages,
         \/ LoadFails
         \/ Circular(p)
         \/ SetCurrentPage(p) /\ i' \in Nat /\ UNCHANGED <<step, call, result>>
  PROVE  TypeInv'
  <1>1. CASE LoadFails
    BY <1>1, WalkFacts, ReturnPreserves DEF LoadFails, Results
  <1>2. CASE Circular(p)
    BY <1>2, WalkFacts, ReturnPreserves DEF Circular, Results
  <1>3. CASE SetCurrentPage(p) /\ i' \in Nat /\ UNCHANGED <<step, call, result>>
    <2>1. current_page' \in Pages /\ page_tag_index' \in Nat /\ visited_pages' \subseteq Pages
          /\ direction' = direction
      BY <1>3, WalkFacts DEF SetCurrentPage
    <2> QED
      BY <1>3, <2>1, WalkFacts, StepPreserves
  <1> QED
    BY <1>1, <1>2, <1>3

LEMMA ForwardTyped == TypeInv /\ Forward => TypeInv'
  <1> SUFFICES ASSUME TypeInv, Forward
               PROVE  TypeInv'
    OBVIOUS
  <1>1. step = "forward" /\ UNCHANGED <<db, at, seen>>
    BY DEF Forward
  <1>2. CASE FoundForward
    <2>1. PICK t \in 1 .. Len(Tags(current_page)) :
            /\ page_tag_index' = t /\ Return("true")
            /\ scan' = [scan EXCEPT !.rows = @ \cup {<<current_page, t>>}]
            /\ UNCHANGED <<current_page, visited_pages, direction, i>>
      BY <1>2 DEF FoundForward
    <2>2. page_tag_index' \in Nat
      BY <1>1, <2>1, WalkFacts
    <2>3. scan' \in Scan
      BY <1>1, <2>1, <2>2, WalkFacts DEF Scan
    <2> QED
      BY <1>1, <2>1, <2>2, <2>3, WalkFacts, ReturnPreserves DEF Results
  <1>3. CASE NextPage
    <2> DEFINE p == db.page[current_page].next
    <2>1. p \in Pages \cup {0} /\ UNCHANGED scan
      BY <1>1, <1>3, WalkFacts DEF NextPage
    <2>2. CASE p = 0
      <3>1. Return("false") /\ UNCHANGED <<current_page, page_tag_index, visited_pages, direction, i>>
        BY <1>3, <2>2 DEF NextPage
      <3> QED
        BY <1>1, <2>1, <3>1, WalkFacts, ReturnPreserves DEF Results
    <2>3. CASE p # 0
      <3>1. \/ LoadFails
            \/ Circular(p)
            \/ SetCurrentPage(p) /\ i' = 1 /\ UNCHANGED <<step, call, result>>
        BY <1>3, <2>3 DEF NextPage
      <3> QED
        BY <1>1, <2>1, <2>3, <3>1, WalkTyped
    <2> QED
      BY <2>2, <2>3
  <1> QED
    BY <1>2, <1>3 DEF Forward

LEMMA ToLastTyped == TypeInv /\ ToLast => TypeInv'
  <1> SUFFICES ASSUME TypeInv, ToLast
               PROVE  TypeInv'
    OBVIOUS
  <1> DEFINE p == db.page[current_page].next
             n == Len(Tags(current_page))
  <1>1. step = "to last" /\ UNCHANGED <<db, at, seen, scan>>
    BY DEF ToLast
  <1>2. p \in Pages \cup {0} /\ n \in Nat /\ i \in Nat
    BY <1>1, WalkFacts
  <1>3. CASE p # 0
    <2>1. \/ LoadFails
          \/ Circular(p)
          \/ SetCurrentPage(p) /\ UNCHANGED <<i, step, call, result>>
      BY <1>3 DEF ToLast
    <2> QED
      BY <1>1, <1>2, <1>3, <2>1, WalkTyped
  <1>4. CASE p = 0 /\ n = 0
    <2>0. ~ (n > 0)
      BY <1>4
    <2>1. Return("false") /\ UNCHANGED <<current_page, page_tag_index, visited_pages, direction, i>>
      BY <2>0, <1>4 DEF ToLast
    <2> QED
      BY <1>1, <2>1, WalkFacts, ReturnPreserves DEF Results
  <1>5. CASE p = 0 /\ n # 0
    <2>0. n > 0
      BY <1>2, <1>5
    <2>1. /\ step' = "backward" /\ i' = n
          /\ UNCHANGED <<current_page, page_tag_index, visited_pages, direction, op, left, result>>
      BY <2>0, <1>5 DEF ToLast
    <2>2. i' \in Nat
      BY <1>2, <2>1
    <2> QED
      BY <1>1, <2>1, <2>2, WalkFacts, StepPreserves
  <1> QED
    BY <1>3, <1>4, <1>5

LEMMA BackwardTyped == TypeInv /\ Backward => TypeInv'
  <1> SUFFICES ASSUME TypeInv, Backward
               PROVE  TypeInv'
    OBVIOUS
  <1>1. step = "backward" /\ UNCHANGED <<db, at, seen, scan>>
    BY DEF Backward
  <1>2. CASE FoundBackward
    <2>1. PICK t \in 1 .. i :
            /\ page_tag_index' = t /\ Return("true")
            /\ UNCHANGED <<current_page, visited_pages, direction, i>>
      BY <1>2 DEF FoundBackward
    <2>2. page_tag_index' \in Nat
      BY <1>1, <2>1, WalkFacts
    <2> QED
      BY <1>1, <2>1, <2>2, WalkFacts, ReturnPreserves DEF Results
  <1>3. CASE PreviousPage
    <2> DEFINE p == db.page[current_page].prev
    <2>1. p \in Pages \cup {0}
      BY <1>1, WalkFacts
    <2>2. CASE p = 0
      <3>1. Return("false") /\ UNCHANGED <<current_page, page_tag_index, visited_pages, direction, i>>
        BY <1>3, <2>2 DEF PreviousPage
      <3> QED
        BY <1>1, <2>1, <3>1, WalkFacts, ReturnPreserves DEF Results
    <2>3. CASE p # 0
      <3>1. \/ LoadFails
            \/ Circular(p)
            \/ SetCurrentPage(p) /\ i' = Len(Tags(p)) /\ UNCHANGED <<step, call, result>>
            \/ SetCurrentPage(p) /\ i' = i /\ Return("panic")
        BY <1>3, <2>3 DEF PreviousPage
      <3>2. p \in Pages /\ Len(Tags(p)) \in Nat
        BY <2>1, <2>3, PageType
      <3>3. CASE SetCurrentPage(p) /\ i' = i /\ Return("panic")
        <4>1. current_page' \in Pages /\ page_tag_index' \in Nat /\ visited_pages' \subseteq Pages
              /\ direction' = direction
          BY <1>1, <3>2, <3>3, WalkFacts DEF SetCurrentPage
        <4> QED
          BY <1>1, <3>3, <4>1, WalkFacts, ReturnPreserves DEF Results
      <3> QED
        BY <1>1, <3>1, <3>2, <3>3, WalkTyped
    <2> QED
      BY <2>2, <2>3
  <1>4. CASE IndexOutOfPage
    BY <1>1, <1>4, WalkFacts, ReturnPreserves DEF IndexOutOfPage, Results
  <1> QED
    BY <1>2, <1>3, <1>4 DEF Backward

LEMMA NextTyped == TypeInv /\ [Next]_vars => TypeInv'
  <1> SUFFICES ASSUME TypeInv, [Next]_vars
               PROVE  TypeInv'
    OBVIOUS
  <1>1. CASE Stay
    BY <1>1 DEF Stay, TypeInv, TypeOK, CallInv, Moves, Results
  <1>2. ASSUME NEW move \in {"first", "last", "next", "previous"}, NEW n \in Nat \ {0},
               BeginMove(move, n)
        PROVE  TypeInv'
    BY <1>2, BeginTyped DEF Moves
  <1>3. CASE \E move \in {"first", "last"} : MoveRow(move, 1)
    BY <1>2, <1>3 DEF MoveRow
  <1>4. CASE \E move \in {"next", "previous"}, n \in 1 .. MaxRepeat : MoveRow(move, n)
    BY <1>2, <1>4 DEF MoveRow
  <1>5. CASE Again
    <2>1. op \in Moves \ {"stay"} /\ left \in Nat \ {0} /\ BeginMove(op, left)
      BY <1>5 DEF Again, TypeInv, TypeOK, CallInv
    <2> QED
      BY <2>1, BeginTyped
  <1>6. CASE Descend
    BY <1>6, DescendTyped
  <1>7. CASE Forward
    BY <1>7, ForwardTyped
  <1>8. CASE ToLast
    BY <1>8, ToLastTyped
  <1>9. CASE Backward
    BY <1>9, BackwardTyped
  <1>10. CASE UNCHANGED vars
    BY <1>10 DEF vars, TypeInv, TypeOK, CallInv
  <1> QED
    BY <1>1, <1>3, <1>4, <1>5, <1>6, <1>7, <1>8, <1>9, <1>10 DEF Next, Run

LEMMA AlwaysTyped == Spec => []TypeInv
  BY InitTyped, NextTyped, PTL DEF Spec

\* Once a move is past its first access to the current page, page() finds one there
\* in every round of the loops of move_next_row and move_previous_row, whatever page
\* loads failed before, and every repetition of a move starts with one.  The index
\* of the loops is a number: len() - 1 of a page without any tags (move_previous_row)
\* ends the call with a panic and is never used.
THEOREM PageIsThere ==
  Spec => [](/\ step \in {"again", "forward", "to last", "backward"} => current_page \in Pages
             /\ TypeOK)
  <1>1. TypeInv => /\ step \in {"again", "forward", "to last", "backward"} => current_page \in Pages
                   /\ TypeOK
    BY DEF TypeInv, CallInv
  <1> QED
    BY <1>1, AlwaysTyped, PTL

-----------------------------------------------------------------------------
(* A true answer means a live row                                          *)

\* Only a found row is answered true, and only an answer ends a call.
LEMMA NotTrue ==
  ASSUME NEW r \in Results \ {"true"}, Return(r)
  PROVE  OnLiveRow'
  BY DEF Return, OnLiveRow

LEMMA LiveNext == TypeInv /\ OnLiveRow /\ [Next]_vars => OnLiveRow'
  <1> SUFFICES ASSUME TypeInv, OnLiveRow, [Next]_vars
               PROVE  OnLiveRow'
    OBVIOUS
  <1>1. CASE Stay
    BY <1>1 DEF Stay, OnLiveRow
  <1>2. ASSUME NEW move, NEW n, BeginMove(move, n)
        PROVE  OnLiveRow'
    BY <1>2 DEF BeginMove, OnLiveRow
  <1>3. CASE Again \/ \E move, n : MoveRow(move, n)
    BY <1>2, <1>3 DEF Again, MoveRow
  <1>4. CASE Descend
    <2>1. CASE ChildLoop \/ LoadFails
      BY <2>1, NotTrue DEF ChildLoop, LoadFails, Results
    <2>2. CASE ReachLeaf
      BY <2>2, NotTrue DEF ReachLeaf, Results, OnLiveRow
    <2>3. CASE DescendFurther
      BY <1>4, <2>3, NotTrue DEF Descend, DescendFurther, Results, OnLiveRow
    <2> QED
      BY <1>4, <2>1, <2>2, <2>3 DEF Descend
  <1>5. ASSUME NEW p, LoadFails \/ Circular(p)
        PROVE  OnLiveRow'
    BY <1>5, NotTrue DEF LoadFails, Circular, Results
  <1>6. CASE Forward
    <2>1. step = "forward" /\ db' = db
      BY <1>6 DEF Forward
    <2>2. CASE FoundForward
      BY <2>1, <2>2 DEF FoundForward, OnLiveRow, Live, Tags
    <2>3. CASE NextPage
      BY <1>5, <2>1, <2>3, NotTrue DEF NextPage, Results, OnLiveRow
    <2> QED
      BY <1>6, <2>2, <2>3 DEF Forward
  <1>7. CASE ToLast
    BY <1>5, <1>7, NotTrue DEF ToLast, Results, OnLiveRow
  <1>8. CASE Backward
    <2>1. step = "backward" /\ db' = db
      BY <1>8 DEF Backward
    <2>2. CASE FoundBackward
      BY <2>1, <2>2 DEF FoundBackward, OnLiveRow, Live, Tags
    <2>3. CASE PreviousPage
      BY <1>5, <2>1, <2>3, NotTrue DEF PreviousPage, Results, OnLiveRow
    <2>4. CASE IndexOutOfPage
      BY <2>4, NotTrue DEF IndexOutOfPage, Results
    <2> QED
      BY <1>8, <2>2, <2>3, <2>4 DEF Backward
  <1>9. CASE UNCHANGED vars
    BY <1>9 DEF vars, OnLiveRow, Live, Tags
  <1> QED
    BY <1>1, <1>3, <1>4, <1>6, <1>7, <1>8, <1>9 DEF Next, Run

\* When move_row has answered true the cursor is on a record that exists and is
\* not defunct: for every page graph, proper or not, every history of moves and
\* every pattern of failed loads.
THEOREM TrueMeansLiveRow == Spec => []OnLiveRow
  <1>1. Init => OnLiveRow
    BY DEF Init, OnLiveRow
  <1> QED
    BY <1>1, AlwaysTyped, LiveNext, PTL DEF Spec

-----------------------------------------------------------------------------
(* A scan never delivers a row twice                                       *)

\* While a scan goes on, the pages it delivered rows from are noted as visited,
\* the current page among them, and on the current page it has not gone beyond
\* the tag index: page_tag_index between calls, i within one.  Without the
\* current page in visited_pages (the else branch of MoveFirst) a circle would
\* lead back to it once.
OnceInv ==
  scan.whole =>
    /\ step \in {"idle", "again", "forward"} /\ direction = "Forward"
    /\ current_page \in visited_pages
    /\ \A r \in scan.rows :
         /\ r[1] \in visited_pages
         /\ r[1] = current_page => r[2] <= page_tag_index
         /\ r[1] = current_page /\ step = "forward" => r[2] < i

LEMMA OnceBegin ==
  ASSUME TypeInv, OnceInv, step \in {"idle", "again"}, NEW move, NEW n, BeginMove(move, n)
  PROVE  OnceInv'
  <1>1. CASE scan' = [whole |-> FALSE, rows |-> {}]
    BY <1>1 DEF OnceInv
  <1>2. CASE scan' = scan /\ move = "next" /\ direction = "Forward"
    <2>1. /\ visited_pages' = visited_pages /\ direction' = "Forward"
          /\ UNCHANGED <<current_page, page_tag_index>>
      BY <1>2 DEF BeginMove, UpdateValidityInfo
    <2>2. step' = "idle" \/ (step' = "forward" /\ i' = page_tag_index + 1)
      BY <1>2 DEF BeginMove
    <2>3. page_tag_index \in Nat /\ \A r \in scan.rows : r[2] \in Nat
      BY DEF TypeInv, TypeOK, Scan
    <2> QED
      BY <1>2, <2>1, <2>2, <2>3 DEF OnceInv
  <1> QED
    BY <1>1, <1>2 DEF BeginMove, Continue

\* Where neither the cursor nor the history moves, the call may only end.
LEMMA OnceStill ==
  ASSUME OnceInv, UNCHANGED <<current_page, page_tag_index, visited_pages, direction, scan>>,
         step' \in {"idle", "again"} \/ UNCHANGED <<step, i>>
  PROVE  OnceInv'
  BY DEF OnceInv

LEMMA OnceNext == TypeInv /\ OnceInv /\ [Next]_vars => OnceInv'
  <1> SUFFICES ASSUME TypeInv, OnceInv, [Next]_vars
               PROVE  OnceInv'
    OBVIOUS
  <1>1. CASE Stay
    BY <1>1 DEF Stay, OnceInv
  <1>2. CASE Again \/ \E move, n : MoveRow(move, n)
    BY <1>2, OnceBegin DEF Again, MoveRow
  <1>3. CASE Descend
    <2>1. step = "descend" /\ ~ scan.whole
      BY <1>3 DEF Descend, OnceInv
    <2>2. CASE ReachLeaf
      <3>1. current_page' = at /\ at \in visited_pages' /\ direction' = direction
            /\ scan' = [whole |-> TRUE, rows |-> {}] /\ step' \in {"idle", "again", "forward"}
        BY <2>2 DEF ReachLeaf, SetCurrentPage, Return
      <3>2. direction = "Forward"
        BY <2>1 DEF TypeInv, CallInv
      <3> QED
        BY <3>1, <3>2 DEF OnceInv
    <2>3. CASE ~ ReachLeaf
      <3>1. scan' = scan
        BY <1>3, <2>3 DEF Descend, ChildLoop, DescendFurther
      <3> QED
        BY <2>1, <3>1 DEF OnceInv
    <2> QED
      BY <2>2, <2>3
  <1>4. CASE Forward
    <2>1. step = "forward"
      BY <1>4 DEF Forward
    <2>2. CASE FoundForward
      <3>1. PICK t \in 1 .. Len(Tags(current_page)) :
              /\ t >= i /\ page_tag_index' = t /\ Return("true")
              /\ scan' = [scan EXCEPT !.rows = @ \cup {<<current_page, t>>}]
              /\ UNCHANGED <<current_page, visited_pages, direction, i>>
        BY <2>2 DEF FoundForward
      <3>2. step' \in {"idle", "again"}
        BY <3>1 DEF Return
      <3>3. scan \in Scan /\ i \in Nat /\ t \in Nat
        BY <2>1, <3>1, WalkFacts
      <3>4. scan'.whole = scan.whole /\ scan'.rows = scan.rows \cup {<<current_page, t>>}
        BY <3>1, <3>3 DEF Scan
      <3>5. \A r \in scan.rows : r[2] \in Nat
        BY <3>3 DEF Scan
      <3>6. ASSUME scan.whole, NEW r \in scan'.rows
            PROVE  /\ r[1] \in visited_pages'
                   /\ r[1] = current_page' => r[2] <= page_tag_index'
        <4>1. CASE r \in scan.rows
          BY <2>1, <3>1, <3>3, <3>5, <3>6, <4>1 DEF OnceInv
        <4>2. CASE r = <<current_page, t>>
          BY <3>1, <3>3, <3>6, <4>2 DEF OnceInv
        <4> QED
          BY <3>4, <3>6, <4>1, <4>2
      <3> QED
        BY <3>1, <3>2, <3>4, <3>6 DEF OnceInv
    <2>3. CASE NextPage
      <3> DEFINE p == db.page[current_page].next
      <3>1. CASE UNCHANGED <<current_page, page_tag_index, visited_pages, direction, scan>>
                 /\ step' \in {"idle", "again"}
        BY <3>1, OnceStill
      <3>2. CASE SetCurrentPage(p) /\ i' = 1 /\ UNCHANGED <<step, scan>>
        BY <3>2 DEF SetCurrentPage, OnceInv
      <3> QED
        BY <2>3, <3>1, <3>2 DEF NextPage, LoadFails, Circular, Return
    <2> QED
      BY <1>4, <2>2, <2>3 DEF Forward
  <1>5. CASE ToLast \/ Backward
    BY <1>5 DEF ToLast, Backward, OnceInv
  <1>6. CASE UNCHANGED vars
    BY <1>6, OnceStill DEF vars
  <1> QED
    BY <1>1, <1>2, <1>3, <1>4, <1>5, <1>6 DEF Next, Run

LEMMA OnceStep ==
  ASSUME TypeInv, OnceInv, [Next]_vars,
         scan.whole, step = "forward", result' = "true", step' # step
  PROVE  <<current_page', page_tag_index'>> \notin scan.rows
  <1>1. Forward
    BY DEF Next, Run, Stay, MoveRow, Again, Descend, ToLast, Backward, vars
  <1>2. ~ NextPage
    BY DEF NextPage, Return, LoadFails, Circular
  <1>3. PICK t \in 1 .. Len(Tags(current_page)) :
          t >= i /\ page_tag_index' = t /\ current_page' = current_page
    BY <1>1, <1>2 DEF Forward, FoundForward
  <1>4. scan \in Scan /\ i \in Nat /\ t \in Nat
    BY <1>3, WalkFacts
  <1>5. \A r \in scan.rows : r[1] = current_page => r[2] < i
    BY DEF OnceInv
  <1> QED
    BY <1>3, <1>4, <1>5 DEF Scan

\* A scan that MoveFirst began delivers no row twice, for every page graph: this
\* is the protection against circular references that ValidityInfo is there for.
THEOREM RowsAreDeliveredOnce == Spec => EachRowOnce
  <1>1. Init => OnceInv
    BY DEF Init, OnceInv
  <1>2. TypeInv /\ OnceInv /\ [Next]_vars =>
          [scan.whole /\ scan'.whole /\ step = "forward" /\ result' = "true" /\ step' # step
           => <<current_page', page_tag_index'>> \notin scan.rows]_vars
    BY OnceStep
  <1> QED
    BY <1>1, <1>2, AlwaysTyped, OnceNext, PTL DEF Spec, EachRowOnce

-----------------------------------------------------------------------------
(* Where there is no circle, going forward is never refused                *)

\* The links of a table lead forward when its pages can be given ranks that
\* children and next pages exceed.
Ranked(rank, d) ==
  \A p \in Pages :
    /\ d.page[p].next # 0 => rank[p] < rank[d.page[p].next]
    /\ ~ d.page[p].leaf => rank[p] < rank[d.page[p].child]

\* Going forward, the visited pages rank no higher than the current one, and in
\* find_first_leaf_page the pages passed rank below the one to look at.
RankInv(rank) ==
  /\ Ranked(rank, db)
  /\ direction = "None" => visited_pages = {}
  /\ step = "descend" => visited_pages = {}
  /\ direction = "Forward" =>
       \A v \in visited_pages : current_page # 0 /\ rank[v] <= rank[current_page]
  /\ step = "descend" => \A q \in seen : rank[q] < rank[at]
  /\ ScanNeverRefused

LEMMA RankBegin ==
  ASSUME NEW rank \in [Pages -> Nat], TypeInv, RankInv(rank),
         NEW move \in Moves \ {"stay"}, NEW n, BeginMove(move, n)
  PROVE  RankInv(rank)'
  <1>1. /\ UNCHANGED <<db, current_page>> /\ op' = move
        /\ step' = "descend" => move = "first" /\ seen' = {}
        /\ step' = "idle" => result' = "panic"
    BY DEF BeginMove
  <1>2. /\ visited_pages' = visited_pages \/ visited_pages' = {}
        /\ direction' # "None"
        /\ direction' = "Forward" => visited_pages' = {} \/ direction \in {"Forward", "None"}
        /\ move = "first" => visited_pages' = {}
    BY DEF BeginMove, UpdateValidityInfo, TypeInv, TypeOK, Moves
  <1> QED
    BY <1>1, <1>2 DEF RankInv, ScanNeverRefused, Ranked

\* The end of a call leaves the ranks in order when the cursor did not move.
LEMMA RankReturn ==
  ASSUME NEW rank \in [Pages -> Nat], RankInv(rank), NEW r, Return(r),
         UNCHANGED <<db, current_page, visited_pages, direction>>,
         op \in {"first", "next"} => r \notin {"circular", "child loop"}
  PROVE  RankInv(rank)'
  BY DEF RankInv, Return, ScanNeverRefused, Ranked

LEMMA RankNext ==
  ASSUME NEW rank \in [Pages -> Nat], TypeInv, RankInv(rank), [Next]_vars
  PROVE  RankInv(rank)'
  <1>1. CASE Stay
    BY <1>1 DEF Stay, RankInv, ScanNeverRefused, Ranked
  <1>2. CASE Again \/ \E move \in {"first", "last", "next", "previous"}, n \in Nat : MoveRow(move, n)
    <2>1. step # "idle" => op \in Moves \ {"stay"}
      BY DEF TypeInv, TypeOK, CallInv
    <2> QED
      BY <1>2, <2>1, RankBegin DEF Again, MoveRow, Moves
  <1>3. CASE Descend
    <2>1. /\ step = "descend" /\ db' = db /\ at \in Pages /\ op \in {"first", "next"}
          /\ seen \subseteq Pages /\ visited_pages = {} /\ direction = "Forward"
      BY <1>3 DEF Descend, TypeInv, TypeOK, CallInv, RankInv
    <2>2. at \notin seen
      BY <2>1 DEF RankInv
    <2>3. CASE LoadFails
      BY <2>1, <2>3, RankReturn DEF LoadFails
    <2>4. CASE ReachLeaf
      <3>1. current_page' = at /\ visited_pages' = {at} /\ direction' = "Forward"
            /\ step' # "descend"
            /\ (step' = "idle" => result' = "false") /\ op' = op
        BY <2>1, <2>4 DEF ReachLeaf, SetCurrentPage, Return
      <3>2. at # 0
        BY <2>1, PagesAssumption
      <3>3. rank[at] \in Nat
        BY <2>1
      <3>4. \A v \in visited_pages' : current_page' # 0 /\ rank[v] <= rank[current_page']
        BY <3>1, <3>2, <3>3
      <3> QED
        BY <2>1, <3>1, <3>4 DEF RankInv, ScanNeverRefused, Ranked
    <2>5. CASE DescendFurther
      <3>1. CASE at' = db.page[at].child /\ UNCHANGED <<step, call, result>>
        <4>1. rank[at] < rank[at'] /\ at' \in Pages
          BY <2>1, <2>5, <3>1, PageType DEF DescendFurther, RankInv, Ranked
        <4>2. seen' = seen \cup {at} /\ UNCHANGED <<current_page, visited_pages, direction>>
          BY <2>5 DEF DescendFurther
        <4>3. \A q \in seen' : rank[q] < rank[at']
          <5>1. \A q \in seen : rank[q] \in Nat /\ rank[q] < rank[at]
            BY <2>1 DEF RankInv
          <5>2. rank[at] \in Nat /\ rank[at'] \in Nat
            BY <2>1, <4>1
          <5> QED
            BY <4>1, <4>2, <5>1, <5>2
        <4> QED
          BY <2>1, <3>1, <4>2, <4>3 DEF RankInv, ScanNeverRefused, Ranked
      <3>2. CASE Return("panic")
        BY <2>1, <2>5, <3>2, RankReturn DEF DescendFurther
      <3> QED
        BY <2>5, <3>1, <3>2 DEF DescendFurther
    <2> QED
      BY <1>3, <2>2, <2>3, <2>4, <2>5 DEF Descend, ChildLoop
  <1>4. CASE Forward
    <2>1. /\ step = "forward" /\ db' = db /\ current_page \in Pages
          /\ direction = "Forward" /\ op \in {"first", "next"}
      BY <1>4 DEF Forward, TypeInv, CallInv
    <2>2. CASE FoundForward
      BY <2>1, <2>2, RankReturn DEF FoundForward
    <2>3. CASE NextPage
      <3> DEFINE p == db.page[current_page].next
      <3>1. CASE p = 0
        <4>1. Return("false") /\ UNCHANGED <<current_page, visited_pages, direction>>
          BY <2>3, <3>1 DEF NextPage
        <4> QED
          BY <2>1, <4>1, RankReturn
      <3>2. CASE p # 0
        <4>1. p \in Pages /\ rank[current_page] < rank[p]
          BY <2>1, <3>2, PageType DEF RankInv, Ranked
        <4>2. \A v \in visited_pages : v \in Pages /\ rank[v] \in Nat /\ rank[v] <= rank[current_page]
          BY <2>1 DEF RankInv, TypeInv, TypeOK
        <4>3. rank[current_page] \in Nat /\ rank[p] \in Nat
          BY <2>1, <4>1
        <4>4. p \notin visited_pages /\ \A v \in visited_pages : rank[v] <= rank[p]
          BY <4>1, <4>2, <4>3
        <4>5. CASE LoadFails
          BY <2>1, <4>5, RankReturn DEF LoadFails
        <4>6. CASE SetCurrentPage(p) /\ UNCHANGED <<step, call, result>>
          <5>1. current_page' = p /\ visited_pages' = visited_pages \cup {p} /\ direction' = direction
            BY <4>6 DEF SetCurrentPage
          <5>2. \A v \in visited_pages' : current_page' # 0 /\ rank[v] <= rank[current_page']
            BY <3>2, <4>3, <4>4, <5>1
          <5> QED
            BY <2>1, <4>6, <5>1, <5>2 DEF RankInv, ScanNeverRefused, Ranked
        <4> QED
          BY <2>3, <3>2, <4>4, <4>5, <4>6 DEF NextPage, Circular
      <3> QED
        BY <3>1, <3>2
    <2> QED
      BY <1>4, <2>2, <2>3 DEF Forward
  <1>5. CASE ToLast \/ Backward
    <2>1. /\ step \in {"to last", "backward"} /\ db' = db
          /\ direction = "Backward" /\ op \in {"last", "previous"}
      BY <1>5 DEF ToLast, Backward, TypeInv, CallInv
    <2>2. direction' = direction /\ op' = op /\ step' # "descend"
      BY <1>5, <2>1 DEF ToLast, Backward, FoundBackward, PreviousPage, IndexOutOfPage,
                        LoadFails, Circular, SetCurrentPage, Return
    <2> QED
      BY <2>1, <2>2 DEF RankInv, ScanNeverRefused, Ranked
  <1>6. CASE UNCHANGED vars
    BY <1>6 DEF vars, RankInv, ScanNeverRefused, Ranked
  <1>7. Next => \/ Stay \/ Descend \/ Forward \/ ToLast \/ Backward
                \/ Again \/ \E move \in {"first", "last", "next", "previous"}, n \in Nat : MoveRow(move, n)
    BY PagesAssumption DEF Next, Run
  <1> QED
    BY <1>1, <1>2, <1>3, <1>4, <1>5, <1>6, <1>7

\* In a table whose child and next links lead forward, MoveFirst and MoveNext are
\* never refused with a circular reference or a child loop, whatever moves, turns
\* and failed loads went before.
THEOREM ForwardNeverRefused ==
  ASSUME NEW rank \in [Pages -> Nat], \A d \in Databases : Ranked(rank, d)
  PROVE  Spec => []ScanNeverRefused
  <1>1. Init => RankInv(rank)
    BY DEF Init, RankInv, ScanNeverRefused
  <1>2. TypeInv /\ RankInv(rank) /\ [Next]_vars => RankInv(rank)'
    BY RankNext
  <1>3. RankInv(rank) => ScanNeverRefused
    BY DEF RankInv
  <1> QED
    BY <1>1, <1>2, <1>3, AlwaysTyped, PTL DEF Spec

=============================================================================
