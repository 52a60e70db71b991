----------------------------- MODULE MCCatalog -----------------------------
(* Catalogs of three pages for Catalog *)
EXTENDS Catalog

Numbers == Pages \cup {0}
One == <<[kind |-> "table", name |-> 1, defunct |-> FALSE]>>

\* The root is a leaf, or a parent with page 5 as its first child; the pages below
\* are leaves.  Pages 5 and 6 could be exchanged.
LinkedAnyhow ==
  {[p \in Pages |->
      [leaf |-> p # Root \/ leaf, parent |-> p = Root /\ ~ leaf, child |-> IF p = Root THEN 5 ELSE 0,
       prev |-> prev[p], next |-> next[p], items |-> One]] :
   leaf \in BOOLEAN, prev \in [Pages -> Numbers], next \in [Pages -> Numbers]}

Used(kind) == [kind |-> kind, name |-> 1, defunct |-> FALSE]

\* Every kind of record, and defunct ones of tables and of columns.  The second
\* page has other names.
MCItems == {Used(kind) : kind \in Kinds} \cup
           {[Used(kind) EXCEPT !.defunct = TRUE] : kind \in {"table", "column"}}
Renamed(s) == [n \in 1 .. Len(s) |-> [s[n] EXCEPT !.name = 1 + n]]
UpTo(n) == UNION {[1 .. k -> MCItems] : k \in 0 .. n}

Leaf(prev, next, s) ==
  [leaf |-> TRUE, parent |-> FALSE, child |-> 0, prev |-> prev, next |-> next, items |-> s]

\* Below a parent page 4, and with page 4 as the first of two leaves
TwoLeaves ==
  LET below == [leaf |-> FALSE, parent |-> TRUE, child |-> 5, prev |-> 0, next |-> 0, items |-> <<>>]
  IN  {(4 :> below) @@ (5 :> Leaf(0, 6, s)) @@ (6 :> Leaf(5, 0, Renamed(t))) : s \in UpTo(2), t \in UpTo(2)}
      \cup {(4 :> Leaf(0, 5, <<>>)) @@ (5 :> Leaf(4, 0, s)) @@ (6 :> Leaf(0, 0, <<>>)) : s \in UpTo(3)}

\* A root that is neither, a parent above a page that is no leaf, and one that has
\* no record
Misshapen ==
  LET inner == [leaf |-> FALSE, parent |-> FALSE, child |-> 0, prev |-> 0, next |-> 0, items |-> <<>>]
  IN  {[p \in Pages |-> [inner EXCEPT !.parent = top, !.child = first]] : top \in BOOLEAN, first \in {5, NoTag}}

\* A catalog without records
EmptyFile == (4 :> Leaf(0, 0, <<>>)) @@ [p \in Pages |-> Leaf(0, 0, <<>>)]

MCFiles == {EmptyFile} \cup Misshapen \cup TwoLeaves \cup LinkedAnyhow

=============================================================================
