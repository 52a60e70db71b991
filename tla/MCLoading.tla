----------------------------- MODULE MCLoading -----------------------------
(***************************************************************************)
(* What the parser loads before it reads rows: the catalog, then the long  *)
(* values of a table.  The two have no state in common, so that it is      *)
(* enough to take any catalog, or any tree of long values after one        *)
(* catalog.                                                                *)
(***************************************************************************)
EXTENDS MCCatalog

CONSTANTS LvPages, LvKeys, CompressedKeys, MaxDepth

VARIABLES loading,                                         \* what this behaviour is about
          tree, lv_tags, lvStep, at, stack, tags, key, lvRes, result  \* of LongValues

Shapes == INSTANCE MCLongValues WITH Pages <- LvPages, Keys <- LvKeys
LV ==
  INSTANCE LongValues WITH
    Pages <- LvPages, Keys <- LvKeys, Trees <- Shapes!MCTrees, step <- lvStep, res <- lvRes

lvVars == <<tree, lv_tags, lvStep, at, stack, tags, key, lvRes, result>>

LoadingInit ==
  \/ loading = "catalog" /\ tree = Shapes!NotLongValue /\ LV!Init /\ Init
  \/ loading = "long values" /\ pages = EmptyFile /\ Init /\ LV!Init

LoadCatalog == Next /\ UNCHANGED <<loading, lvVars>>

\* A table is opened when the catalog is there.
UseTable == loading = "long values" /\ outcome = "ok" /\ LV!Next /\ UNCHANGED <<loading, vars>>

LoadingSpec ==
  /\ LoadingInit /\ [][LoadCatalog \/ UseTable]_<<loading, vars, lvVars>>
  /\ WF_vars(LoadCatalog /\ Working)
  /\ WF_lvVars(UseTable /\ LV!Running)

-----------------------------------------------------------------------------
\* A load of long values that fails leaves no half of them behind (open_table,
\* load_lv_metadata), and what it keeps is the live ones unless the tree is a
\* single leaf.
AllOrNothing == LV!AllOrNothing


\* load_lv_metadata and load_lv_data return, but for the circles and the segments
\* without bytes that LongValues names.
Returns == LV!Returns

=============================================================================
