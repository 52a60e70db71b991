---------------------------- MODULE MCPageCache ----------------------------
(* Instance of PageCache for TLC. *)
EXTENDS PageCache

\* A file of 13 cells holds 6 whole pages of 2 cells, 2 of 6, and a tail that
\* fills no page; 3 puts the backup header across a provisional page boundary.
\* Pages of 2 cells have the numbers 0 .. 5: cells 12 and 13 are past the last.
MCPageSizes == {0, 2, 3, 6}
MCRevisions == {0, 17}

=============================================================================
