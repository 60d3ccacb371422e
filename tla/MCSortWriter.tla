---------------------------- MODULE MCSortWriter ----------------------------
(* SortWriter on small instances, and its refinement of StableSort.        *)
EXTENDS SortWriter

Sort == INSTANCE StableSort WITH NoReader <- NULL

(* Whatever the size of memory, the number of runs and of merges among     *)
(* them, the reader has each case written once, in stable order.           *)
IsStableSort == Sort!Spec
=============================================================================
