------------------------------ MODULE MCTaint ------------------------------
(* Taint on small graphs, and its refinement of TaintSpec.                 *)
EXTENDS Taint, TLC

Symmetry == Permutations(Node)

(* Node a derives node b when a path of edges leads from a to b.           *)
Path ==
  {e \in Node \X Node :
     e[1] # e[2] /\ e[2] \in Flood({e[1]}, successors, {})}

Abstract == INSTANCE TaintSpec WITH
  live <- Live, derives <- Path, suspect <- tainted_successor

(* Whatever is created, joined, tainted, reset and destroyed, and in which *)
(* order, taint.c answers as TaintSpec does: in particular the reachability *)
(* between the survivors outlives a destroyed link, around loops too.      *)
Refines == Abstract!Spec
=============================================================================
