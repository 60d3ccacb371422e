----------------------------- MODULE MCSession -----------------------------
(* Session on small instances, and its refinement of SessionSpec.          *)
EXTENDS Session, TLC

(* Which dataset is where in memory does not matter.                       *)
Addresses == Permutations(Ds)

-----------------------------------------------------------------------------
Held(b) == [vars |-> Permanent(b),
            made |-> IF b.source = NULL THEN NULL ELSE b.source.made + b.trns]

(* The null pointer is nothing that a dataset can hold.                    *)
ASSUME ContentsAssumption ==
  /\ NULL \notin [vars : 0 .. MaxVars, made : 0 .. MaxMade \cup {NULL}]
  /\ NULL \notin Data /\ NULL \notin 0 .. MaxMade

Spec0 == INSTANCE SessionSpec WITH
  Absent <- NULL,
  NoData <- NULL,
  stored <- [n \in Name \cup {Unnamed} |->
               IF Lookup(s0, n) = NULL THEN NULL ELSE Held(body[Lookup(s0, n)])],
  active <- name[active]

(* Pointers, renaming by taking out and putting back, and transformations  *)
(* that run late do what the manual says of datasets: each name has the    *)
(* contents, pending transformations counted as executed, that the DATASET *)
(* commands, MATCH FILES and AGGREGATE give it, and no other command       *)
(* changes a dataset that is not active (proc_execute, proc_commit,        *)
(* dataset_writer_casewriter_destroy).                                     *)
IsSession == Spec0!Spec
=============================================================================
