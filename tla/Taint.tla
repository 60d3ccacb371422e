------------------------------- MODULE Taint -------------------------------
(***************************************************************************)
(* The taint graph of src/libpspp/taint.c.  Every object that moves cases  *)
(* (a casereader, a casewriter, a casewindow, a temporary file) owns a     *)
(* taint; an edge from FROM to TO says that an I/O error behind FROM also  *)
(* spoils TO.  The graph is what tells the user, at the end of a command,  *)
(* that the data just produced cannot be trusted.                          *)
(*                                                                         *)
(* A struct taint is a member of Node; it exists while its ref_cnt is      *)
(* positive.  The two lists of neighbours are sets: taint_list_add keeps   *)
(* them free of duplicates and no caller depends on their order.           *)
(***************************************************************************)
EXTENDS Naturals

CONSTANTS
  Node,      \* the addresses that malloc hands out for struct taint
  MaxRef     \* bound on ref_cnt, a size_t in the code

ASSUME MaxRefAssumption == MaxRef \in Nat \ {0}

VARIABLES
  ref_cnt,            \* [Node -> Nat], 0 for memory that is not a taint
  successors,         \* [Node -> SUBSET Node]
  predecessors,       \* [Node -> SUBSET Node]
  tainted,            \* the nodes whose tainted flag is set
  tainted_successor   \* the nodes whose tainted_successor flag is set

vars == <<ref_cnt, successors, predecessors, tainted, tainted_successor>>
edges == <<successors, predecessors>>
flags == <<tainted, tainted_successor>>

Live == {n \in Node : ref_cnt[n] > 0}

-----------------------------------------------------------------------------
(* The two recursive marking functions.                                    *)

(* The nodes that a depth-first walk along `next' visits from `start' when *)
(* it does not descend into nodes of `marked': the least set that holds    *)
(* start and is closed under unmarked neighbours.                          *)
Flood(start, next, marked) ==
  {n \in Node : \A X \in SUBSET Node :
     (start \subseteq X /\ \A x \in X : next[x] \ marked \subseteq X) => n \in X}

(* recursively_set_taint on each of `nodes': itself and the untainted nodes *)
(* downstream of it.                                                       *)
Spoiled(nodes, succs) == Flood(nodes, succs, tainted)

(* recursively_set_tainted_successor on each of `nodes'.                   *)
Suspected(nodes, preds) == Flood(nodes, preds, tainted_successor)

(* The lists after taint_list_add for both ends of each edge of `new'.     *)
Forward(new) == [m \in Node |-> successors[m] \cup {k \in Node : <<m, k>> \in new}]
Backward(new) == [m \in Node |-> predecessors[m] \cup {k \in Node : <<k, m>> \in new}]

(* The nodes that taint_propagate hands to the two functions, for `new' a  *)
(* set of edges.  The code adds the edges one by one; the marks it arrives *)
(* at do not depend on the order.                                          *)
NoLateTaint(new) == {}   \* mutant: an edge does not take effect immediately
LateTaint(new) ==
  {to \in Node \ tainted : \E from \in tainted : <<from, to>> \in new}
LateSuspect(new) ==
  {from \in Node \ tainted_successor :
     \E to \in tainted_successor : <<from, to>> \in new}

(* The marks after taint_propagate for each edge of `new'.                 *)
TaintedAfter(new) == tainted \cup Spoiled(LateTaint(new), Forward(new))
SuspectAfter(new) ==
  tainted_successor
    \cup Suspected(Spoiled(LateTaint(new), Forward(new)) \cup LateSuspect(new),
                   Backward(new))

-----------------------------------------------------------------------------
Init ==
  /\ ref_cnt = [n \in Node |-> 0]
  /\ successors = [n \in Node |-> {}]
  /\ predecessors = [n \in Node |-> {}]
  /\ tainted = {}
  /\ tainted_successor = {}

taint_create(n) ==
  /\ ref_cnt[n] = 0
  /\ ref_cnt' = [ref_cnt EXCEPT ![n] = 1]
  /\ UNCHANGED <<edges, flags>>

taint_clone(n) ==
  /\ ref_cnt[n] \in 1 .. MaxRef - 1
  /\ ref_cnt' = [ref_cnt EXCEPT ![n] = @ + 1]
  /\ UNCHANGED <<edges, flags>>

(* taint_destroy by an owner that is not the last one.                     *)
taint_release(n) ==
  /\ ref_cnt[n] > 1
  /\ ref_cnt' = [ref_cnt EXCEPT ![n] = @ - 1]
  /\ UNCHANGED <<edges, flags>>

(* The edges that stand in for the paths through n.                        *)
NoBridge(n) == {}   \* mutant: taint_destroy forgets the paths through n
Bridge(n) == {e \in predecessors[n] \X successors[n] : e[1] # e[2]}

(* The lists once n has left those of its neighbours.                      *)
FreeOnly(n, lists) ==   \* mutant: taint_list_remove is never called
  [m \in Node |-> IF m = n THEN {} ELSE lists[m]]
Unlink(n, lists) == [m \in Node |-> IF m = n THEN {} ELSE lists[m] \ {n}]

(* taint_destroy by the last owner: every predecessor is joined to every   *)
(* successor, then the node leaves its neighbours' lists and is freed.     *)
taint_destroy(n) ==
  /\ ref_cnt[n] = 1
  /\ ref_cnt' = [ref_cnt EXCEPT ![n] = 0]
  /\ successors' = Unlink(n, Forward(Bridge(n)))
  /\ predecessors' = Unlink(n, Backward(Bridge(n)))
  /\ tainted' = TaintedAfter(Bridge(n)) \ {n}
  /\ tainted_successor' = SuspectAfter(Bridge(n)) \ {n}

(* taint_propagate: FROM becomes a source of taint for TO, at once if FROM *)
(* is already tainted.                                                     *)
taint_propagate(from, to) ==
  /\ {from, to} \subseteq Live
  /\ from # to
  /\ successors' = Forward({<<from, to>>})
  /\ predecessors' = Backward({<<from, to>>})
  /\ tainted' = TaintedAfter({<<from, to>>})
  /\ tainted_successor' = SuspectAfter({<<from, to>>})
  /\ UNCHANGED ref_cnt

(* taint_set_taint on a node not yet tainted; on a tainted one it returns. *)
SetTaintForward(n) ==   \* mutant: predecessors are not told
  /\ n \in Live \ tainted
  /\ tainted' = tainted \cup Spoiled({n}, successors)
  /\ tainted_successor' = tainted_successor \cup Spoiled({n}, successors)
  /\ UNCHANGED <<ref_cnt, edges>>
taint_set_taint(n) ==
  /\ n \in Live \ tainted
  /\ tainted' = tainted \cup Spoiled({n}, successors)
  /\ tainted_successor' = tainted_successor
       \cup Suspected(Spoiled({n}, successors), predecessors)
  /\ UNCHANGED <<ref_cnt, edges>>

(* taint_reset_successor_taint.  Its one caller, dataset_end_of_command,   *)
(* has just found the node untainted.                                      *)
taint_reset_successor_taint(n) ==
  /\ n \in Live \ tainted
  /\ n \in tainted_successor
  /\ successors[n] \cap tainted_successor = {}
  /\ tainted_successor' = tainted_successor \ {n}
  /\ UNCHANGED <<ref_cnt, edges, tainted>>

Next ==
  \/ \E n \in Node : \/ taint_create(n)
                     \/ taint_clone(n)
                     \/ taint_release(n)
                     \/ taint_destroy(n)
                     \/ taint_set_taint(n)
                     \/ taint_reset_successor_taint(n)
  \/ \E from, to \in Node : taint_propagate(from, to)

Spec == Init /\ [][Next]_vars

-----------------------------------------------------------------------------
(* Properties.                                                             *)

(* Counts, lists and flags have the types of the fields of struct taint.   *)
TypeOK ==
  /\ ref_cnt \in [Node -> 0 .. MaxRef]
  /\ successors \in [Node -> SUBSET Node]
  /\ predecessors \in [Node -> SUBSET Node]
  /\ tainted \subseteq Node
  /\ tainted_successor \subseteq Node

(* No list holds a pointer to a freed taint, and the two lists of an edge  *)
(* agree: taint_list_remove would run into NOT_REACHED otherwise, and a    *)
(* walk would touch freed memory.                                          *)
ListsMirror ==
  /\ \A m, n \in Node : n \in successors[m] <=> m \in predecessors[n]
  /\ \A n \in Node : successors[n] \cup predecessors[n] # {} => n \in Live
  /\ tainted \cup tainted_successor \subseteq Live

(* The first invariant stated at the top of taint.c: if a node is tainted, *)
(* then all of its successors are tainted.                                 *)
SuccessorsTainted ==
  \A n \in tainted : successors[n] \subseteq tainted

(* The second one: if a node is tainted, then it and all of its            *)
(* predecessors, near and far, are successor-tainted.                      *)
PredecessorsSuspect ==
  /\ tainted \subseteq tainted_successor
  /\ \A n \in tainted :
       Flood({n}, predecessors, {}) \subseteq tainted_successor

(* The strengthening that every step preserves: the marks are closed one   *)
(* edge at a time, which is all the code ever looks at.                    *)
SuspectUpward ==
  \A n \in tainted_successor : predecessors[n] \subseteq tainted_successor

IInv ==
  /\ TypeOK
  /\ ListsMirror
  /\ SuccessorsTainted
  /\ tainted \subseteq tainted_successor
  /\ SuspectUpward
=============================================================================
