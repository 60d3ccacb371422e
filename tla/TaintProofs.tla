---------------------------- MODULE TaintProofs ----------------------------
(***************************************************************************)
(* For every number of nodes and every order of calls, the two invariants  *)
(* that the comment at the top of taint.c states hold, and the graph       *)
(* answers as TaintSpec, which knows no graph, says it should.             *)
(***************************************************************************)
EXTENDS MCTaint, TLAPS

(* A walk stays among the nodes, ...                                       *)
LEMMA FloodInNode ==
  ASSUME NEW start, NEW next, NEW marked
  PROVE  Flood(start, next, marked) \subseteq Node
BY DEF Flood

(* ... visits where it starts, ...                                         *)
LEMMA FloodStart ==
  ASSUME NEW start, NEW next, NEW marked, start \subseteq Node
  PROVE  start \subseteq Flood(start, next, marked)
BY DEF Flood

(* ... leaves no unmarked neighbour of a visited node out, ...             *)
LEMMA FloodClosed ==
  ASSUME NEW start, NEW next \in [Node -> SUBSET Node], NEW marked,
         NEW x \in Flood(start, next, marked)
  PROVE  next[x] \ marked \subseteq Flood(start, next, marked)
<1>1. x \in Node
  BY FloodInNode
<1>2. SUFFICES ASSUME NEW y \in next[x] \ marked, NEW X \in SUBSET Node,
                      start \subseteq X, \A z \in X : next[z] \ marked \subseteq X
               PROVE  y \in X
  BY <1>1 DEF Flood
<1>3. x \in X
  BY <1>2 DEF Flood
<1> QED BY <1>2, <1>3

(* ... and goes nowhere a closed set does not reach.                       *)
LEMMA FloodLeast ==
  ASSUME NEW start, NEW next, NEW marked, NEW X \in SUBSET Node,
         start \subseteq X, \A x \in X : next[x] \ marked \subseteq X
  PROVE  Flood(start, next, marked) \subseteq X
BY DEF Flood

-----------------------------------------------------------------------------
(* What the marking functions leave behind: taintedness is closed along    *)
(* the edges, old and new, and successor-taintedness against them.         *)
LEMMA EdgesMarked ==
  ASSUME IInv, NEW new
  PROVE  /\ tainted \subseteq TaintedAfter(new)
         /\ TaintedAfter(new) \subseteq Node
         /\ TaintedAfter(new) \subseteq SuspectAfter(new)
         /\ SuspectAfter(new) \subseteq Node
         /\ \A x \in TaintedAfter(new) : Forward(new)[x] \subseteq TaintedAfter(new)
         /\ \A x \in SuspectAfter(new) : Backward(new)[x] \subseteq SuspectAfter(new)
<1> DEFINE F == Forward(new)
           B == Backward(new)
           sp == Spoiled(LateTaint(new), F)
           roots == sp \cup LateSuspect(new)
           su == Suspected(roots, B)
<1>1. F \in [Node -> SUBSET Node] /\ B \in [Node -> SUBSET Node]
  BY DEF IInv, TypeOK, Forward, Backward
<1>2. sp \subseteq Node /\ su \subseteq Node
  BY FloodInNode DEF Spoiled, Suspected
<1>3. LateTaint(new) \subseteq sp
  BY FloodStart DEF LateTaint, Spoiled
<1>4. roots \subseteq su
  BY FloodStart, <1>2 DEF LateSuspect, Suspected
<1>5. TaintedAfter(new) = tainted \cup sp
  BY DEF TaintedAfter
<1>6. SuspectAfter(new) = tainted_successor \cup su
  BY DEF SuspectAfter
<1>7. ASSUME NEW x \in tainted \cup sp
      PROVE  F[x] \subseteq tainted \cup sp
  <2>1. CASE x \in sp
    <3>1. F[x] \ tainted \subseteq sp
      BY <1>1, <2>1, FloodClosed DEF Spoiled
    <3> QED BY <3>1
  <2>2. CASE x \in tainted
    <3>1. SUFFICES ASSUME NEW y \in F[x], y \notin tainted
                   PROVE  y \in sp
      OBVIOUS
    <3>2. x \in Node /\ y \in Node /\ y \notin successors[x]
      BY <1>1, <2>2, <3>1 DEF IInv, TypeOK, SuccessorsTainted
    <3>3. <<x, y>> \in new
      BY <3>1, <3>2 DEF Forward
    <3> QED BY <1>3, <2>2, <3>1, <3>2, <3>3 DEF LateTaint
  <2> QED BY <1>7, <2>1, <2>2
<1>8. ASSUME NEW x \in tainted_successor \cup su
      PROVE  B[x] \subseteq tainted_successor \cup su
  <2>1. CASE x \in su
    <3>1. B[x] \ tainted_successor \subseteq su
      BY <1>1, <2>1, FloodClosed DEF Suspected
    <3> QED BY <3>1
  <2>2. CASE x \in tainted_successor
    <3>1. SUFFICES ASSUME NEW y \in B[x], y \notin tainted_successor
                   PROVE  y \in su
      OBVIOUS
    <3>2. x \in Node /\ y \in Node /\ y \notin predecessors[x]
      BY <1>1, <2>2, <3>1 DEF IInv, TypeOK, SuspectUpward
    <3>3. <<y, x>> \in new
      BY <3>1, <3>2 DEF Backward
    <3> QED BY <1>4, <2>2, <3>1, <3>2, <3>3 DEF LateSuspect
  <2> QED BY <1>8, <2>1, <2>2
<1>9. tainted \subseteq tainted_successor /\ tainted_successor \subseteq Node
  BY DEF IInv, TypeOK
<1> QED BY <1>2, <1>4, <1>5, <1>6, <1>7, <1>8, <1>9

(* The lists keep mirroring each other when edges are added to both ends.  *)
LEMMA EdgesMirror ==
  ASSUME IInv, NEW new
  PROVE  /\ Forward(new) \in [Node -> SUBSET Node]
         /\ Backward(new) \in [Node -> SUBSET Node]
         /\ \A m, n \in Node : n \in Forward(new)[m] <=> m \in Backward(new)[n]
BY DEF IInv, TypeOK, ListsMirror, Forward, Backward

(* Edges between live nodes lead no mark and no pointer to a dead one.     *)
LEMMA EdgesLive ==
  ASSUME IInv, NEW new, new \subseteq Live \X Live
  PROVE  /\ \A x \in Node : Forward(new)[x] \cup Backward(new)[x] # {} => x \in Live
         /\ \A x \in Node : Forward(new)[x] \cup Backward(new)[x] \subseteq Live
         /\ SuspectAfter(new) \subseteq Live
<1> DEFINE F == Forward(new)
           B == Backward(new)
<1>1. /\ Live \in SUBSET Node
      /\ tainted \cup tainted_successor \subseteq Live
      /\ \A x \in Node : successors[x] \cup predecessors[x] # {} => x \in Live
      /\ \A x, y \in Node : y \in successors[x] <=> x \in predecessors[y]
      /\ \A x \in Node : successors[x] \subseteq Node /\ predecessors[x] \subseteq Node
  BY DEF Live, IInv, TypeOK, ListsMirror
<1>2. \A x, y : <<x, y>> \in new => x \in Live /\ y \in Live
  OBVIOUS
<1>3. ASSUME NEW x \in Node
      PROVE  F[x] = successors[x] \cup {k \in Node : <<x, k>> \in new}
  BY DEF Forward
<1>4. ASSUME NEW x \in Node
      PROVE  B[x] = predecessors[x] \cup {k \in Node : <<k, x>> \in new}
  BY DEF Backward
<1> HIDE DEF F, B
<1>5. \A x \in Node : F[x] \cup B[x] # {} => x \in Live
  <2>1. ASSUME NEW x \in Node, F[x] # {} PROVE x \in Live
    BY <1>1, <1>2, <1>3, <2>1
  <2>2. ASSUME NEW x \in Node, B[x] # {} PROVE x \in Live
    BY <1>1, <1>2, <1>4, <2>2
  <2> QED BY <2>1, <2>2
<1>6. \A x \in Node : F[x] \subseteq Live
  BY <1>1, <1>2, <1>3
<1>7. \A x \in Node : B[x] \subseteq Live
  BY <1>1, <1>2, <1>4
<1>8. LateTaint(new) \cup LateSuspect(new) \subseteq Live
  BY <1>2 DEF LateTaint, LateSuspect
<1>9. Flood(LateTaint(new), F, tainted) \subseteq Live
  <2>1. \A x \in Live : F[x] \ tainted \subseteq Live
    BY <1>1, <1>6
  <2> QED BY <1>1, <1>8, <2>1, FloodLeast
<1>10. Flood(Flood(LateTaint(new), F, tainted) \cup LateSuspect(new), B,
             tainted_successor) \subseteq Live
  <2>1. \A x \in Live : B[x] \ tainted_successor \subseteq Live
    BY <1>1, <1>7
  <2>2. Flood(LateTaint(new), F, tainted) \cup LateSuspect(new) \subseteq Live
    BY <1>8, <1>9
  <2> QED BY <1>1, <2>1, <2>2, FloodLeast
<1>11. SuspectAfter(new) \subseteq Live
  BY <1>1, <1>10 DEF SuspectAfter, Suspected, Spoiled, F, B
<1> QED BY <1>5, <1>6, <1>7, <1>11 DEF F, B

-----------------------------------------------------------------------------
(* One lemma per action.                                                   *)
LEMMA InitInv == Init => IInv
BY MaxRefAssumption
   DEF Init, IInv, TypeOK, ListsMirror, SuccessorsTainted, SuspectUpward

(* The actions that only count owners.                                     *)
LEMMA CountInv ==
  ASSUME IInv, NEW n \in Node,
         taint_create(n) \/ taint_clone(n) \/ taint_release(n)
  PROVE  IInv'
<1>1. UNCHANGED <<successors, predecessors, tainted, tainted_successor>>
  BY DEF taint_create, taint_clone, taint_release, edges, flags
<1>2. ref_cnt' \in [Node -> 0 .. MaxRef]
  BY MaxRefAssumption
     DEF IInv, TypeOK, taint_create, taint_clone, taint_release
<1>3. Live \subseteq Live'
  BY DEF IInv, TypeOK, Live, taint_create, taint_clone, taint_release
<1>4. TypeOK'
  BY <1>1, <1>2 DEF IInv, TypeOK
<1>5. ListsMirror'
  BY <1>1, <1>3 DEF IInv, ListsMirror
<1> QED BY <1>1, <1>4, <1>5 DEF IInv, SuccessorsTainted, SuspectUpward

LEMMA DestroyInv ==
  ASSUME IInv, NEW n \in Node, taint_destroy(n)
  PROVE  IInv'
<1> DEFINE new == Bridge(n)
           F == Forward(new)
           B == Backward(new)
<1>1. /\ F \in [Node -> SUBSET Node]
      /\ B \in [Node -> SUBSET Node]
      /\ \A k, m \in Node : m \in F[k] <=> k \in B[m]
  BY EdgesMirror
<1>2. /\ TaintedAfter(new) \subseteq SuspectAfter(new)
      /\ SuspectAfter(new) \subseteq Node
      /\ \A x \in TaintedAfter(new) : F[x] \subseteq TaintedAfter(new)
      /\ \A x \in SuspectAfter(new) : B[x] \subseteq SuspectAfter(new)
  BY EdgesMarked
<1>3. /\ ref_cnt' = [ref_cnt EXCEPT ![n] = 0]
      /\ successors' = [m \in Node |-> IF m = n THEN {} ELSE F[m] \ {n}]
      /\ predecessors' = [m \in Node |-> IF m = n THEN {} ELSE B[m] \ {n}]
      /\ tainted' = TaintedAfter(new) \ {n}
      /\ tainted_successor' = SuspectAfter(new) \ {n}
  BY DEF taint_destroy, Unlink
<1> HIDE DEF F, B
<1>4. TypeOK'
  <2>1. ref_cnt' \in [Node -> 0 .. MaxRef]
    BY <1>3, MaxRefAssumption DEF IInv, TypeOK
  <2>2. successors' \in [Node -> SUBSET Node] /\ predecessors' \in [Node -> SUBSET Node]
    BY <1>1, <1>3
  <2>3. tainted' \subseteq Node /\ tainted_successor' \subseteq Node
    BY <1>2, <1>3
  <2> QED BY <2>1, <2>2, <2>3 DEF TypeOK
<1>5. Live' = Live \ {n}
  BY <1>3 DEF IInv, TypeOK, Live
<1>6. /\ \A x \in Node : F[x] \cup B[x] # {} => x \in Live
      /\ \A x \in Node : F[x] \cup B[x] \subseteq Live
      /\ SuspectAfter(new) \subseteq Live
  <2>1. Bridge(n) \subseteq Live \X Live
    <3>1. predecessors[n] \subseteq Live /\ successors[n] \subseteq Live
      BY DEF IInv, TypeOK, ListsMirror
    <3> QED BY <3>1 DEF Bridge
  <2> QED BY <2>1, EdgesLive DEF F, B
<1>8. ListsMirror'
  <2>1. ASSUME NEW k \in Node, NEW m \in Node
        PROVE  m \in successors'[k] <=> k \in predecessors'[m]
    BY <1>1, <1>3
  <2>2. ASSUME NEW m \in Node, successors'[m] \cup predecessors'[m] # {}
        PROVE  m \in Live'
    BY <1>3, <1>5, <1>6, <2>2
  <2>3. tainted' \cup tainted_successor' \subseteq Live'
    BY <1>2, <1>3, <1>5, <1>6
  <2> QED BY <2>1, <2>2, <2>3 DEF ListsMirror
<1>9. SuccessorsTainted'
  <2>1. ASSUME NEW x \in tainted' PROVE successors'[x] \subseteq tainted'
    BY <1>2, <1>3
  <2> QED BY <2>1 DEF SuccessorsTainted
<1>10. SuspectUpward'
  <2>1. ASSUME NEW x \in tainted_successor'
        PROVE  predecessors'[x] \subseteq tainted_successor'
    BY <1>2, <1>3
  <2> QED BY <2>1 DEF SuspectUpward
<1>11. (tainted \subseteq tainted_successor)'
  BY <1>2, <1>3
<1> QED BY <1>4, <1>8, <1>9, <1>10, <1>11 DEF IInv

LEMMA PropagateInv ==
  ASSUME IInv, NEW from \in Node, NEW to \in Node, taint_propagate(from, to)
  PROVE  IInv'
<1> DEFINE new == {<<from, to>>}
<1>1. /\ Forward(new) \in [Node -> SUBSET Node]
      /\ Backward(new) \in [Node -> SUBSET Node]
      /\ \A k, m \in Node : m \in Forward(new)[k] <=> k \in Backward(new)[m]
  BY EdgesMirror
<1>2. /\ TaintedAfter(new) \subseteq SuspectAfter(new)
      /\ SuspectAfter(new) \subseteq Node
      /\ \A x \in TaintedAfter(new) : Forward(new)[x] \subseteq TaintedAfter(new)
      /\ \A x \in SuspectAfter(new) : Backward(new)[x] \subseteq SuspectAfter(new)
  BY EdgesMarked
<1>3. /\ \A x \in Node : Forward(new)[x] \cup Backward(new)[x] # {} => x \in Live
      /\ SuspectAfter(new) \subseteq Live
  <2>1. new \subseteq Live \X Live
    BY DEF taint_propagate
  <2> QED BY <2>1, EdgesLive
<1>4. /\ ref_cnt' = ref_cnt
      /\ successors' = Forward(new)
      /\ predecessors' = Backward(new)
      /\ tainted' = TaintedAfter(new)
      /\ tainted_successor' = SuspectAfter(new)
      /\ Live' = Live
  BY DEF taint_propagate, Live
<1> HIDE DEF new
<1>5. TypeOK'
  BY <1>1, <1>2, <1>4 DEF IInv, TypeOK
<1>6. ListsMirror'
  BY <1>1, <1>2, <1>3, <1>4 DEF ListsMirror
<1> QED BY <1>2, <1>4, <1>5, <1>6 DEF IInv, SuccessorsTainted, SuspectUpward

LEMMA SetTaintInv ==
  ASSUME IInv, NEW n \in Node, taint_set_taint(n)
  PROVE  IInv'
<1> DEFINE sp == Spoiled({n}, successors)
           su == Suspected(sp, predecessors)
<1>1. /\ successors \in [Node -> SUBSET Node]
      /\ predecessors \in [Node -> SUBSET Node]
      /\ Live \in SUBSET Node
      /\ tainted \cup tainted_successor \subseteq Live
      /\ \A x \in Node : successors[x] \cup predecessors[x] \subseteq Live
  BY DEF IInv, TypeOK, ListsMirror, Live
<1>2. /\ tainted' = tainted \cup sp
      /\ tainted_successor' = tainted_successor \cup su
      /\ UNCHANGED <<ref_cnt, successors, predecessors>>
      /\ n \in Live
  BY DEF taint_set_taint, edges
<1>3. sp \subseteq Live
  <2>1. \A x \in Live : successors[x] \ tainted \subseteq Live
    BY <1>1
  <2> QED BY <1>1, <1>2, <2>1, FloodLeast DEF Spoiled
<1>4. su \subseteq Live
  <2>1. \A x \in Live : predecessors[x] \ tainted_successor \subseteq Live
    BY <1>1
  <2> QED BY <1>1, <1>3, <2>1, FloodLeast DEF Suspected
<1>5. sp \subseteq su
  BY <1>1, <1>3, FloodStart DEF Suspected
<1>6. \A x \in sp : successors[x] \ tainted \subseteq sp
  BY <1>1, FloodClosed DEF Spoiled
<1>7. \A x \in su : predecessors[x] \ tainted_successor \subseteq su
  BY <1>1, FloodClosed DEF Suspected
<1> HIDE DEF sp, su
<1>8. TypeOK' /\ ListsMirror'
  <2>1. Live' = Live
    BY <1>2 DEF Live
  <2> QED BY <1>1, <1>2, <1>3, <1>4, <2>1 DEF IInv, TypeOK, ListsMirror
<1>9. SuccessorsTainted'
  BY <1>2, <1>6 DEF IInv, SuccessorsTainted
<1>10. SuspectUpward'
  BY <1>2, <1>7 DEF IInv, SuspectUpward
<1> QED BY <1>2, <1>5, <1>8, <1>9, <1>10 DEF IInv

(* A node whose mark is taken back has no suspect successor, so no mark    *)
(* elsewhere rests on it.                                                  *)
LEMMA ResetInv ==
  ASSUME IInv, NEW n \in Node, taint_reset_successor_taint(n)
  PROVE  IInv'
<1>1. /\ tainted_successor' = tainted_successor \ {n}
      /\ UNCHANGED <<ref_cnt, successors, predecessors, tainted>>
      /\ n \notin tainted
      /\ successors[n] \cap tainted_successor = {}
  BY DEF taint_reset_successor_taint, edges
<1>2. Live' = Live
  BY <1>1 DEF Live
<1>3. TypeOK' /\ ListsMirror' /\ SuccessorsTainted'
  BY <1>1, <1>2 DEF IInv, TypeOK, ListsMirror, SuccessorsTainted
<1>4. SuspectUpward'
  <2>1. SUFFICES ASSUME NEW m \in tainted_successor, m # n,
                        NEW p \in predecessors[m]
                 PROVE  p \in tainted_successor /\ p # n
    BY <1>1 DEF SuspectUpward
  <2>2. m \in Node /\ p \in Node
    BY <2>1 DEF IInv, TypeOK
  <2>3. m \in successors[p]
    BY <2>2 DEF IInv, ListsMirror
  <2> QED BY <1>1, <2>1, <2>3 DEF IInv, SuspectUpward
<1> QED BY <1>1, <1>3, <1>4 DEF IInv

-----------------------------------------------------------------------------
LEMMA NextInv == IInv /\ [Next]_vars => IInv'
<1> SUFFICES ASSUME IInv, [Next]_vars PROVE IInv'
  OBVIOUS
<1>1. CASE UNCHANGED vars
  BY <1>1 DEF vars, IInv, TypeOK, ListsMirror, Live, SuccessorsTainted, SuspectUpward
<1>2. ASSUME NEW n \in Node,
             taint_create(n) \/ taint_clone(n) \/ taint_release(n)
      PROVE  IInv'
  BY <1>2, CountInv
<1>3. ASSUME NEW n \in Node, taint_destroy(n) PROVE IInv'
  BY <1>3, DestroyInv
<1>4. ASSUME NEW n \in Node, taint_set_taint(n) PROVE IInv'
  BY <1>4, SetTaintInv
<1>5. ASSUME NEW n \in Node, taint_reset_successor_taint(n) PROVE IInv'
  BY <1>5, ResetInv
<1>6. ASSUME NEW from \in Node, NEW to \in Node, taint_propagate(from, to)
      PROVE  IInv'
  BY <1>6, PropagateInv
<1> QED BY <1>1, <1>2, <1>3, <1>4, <1>5, <1>6 DEF Next

LEMMA Inductive == Spec => []IInv
<1> QED BY InitInv, NextInv, PTL DEF Spec

(* No list of taint.c ever holds a pointer to a freed taint, and           *)
(* taint_list_remove always finds what it is asked to remove.              *)
THEOREM ListsConsistent == Spec => []ListsMirror
<1>1. IInv => ListsMirror
  BY DEF IInv
<1> QED BY <1>1, Inductive, PTL

(* The first documented invariant of taint.c: the successors of a tainted  *)
(* node are tainted.                                                       *)
THEOREM TaintReachesSuccessors == Spec => []SuccessorsTainted
<1>1. IInv => SuccessorsTainted
  BY DEF IInv
<1> QED BY <1>1, Inductive, PTL

(* The second documented invariant of taint.c: a tainted node and all that *)
(* lies upstream of it are successor-tainted.                              *)
THEOREM TaintKnownUpstream == Spec => []PredecessorsSuspect
<1>1. IInv => PredecessorsSuspect
  <2>1. SUFFICES ASSUME IInv, NEW n \in tainted
                 PROVE  Flood({n}, predecessors, {}) \subseteq tainted_successor
    BY DEF IInv, PredecessorsSuspect
  <2>2. /\ tainted_successor \in SUBSET Node
        /\ n \in tainted_successor
        /\ \A x \in tainted_successor : predecessors[x] \ {} \subseteq tainted_successor
    BY <2>1 DEF IInv, TypeOK, SuspectUpward
  <2> QED BY <2>2, FloodLeast
<1> QED BY <1>1, Inductive, PTL
-----------------------------------------------------------------------------
(* Reachability.  Node b can be reached from a when every closed set that  *)
(* holds a holds b; no path is ever constructed.                           *)
Lists == [Node -> SUBSET Node]
Reach(next, a) == Flood({a}, next, {})
ReachFrom(next, S) == {x \in Node : \E s \in S : x \in Reach(next, s)}

(* What makes `rev' the lists of the edges of `next' reversed.             *)
Reversed(next, rev) == \A x, y \in Node : y \in next[x] <=> x \in rev[y]

LEMMA ReachNode ==
  ASSUME NEW next, NEW a
  PROVE  Reach(next, a) \subseteq Node
BY FloodInNode DEF Reach

LEMMA ReachSelf ==
  ASSUME NEW next, NEW a \in Node
  PROVE  a \in Reach(next, a)
BY FloodStart DEF Reach

LEMMA ReachStep ==
  ASSUME NEW next \in Lists, NEW a \in Node, NEW x \in Reach(next, a)
  PROVE  next[x] \subseteq Reach(next, a)
<1>1. next[x] \ {} \subseteq Flood({a}, next, {})
  BY FloodClosed DEF Lists, Reach
<1> QED BY <1>1 DEF Reach

LEMMA ReachLeast ==
  ASSUME NEW next, NEW a, NEW X \in SUBSET Node, a \in X,
         \A x \in X : next[x] \subseteq X
  PROVE  Reach(next, a) \subseteq X
<1>1. \A x \in X : next[x] \ {} \subseteq X
  OBVIOUS
<1> QED BY <1>1, FloodLeast DEF Reach

(* Reachability composes, ...                                              *)
LEMMA ReachTrans ==
  ASSUME NEW next \in Lists, NEW a \in Node, NEW b \in Reach(next, a)
  PROVE  Reach(next, b) \subseteq Reach(next, a)
<1>1. \A x \in Reach(next, a) : next[x] \subseteq Reach(next, a)
  BY ReachStep
<1> QED BY <1>1, ReachNode, ReachLeast

(* ... and reads the same from its other end.                              *)
LEMMA ReachForth ==
  ASSUME NEW next \in Lists, NEW rev \in Lists, Reversed(next, rev),
         NEW a \in Node, NEW b \in Reach(next, a)
  PROVE  a \in Reach(rev, b)
<1> DEFINE X == {y \in Node : a \in Reach(rev, y)}
<1>1. a \in X
  BY ReachSelf
<1>2. ASSUME NEW x \in X, NEW y \in next[x] PROVE y \in X
  <2>1. x \in Node /\ y \in Node /\ a \in Reach(rev, x)
    BY <1>2 DEF Lists
  <2>2. x \in Reach(rev, y)
    BY <1>2, <2>1, ReachSelf, ReachStep DEF Reversed
  <2>3. Reach(rev, x) \subseteq Reach(rev, y)
    BY <2>1, <2>2, ReachTrans
  <2> QED BY <2>1, <2>3
<1>3. Reach(next, a) \subseteq X
  BY <1>1, <1>2, ReachLeast
<1> QED BY <1>3

LEMMA ReachBack ==
  ASSUME NEW next \in Lists, NEW rev \in Lists, Reversed(next, rev),
         NEW a \in Node, NEW b \in Node
  PROVE  b \in Reach(next, a) <=> a \in Reach(rev, b)
<1>1. Reversed(rev, next)
  BY DEF Reversed
<1> QED BY <1>1, ReachForth

(* A walk from several nodes visits what can be reached from one of them.  *)
LEMMA FloodReach ==
  ASSUME NEW next \in Lists, NEW S \in SUBSET Node
  PROVE  Flood(S, next, {}) = ReachFrom(next, S)
<1>1. Flood(S, next, {}) \subseteq ReachFrom(next, S)
  <2>1. ReachFrom(next, S) \in SUBSET Node /\ S \subseteq ReachFrom(next, S)
    BY ReachSelf DEF ReachFrom
  <2>2. ASSUME NEW x \in ReachFrom(next, S), NEW y \in next[x] \ {}
        PROVE  y \in ReachFrom(next, S)
    BY ReachStep, ReachNode, <2>2 DEF ReachFrom
  <2> QED BY <2>1, <2>2, FloodLeast
<1>2. ASSUME NEW s \in S PROVE Reach(next, s) \subseteq Flood(S, next, {})
  <2>1. Flood(S, next, {}) \in SUBSET Node /\ s \in Flood(S, next, {})
    BY FloodInNode, FloodStart
  <2>2. \A x \in Flood(S, next, {}) : next[x] \ {} \subseteq Flood(S, next, {})
    BY FloodClosed DEF Lists
  <2>3. \A x \in Flood(S, next, {}) : next[x] \subseteq Flood(S, next, {})
    BY <2>2
  <2> QED BY <2>1, <2>3, ReachLeast
<1> QED BY <1>1, <1>2 DEF ReachFrom

(* A closed set of marks hides nothing from a walk that stops at marks:    *)
(* what the walk leaves out was marked before.                             *)
LEMMA FloodPastMarks ==
  ASSUME NEW next \in Lists, NEW S \in SUBSET Node, NEW marked \in SUBSET Node,
         \A x \in marked : next[x] \subseteq marked
  PROVE  marked \cup Flood(S, next, marked) = marked \cup ReachFrom(next, S)
<1> DEFINE A == Flood(S, next, marked)
<1>1. A \subseteq ReachFrom(next, S)
  <2>1. ReachFrom(next, S) \in SUBSET Node /\ S \subseteq ReachFrom(next, S)
    BY ReachSelf DEF ReachFrom
  <2>2. ASSUME NEW x \in ReachFrom(next, S), NEW y \in next[x] \ marked
        PROVE  y \in ReachFrom(next, S)
    BY ReachStep, ReachNode, <2>2 DEF ReachFrom
  <2> QED BY <2>1, <2>2, FloodLeast
<1>2. ASSUME NEW s \in S PROVE Reach(next, s) \subseteq marked \cup A
  <2>1. A \subseteq Node /\ S \subseteq A
    BY FloodInNode, FloodStart
  <2>2. \A x \in A : next[x] \ marked \subseteq A
    BY FloodClosed DEF Lists
  <2> HIDE DEF A
  <2>3. \A x \in marked \cup A : next[x] \subseteq marked \cup A
    BY <2>2
  <2> QED BY <2>1, <2>3, ReachLeast
<1> QED BY <1>1, <1>2 DEF ReachFrom

-----------------------------------------------------------------------------
(* The marks after edges are added, said without the walks: what can be    *)
(* reached from a tainted node, and what a suspect node can be reached from.*)
LEMMA MarksReach ==
  ASSUME IInv, NEW new
  PROVE  /\ TaintedAfter(new) = ReachFrom(Forward(new), tainted)
         /\ SuspectAfter(new) =
              ReachFrom(Backward(new), tainted_successor \cup TaintedAfter(new))
<1> DEFINE F == Forward(new)
           B == Backward(new)
           sp == Spoiled(LateTaint(new), F)
           ta == TaintedAfter(new)
           sa == SuspectAfter(new)
<1>1. F \in Lists /\ B \in Lists
  BY EdgesMirror DEF Lists
<1>2. /\ tainted \subseteq Node /\ tainted_successor \subseteq Node
      /\ tainted \subseteq ta /\ ta \subseteq Node
      /\ ta \subseteq sa /\ sa \subseteq Node
      /\ \A x \in ta : F[x] \subseteq ta
      /\ \A x \in sa : B[x] \subseteq sa
  BY EdgesMarked DEF IInv, TypeOK
<1>3. ta = tainted \cup sp
  BY DEF TaintedAfter
<1>4. sa = tainted_successor \cup Suspected(sp \cup LateSuspect(new), B)
  BY DEF SuspectAfter
<1>5. \A x \in LateTaint(new) : \E t \in tainted : x \in F[t]
  BY <1>2 DEF LateTaint, Forward
<1>6. \A x \in LateSuspect(new) : \E t \in tainted_successor : x \in B[t]
  BY <1>2 DEF LateSuspect, Backward
<1>7. sp \subseteq Node /\ LateTaint(new) \subseteq Node /\ LateSuspect(new) \subseteq Node
  BY FloodInNode DEF Spoiled, LateTaint, LateSuspect
<1> HIDE DEF F, B, ta, sa
<1>8. sp \subseteq ReachFrom(F, tainted)
  <2>1. ReachFrom(F, tainted) \in SUBSET Node
    BY DEF ReachFrom
  <2>2. LateTaint(new) \subseteq ReachFrom(F, tainted)
    BY <1>1, <1>2, <1>5, <1>7, ReachSelf, ReachStep DEF ReachFrom
  <2>3. ASSUME NEW x \in ReachFrom(F, tainted), NEW y \in F[x] \ tainted
        PROVE  y \in ReachFrom(F, tainted)
    BY <1>1, <1>2, <2>3, ReachStep, ReachNode DEF ReachFrom
  <2> QED BY <2>1, <2>2, <2>3, FloodLeast DEF Spoiled
<1>9. tainted \subseteq ReachFrom(F, tainted)
  BY <1>2, ReachSelf DEF ReachFrom
<1>10. ReachFrom(F, tainted) \subseteq ta
  <2>1. ASSUME NEW t \in tainted PROVE Reach(F, t) \subseteq ta
    BY <1>2, ReachLeast
  <2> QED BY <2>1 DEF ReachFrom
<1> DEFINE roots == tainted_successor \cup ta
<1>11. sa \subseteq ReachFrom(B, roots)
  <2>1. ReachFrom(B, roots) \in SUBSET Node
    BY DEF ReachFrom
  <2>2. roots \subseteq ReachFrom(B, roots)
    BY <1>2, ReachSelf DEF ReachFrom
  <2>3. LateSuspect(new) \subseteq ReachFrom(B, roots)
    BY <1>1, <1>2, <1>6, <1>7, ReachSelf, ReachStep DEF ReachFrom
  <2>4. ASSUME NEW x \in ReachFrom(B, roots), NEW y \in B[x] \ tainted_successor
        PROVE  y \in ReachFrom(B, roots)
    BY <1>1, <1>2, <2>4, ReachStep, ReachNode DEF ReachFrom
  <2>5. sp \cup LateSuspect(new) \subseteq ReachFrom(B, roots)
    BY <1>3, <2>2, <2>3
  <2>6. Flood(sp \cup LateSuspect(new), B, tainted_successor) \subseteq ReachFrom(B, roots)
    BY <2>1, <2>4, <2>5, FloodLeast
  <2> QED BY <1>4, <2>2, <2>6 DEF Suspected
<1>12. ReachFrom(B, roots) \subseteq sa
  <2>1. roots \subseteq sa
    BY <1>2, <1>4
  <2>2. ASSUME NEW t \in roots PROVE Reach(B, t) \subseteq sa
    BY <1>2, <2>1, <2>2, ReachLeast
  <2> QED BY <2>2 DEF ReachFrom
<1>13. ta = ReachFrom(F, tainted) /\ sa = ReachFrom(B, roots)
  BY <1>3, <1>8, <1>9, <1>10, <1>11, <1>12
<1> QED BY <1>13 DEF F, B, ta, sa

-----------------------------------------------------------------------------
(* The refinement.  A node derives another when the other can be reached   *)
(* from it.                                                                *)
LEMMA ListsType ==
  ASSUME IInv
  PROVE  successors \in Lists /\ predecessors \in Lists /\ Reversed(successors, predecessors)
BY DEF IInv, TypeOK, ListsMirror, Lists, Reversed

LEMMA PathReach ==
  ASSUME NEW a, NEW b
  PROVE  <<a, b>> \in Path <=>
           a \in Node /\ b \in Node /\ a # b /\ b \in Reach(successors, a)
BY DEF Path, Reach

LEMMA PathPairs == Path \subseteq Node \X Node
BY DEF Path

LEMMA DerivesReach ==
  ASSUME IInv, NEW n \in Node
  PROVE  /\ Abstract!Down(n) = Reach(successors, n)
         /\ Abstract!Up(n) = Reach(predecessors, n)
<1>1. Abstract!Down(n) = Reach(successors, n)
  BY PathReach, ReachSelf, ReachNode DEF Abstract!Down
<1>2. Abstract!Up(n) = Reach(predecessors, n)
  <2>1. ASSUME NEW m \in Node
        PROVE  n \in Reach(successors, m) <=> m \in Reach(predecessors, n)
    BY ListsType, ReachBack
  <2> QED BY <2>1, PathReach, ReachSelf, ReachNode DEF Abstract!Up
<1> QED BY <1>1, <1>2

(* What a mark covers, near and far.                                       *)
LEMMA MarksClosed ==
  ASSUME IInv
  PROVE  /\ \A t \in tainted : Reach(successors, t) \subseteq tainted
         /\ \A t \in tainted_successor : Reach(predecessors, t) \subseteq tainted_successor
         /\ tainted \subseteq Node /\ tainted_successor \subseteq Node
<1>1. tainted \in SUBSET Node /\ tainted_successor \in SUBSET Node
  BY DEF IInv, TypeOK
<1>2. ASSUME NEW t \in tainted PROVE Reach(successors, t) \subseteq tainted
  BY <1>1, ReachLeast DEF IInv, SuccessorsTainted
<1>3. ASSUME NEW t \in tainted_successor
      PROVE  Reach(predecessors, t) \subseteq tainted_successor
  BY <1>1, ReachLeast DEF IInv, SuspectUpward
<1> QED BY <1>1, <1>2, <1>3

(* One more edge: whoever reaches its tail now reaches what its head does. *)
Joined(next, from, to) == [m \in Node |-> next[m] \cup {k \in Node : m = from /\ k = to}]

LEMMA AddEdge ==
  ASSUME NEW next \in Lists, NEW from \in Node, NEW to \in Node, NEW a \in Node
  PROVE  Reach(Joined(next, from, to), a) =
           Reach(next, a) \cup {x \in Reach(next, to) : from \in Reach(next, a)}
<1> DEFINE next2 == Joined(next, from, to)
<1>0. /\ next2 \in Lists
      /\ \A m \in Node : next2[m] = next[m] \cup {k \in Node : m = from /\ k = to}
  BY DEF Joined, Lists
<1> HIDE DEF next2
<1> DEFINE X == Reach(next, a) \cup {x \in Reach(next, to) : from \in Reach(next, a)}
<1>1. Reach(next2, a) \subseteq X
  <2>1. X \in SUBSET Node /\ a \in X
    BY ReachSelf, ReachNode
  <2>2. ASSUME NEW x \in X, NEW y \in next2[x] PROVE y \in X
    <3>1. x \in Node
      BY <2>1
    <3>2. CASE y \in next[x]
      BY <3>2, ReachStep
    <3>3. CASE x = from /\ y = to
      <4>1. from \in Reach(next, a)
        BY <3>3
      <4> QED BY <3>3, <4>1, ReachSelf
    <3> QED BY <1>0, <2>2, <3>1, <3>2, <3>3
  <2> HIDE DEF X
  <2>3. \A x \in X : next2[x] \subseteq X
    BY <2>2
  <2> QED BY <2>1, <2>3, ReachLeast
<1>2. \A m \in Node : next[m] \subseteq next2[m]
  BY <1>0
<1>3. ASSUME NEW b \in Node PROVE Reach(next, b) \subseteq Reach(next2, b)
  <2>1. \A x \in Reach(next2, b) : next[x] \subseteq Reach(next2, b)
    BY <1>0, <1>2, ReachNode, ReachStep
  <2> QED BY <2>1, ReachNode, ReachSelf, ReachLeast
<1>4. ASSUME from \in Reach(next, a) PROVE Reach(next, to) \subseteq Reach(next2, a)
  <2>1. from \in Reach(next2, a)
    BY <1>3, <1>4
  <2>2. to \in next2[from]
    BY <1>0
  <2>3. to \in Reach(next2, a)
    BY <1>0, <2>1, <2>2, ReachStep
  <2> QED BY <1>0, <1>3, <2>3, ReachTrans
<1>5. Reach(next2, a) = X
  BY <1>1, <1>3, <1>4
<1> QED BY <1>5 DEF next2

(* taint_propagate is Derive.                                              *)
LEMMA PropagateDerives ==
  ASSUME IInv, NEW from \in Node, NEW to \in Node, taint_propagate(from, to)
  PROVE  Abstract!Derive(from, to)
<1> DEFINE new == {<<from, to>>}
           F == Forward(new)
           B == Backward(new)
<1>1. successors \in Lists /\ predecessors \in Lists /\ Reversed(successors, predecessors)
  BY ListsType
<1>2. F \in Lists /\ B \in Lists
  BY EdgesMirror DEF Lists
<1>3. F = Joined(successors, from, to) /\ B = Joined(predecessors, to, from)
  BY DEF Forward, Backward, Joined
<1>4. /\ TaintedAfter(new) = ReachFrom(F, tainted)
      /\ SuspectAfter(new) = ReachFrom(B, tainted_successor \cup TaintedAfter(new))
  BY MarksReach
<1>5. /\ successors' = F
      /\ tainted' = TaintedAfter(new)
      /\ tainted_successor' = SuspectAfter(new)
      /\ ref_cnt' = ref_cnt
      /\ {from, to} \subseteq Live
      /\ from # to
  BY DEF taint_propagate
<1> HIDE DEF new, F, B
<1>6. ASSUME NEW a \in Node
      PROVE  Reach(F, a) = Reach(successors, a) \cup
               {x \in Reach(successors, to) : from \in Reach(successors, a)}
  BY <1>1, <1>3, AddEdge
<1>7. ASSUME NEW a \in Node
      PROVE  Reach(B, a) = Reach(predecessors, a) \cup
               {x \in Reach(predecessors, from) : to \in Reach(predecessors, a)}
  BY <1>1, <1>3, AddEdge
<1> DEFINE spoiled == IF from \in tainted THEN Reach(successors, to) ELSE {}
           up == IF to \in tainted_successor \cup spoiled
                 THEN Reach(predecessors, from) ELSE {}
<1>8. Path' = Path \cup {e \in Reach(predecessors, from) \X Reach(successors, to) : e[1] # e[2]}
  <2>1. ASSUME NEW a, NEW b
        PROVE  <<a, b>> \in Path' <=>
                 a \in Node /\ b \in Node /\ a # b /\ b \in Reach(F, a)
    BY <1>5 DEF Path, Reach
  <2>2. ASSUME NEW a \in Node
        PROVE  from \in Reach(successors, a) <=> a \in Reach(predecessors, from)
    BY <1>1, ReachBack
  <2> DEFINE Added == {e \in Reach(predecessors, from) \X Reach(successors, to) : e[1] # e[2]}
  <2>3. ASSUME NEW a, NEW b
        PROVE  <<a, b>> \in Path' <=> <<a, b>> \in Path \cup Added
    <3>1. <<a, b>> \in Added <=>
            a \in Reach(predecessors, from) /\ b \in Reach(successors, to) /\ a # b
      OBVIOUS
    <3>2. a \in Reach(predecessors, from) => a \in Node
      BY ReachNode
    <3>3. b \in Reach(successors, to) => b \in Node
      BY ReachNode
    <3> QED BY <1>6, <2>1, <2>2, <3>1, <3>2, <3>3, PathReach
  <2>4. Path' \subseteq Node \X Node
    BY DEF Path
  <2>5. Added \subseteq Node \X Node
    BY ReachNode
  <2>6. Path \subseteq Node \X Node
    BY PathPairs
  <2> HIDE DEF Added
  <2>7. Path' = Path \cup Added
    BY <2>3, <2>4, <2>5, <2>6
  <2> QED BY <2>7 DEF Added
<1>9. tainted' = tainted \cup spoiled
  <2>1. \A x : x \in tainted' <=> x \in Node /\ \E t \in tainted : x \in Reach(F, t)
    BY <1>4, <1>5 DEF ReachFrom
  <2>2. tainted \subseteq Node /\ \A t \in tainted : Reach(successors, t) \subseteq tainted
    BY MarksClosed
  <2>3. \A t \in tainted : t \in Reach(successors, t)
    BY <2>2, ReachSelf
  <2>4. spoiled \subseteq Node
    BY ReachNode
  <2>5. ASSUME NEW x \in tainted' PROVE x \in tainted \cup spoiled
    BY <1>6, <2>1, <2>2, <2>5
  <2>6. ASSUME NEW x \in tainted PROVE x \in tainted'
    BY <1>6, <2>1, <2>2, <2>3, <2>6
  <2>7. ASSUME NEW x \in spoiled PROVE x \in tainted'
    BY <1>6, <2>1, <2>2, <2>3, <2>4, <2>7
  <2> QED BY <2>5, <2>6, <2>7
<1>10. tainted_successor' =
         tainted_successor \cup (UNION {Reach(predecessors, m) : m \in spoiled}) \cup up
  <2> DEFINE over == UNION {Reach(predecessors, m) : m \in spoiled}
  <2>1. \A x : x \in tainted_successor' <=>
                 x \in Node /\ \E t \in tainted_successor \cup tainted' : x \in Reach(B, t)
    BY <1>4, <1>5 DEF ReachFrom
  <2>2. /\ tainted_successor \subseteq Node
        /\ tainted \subseteq tainted_successor
        /\ \A t \in tainted_successor : Reach(predecessors, t) \subseteq tainted_successor
    BY MarksClosed DEF IInv
  <2>3. \A m \in Node : m \in Reach(predecessors, m)
    BY ReachSelf
  <2>4. spoiled \subseteq Node /\ \A m : Reach(predecessors, m) \subseteq Node
    BY ReachNode
  <2>5. spoiled # {} => to \in spoiled
    BY ReachSelf
  <2>6. \A x : x \in over <=> \E m \in spoiled : x \in Reach(predecessors, m)
    OBVIOUS
  <2> HIDE DEF spoiled, over
  <2>7. ASSUME NEW x \in tainted_successor' PROVE x \in tainted_successor \cup over \cup up
    <3>1. PICK t \in tainted_successor \cup spoiled : x \in Reach(B, t)
      BY <1>9, <2>1, <2>2, <2>7
    <3>2. t \in Node
      BY <2>2, <2>4
    <3>3. CASE x \in Reach(predecessors, t)
      BY <2>2, <2>6, <3>1, <3>3
    <3>4. CASE x \in Reach(predecessors, from) /\ to \in Reach(predecessors, t)
      <4>1. to \in tainted_successor \cup spoiled
        BY <2>2, <2>5, <3>1, <3>4
      <4> QED BY <3>4, <4>1
    <3> QED BY <1>7, <3>1, <3>2, <3>3, <3>4
  <2>8. ASSUME NEW x \in tainted_successor PROVE x \in tainted_successor'
    BY <1>7, <2>1, <2>2, <2>3, <2>8
  <2>9. ASSUME NEW x \in over PROVE x \in tainted_successor'
    <3>1. PICK m \in spoiled : x \in Reach(predecessors, m)
      BY <2>6, <2>9
    <3>2. m \in tainted' /\ m \in Node /\ x \in Node
      BY <1>9, <2>4, <3>1
    <3> QED BY <1>7, <2>1, <3>1, <3>2
  <2>10. ASSUME NEW x \in up PROVE x \in tainted_successor'
    <3>1. to \in tainted_successor \cup tainted' /\ x \in Reach(predecessors, from) /\ x \in Node
      BY <1>9, <2>4, <2>10
    <3>2. x \in Reach(B, to)
      BY <1>7, <2>3, <3>1
    <3> QED BY <2>1, <3>1, <3>2
  <2> HIDE DEF up
  <2>11. tainted_successor' = tainted_successor \cup over \cup up
    BY <2>7, <2>8, <2>9, <2>10
  <2> QED BY <2>11 DEF over
<1>11. /\ Abstract!Up(from) = Reach(predecessors, from)
       /\ Abstract!Down(to) = Reach(successors, to)
       /\ Abstract!UpOf(spoiled) = UNION {Reach(predecessors, m) : m \in spoiled}
  <2>1. spoiled \subseteq Node
    BY ReachNode
  <2>2. \A m \in spoiled : Abstract!Up(m) = Reach(predecessors, m)
    BY <2>1, DerivesReach
  <2> HIDE DEF spoiled
  <2>3. Abstract!UpOf(spoiled) = UNION {Reach(predecessors, m) : m \in spoiled}
    BY <2>2 DEF Abstract!UpOf
  <2> QED BY <2>3, DerivesReach
<1>12. Live' = Live
  BY <1>5 DEF Live
<1> DEFINE spoiled2 == IF from \in tainted THEN Abstract!Down(to) ELSE {}
<1>13. spoiled2 = spoiled
  BY <1>11
<1>14. Path' = Path \cup {e \in Abstract!Up(from) \X Abstract!Down(to) : e[1] # e[2]}
  BY <1>8, <1>11
<1>15. tainted' = tainted \cup spoiled2
  BY <1>9, <1>13
<1>16. tainted_successor' = tainted_successor \cup Abstract!UpOf(spoiled2)
         \cup (IF to \in tainted_successor \cup spoiled2 THEN Abstract!Up(from) ELSE {})
  BY <1>10, <1>11, <1>13
<1> QED BY <1>5, <1>12, <1>14, <1>15, <1>16 DEF Abstract!Derive

(* taint_set_taint is SetTaint: the walks stop at marks, but nothing       *)
(* beyond a mark is unmarked.                                              *)
LEMMA SetTaintFollows ==
  ASSUME IInv, NEW n \in Node, taint_set_taint(n)
  PROVE  Abstract!SetTaint(n)
<1> DEFINE sp == Spoiled({n}, successors)
           down == Reach(successors, n)
           over == UNION {Reach(predecessors, m) : m \in down}
<1>1. successors \in Lists /\ predecessors \in Lists
  BY ListsType
<1>2. /\ tainted' = tainted \cup sp
      /\ tainted_successor' = tainted_successor \cup Suspected(sp, predecessors)
      /\ successors' = successors
      /\ ref_cnt' = ref_cnt
      /\ n \in Live
  BY DEF taint_set_taint, edges
<1>3. /\ tainted \in SUBSET Node /\ tainted_successor \in SUBSET Node
      /\ tainted \subseteq tainted_successor
      /\ \A x \in tainted : successors[x] \subseteq tainted
      /\ \A x \in tainted_successor : predecessors[x] \subseteq tainted_successor
  BY DEF IInv, TypeOK, SuccessorsTainted, SuspectUpward
<1>4. sp \in SUBSET Node /\ sp \subseteq down /\ down \subseteq tainted \cup sp
  <2>1. ReachFrom(successors, {n}) = down
    BY ReachNode DEF ReachFrom
  <2>2. tainted \cup sp = tainted \cup down
    BY <1>1, <1>3, <2>1, FloodPastMarks DEF Spoiled
  <2>3. sp \subseteq down
    <3>1. \A x \in down : successors[x] \ tainted \subseteq down
      BY <1>1, ReachStep
    <3>2. down \in SUBSET Node /\ {n} \subseteq down
      BY ReachNode, ReachSelf
    <3> QED BY <3>1, <3>2, FloodLeast DEF Spoiled
  <2> QED BY <2>2, <2>3, FloodInNode DEF Spoiled
<1>5. tainted_successor \cup Suspected(sp, predecessors) =
        tainted_successor \cup ReachFrom(predecessors, sp)
  BY <1>1, <1>3, <1>4, FloodPastMarks DEF Suspected
<1>6. \A t \in tainted : Reach(predecessors, t) \subseteq tainted_successor
  BY <1>3, MarksClosed
<1>7. Abstract!Down(n) = down /\ Abstract!UpOf(down) = over
  <2>1. \A m \in down : Abstract!Up(m) = Reach(predecessors, m)
    BY DerivesReach, ReachNode
  <2> QED BY <2>1, DerivesReach DEF Abstract!UpOf
<1>8. \A m : Reach(predecessors, m) \subseteq Node
  BY ReachNode
<1>9. \A x : x \in over <=> \E m \in down : x \in Reach(predecessors, m)
  OBVIOUS
<1>10. \A x : x \in ReachFrom(predecessors, sp) <=>
                x \in Node /\ \E m \in sp : x \in Reach(predecessors, m)
  BY DEF ReachFrom
<1> HIDE DEF sp, down, over
<1>11. tainted' = tainted \cup down
  BY <1>2, <1>4
<1>12. tainted_successor' = tainted_successor \cup over
  <2>1. ASSUME NEW x \in over PROVE x \in tainted_successor \cup ReachFrom(predecessors, sp)
    BY <1>4, <1>6, <1>8, <1>9, <1>10, <2>1
  <2>2. ReachFrom(predecessors, sp) \subseteq over
    BY <1>4, <1>9, <1>10
  <2> QED BY <1>2, <1>5, <2>1, <2>2
<1>13. Live' = Live /\ Path' = Path
  BY <1>2 DEF Live, Path
<1> QED BY <1>2, <1>7, <1>11, <1>12, <1>13 DEF Abstract!SetTaint

(* taint_reset_successor_taint is Reset: it looks at the neighbours only,  *)
(* and with no neighbour suspect nothing further down is.                  *)
LEMMA ResetFollows ==
  ASSUME IInv, NEW n \in Node, taint_reset_successor_taint(n)
  PROVE  Abstract!Reset(n)
<1>1. /\ n \in Live \ tainted
      /\ n \in tainted_successor
      /\ successors[n] \cap tainted_successor = {}
      /\ tainted_successor' = tainted_successor \ {n}
      /\ UNCHANGED <<ref_cnt, successors, tainted>>
  BY DEF taint_reset_successor_taint, edges
<1> DEFINE X == {n} \cup (Node \ tainted_successor)
<1>2. ASSUME NEW x \in X, NEW y \in successors[x] PROVE y \in X
  <2>1. x \in Node /\ y \in Node
    BY <1>2 DEF IInv, TypeOK
  <2>2. CASE x = n
    BY <1>1, <1>2, <2>1, <2>2
  <2>3. CASE x \notin tainted_successor
    <3>1. x \in predecessors[y]
      BY <1>2, <2>1 DEF IInv, ListsMirror
    <3> QED BY <2>1, <2>3, <3>1 DEF IInv, SuspectUpward
  <2> QED BY <1>2, <2>2, <2>3
<1>3. Reach(successors, n) \subseteq X
  <2>1. X \in SUBSET Node /\ n \in X
    OBVIOUS
  <2> HIDE DEF X
  <2>2. \A x \in X : successors[x] \subseteq X
    BY <1>2
  <2> QED BY <2>1, <2>2, ReachLeast
<1>4. Abstract!Down(n) \cap tainted_successor = {n}
  BY <1>1, <1>3, DerivesReach, ReachSelf
<1>5. Live' = Live /\ Path' = Path
  BY <1>1 DEF Live, Path
<1> QED BY <1>1, <1>4, <1>5 DEF Abstract!Reset

(* The actions that only count owners.                                     *)
LEMMA CountFollows ==
  ASSUME IInv, NEW n \in Node,
         taint_create(n) \/ taint_clone(n) \/ taint_release(n)
  PROVE  Abstract!Create(n) \/ UNCHANGED Abstract!vars
<1>1. UNCHANGED <<successors, tainted, tainted_successor>>
  BY DEF taint_create, taint_clone, taint_release, edges, flags
<1>2. Path' = Path
  BY <1>1 DEF Path
<1>3. ASSUME taint_create(n) PROVE n \notin Live /\ Live' = Live \cup {n}
  BY <1>3 DEF taint_create, Live, IInv, TypeOK
<1>4. ASSUME taint_clone(n) \/ taint_release(n) PROVE Live' = Live
  BY <1>4, MaxRefAssumption DEF taint_clone, taint_release, Live, IInv, TypeOK
<1> QED BY <1>1, <1>2, <1>3, <1>4 DEF Abstract!Create, Abstract!vars

(* Joining the predecessors of a node to its successors adds no pair that  *)
(* was not there, ...                                                      *)
LEMMA BridgeReach ==
  ASSUME IInv, NEW n \in Node, NEW a \in Node
  PROVE  /\ Reach(Forward(Bridge(n)), a) = Reach(successors, a)
         /\ Reach(Backward(Bridge(n)), a) = Reach(predecessors, a)
<1> DEFINE F == Forward(Bridge(n))
           B == Backward(Bridge(n))
<1>1. /\ successors \in Lists /\ predecessors \in Lists
      /\ Reversed(successors, predecessors)
      /\ F \in Lists /\ B \in Lists
      /\ Reversed(F, B)
  BY ListsType, EdgesMirror DEF Lists, Reversed
<1>2. ASSUME NEW x \in Node, NEW y \in F[x], y \notin successors[x]
      PROVE  n \in successors[x] /\ y \in successors[n]
  <2>1. x \in predecessors[n] /\ y \in successors[n]
    BY <1>2 DEF Forward, Bridge
  <2> QED BY <2>1 DEF IInv, ListsMirror
<1>3. \A x \in Node : successors[x] \subseteq F[x]
  BY <1>1 DEF Forward, Lists
<1> HIDE DEF F, B
<1>4. ASSUME NEW b \in Node PROVE Reach(F, b) = Reach(successors, b)
  <2>1. ASSUME NEW x \in Reach(successors, b), NEW y \in F[x]
        PROVE  y \in Reach(successors, b)
    <3>1. x \in Node /\ successors[x] \subseteq Reach(successors, b)
      BY <1>1, ReachNode, ReachStep
    <3>2. CASE y \notin successors[x]
      <4>1. n \in Reach(successors, b) /\ y \in successors[n]
        BY <1>2, <2>1, <3>1, <3>2
      <4> QED BY <1>1, <4>1, ReachStep
    <3> QED BY <3>1, <3>2
  <2>2. Reach(F, b) \subseteq Reach(successors, b)
    <3>1. \A x \in Reach(successors, b) : F[x] \subseteq Reach(successors, b)
      BY <2>1
    <3> QED BY <3>1, ReachNode, ReachSelf, ReachLeast
  <2>3. Reach(successors, b) \subseteq Reach(F, b)
    <3>1. \A x \in Reach(F, b) : successors[x] \subseteq Reach(F, b)
      BY <1>1, <1>3, ReachNode, ReachStep
    <3> QED BY <3>1, ReachNode, ReachSelf, ReachLeast
  <2> QED BY <2>2, <2>3
<1>5. Reach(B, a) = Reach(predecessors, a)
  <2>1. ASSUME NEW b \in Node
        PROVE  b \in Reach(B, a) <=> b \in Reach(predecessors, a)
    <3>1. b \in Reach(B, a) <=> a \in Reach(F, b)
      BY <1>1, ReachBack
    <3>2. b \in Reach(predecessors, a) <=> a \in Reach(successors, b)
      BY <1>1, ReachBack
    <3> QED BY <1>4, <3>1, <3>2
  <2> QED BY <2>1, ReachNode
<1> QED BY <1>4, <1>5 DEF F, B

(* ... and makes up for every path that led through the node.              *)
LEMMA UnlinkReach ==
  ASSUME IInv, NEW n \in Node, NEW a \in Node, a # n
  PROVE  Reach(Unlink(n, Forward(Bridge(n))), a) = Reach(successors, a) \ {n}
<1> DEFINE F == Forward(Bridge(n))
           U == Unlink(n, F)
           R == Reach(U, a)
           X == R \cup {x \in Node : x = n /\ \E p \in R : n \in successors[p]}
<1>1. successors \in Lists /\ F \in Lists
  BY ListsType, EdgesMirror DEF Lists
<1>2. /\ U \in Lists /\ U[n] = {}
      /\ \A m \in Node : m # n => U[m] = F[m] \ {n}
  BY <1>1 DEF Unlink, Lists
<1>3. \A x \in Node : successors[x] \subseteq F[x]
  BY <1>1 DEF Forward, Lists
<1>4. ASSUME NEW p \in Node, NEW y \in Node,
             n \in successors[p], y \in successors[n], p # y
      PROVE  y \in F[p]
  <2>1. p \in predecessors[n]
    BY <1>4 DEF IInv, ListsMirror
  <2>2. <<p, y>> \in Bridge(n)
    BY <1>4, <2>1 DEF Bridge
  <2> QED BY <2>2 DEF Forward
<1> HIDE DEF F, U
<1>5. R \subseteq Reach(successors, a) \ {n}
  <2>1. Reach(F, a) = Reach(successors, a)
    BY BridgeReach DEF F
  <2> DEFINE Z == Reach(F, a) \ {n}
  <2>2. Z \in SUBSET Node /\ a \in Z
    BY ReachNode, ReachSelf
  <2>3. ASSUME NEW x \in Z PROVE U[x] \subseteq Z
    BY <1>1, <1>2, <2>2, ReachStep
  <2> HIDE DEF Z
  <2>4. R \subseteq Z
    BY <2>2, <2>3, ReachLeast
  <2> QED BY <2>1, <2>4 DEF Z
<1>6. R \subseteq Node /\ a \in R /\ \A x \in R : U[x] \subseteq R
  BY <1>2, ReachNode, ReachSelf, ReachStep
<1> HIDE DEF R
<1>7. ASSUME NEW x \in X, NEW y \in successors[x] PROVE y \in X
  <2>1. x \in Node /\ y \in Node
    BY <1>1, <1>6, <1>7 DEF Lists
  <2>2. CASE x \in R
    <3>1. x # n
      BY <1>5, <2>2
    <3>2. CASE y = n
      BY <1>7, <2>1, <2>2, <3>2
    <3>3. CASE y # n
      <4>1. y \in U[x]
        BY <1>2, <1>3, <1>7, <2>1, <3>1, <3>3
      <4> QED BY <1>6, <2>2, <4>1
    <3> QED BY <3>2, <3>3
  <2>3. CASE x = n /\ \E p \in R : n \in successors[p]
    <3>1. PICK p \in R : n \in successors[p]
      BY <2>3
    <3>2. p \in Node /\ p # n
      BY <1>5, <1>6
    <3>3. CASE y = n
      BY <2>3, <3>3
    <3>4. CASE y = p
      BY <3>4
    <3>5. CASE y # n /\ y # p
      <4>1. y \in F[p]
        BY <1>4, <1>7, <2>1, <2>3, <3>1, <3>2, <3>5
      <4>2. y \in U[p]
        BY <1>2, <3>2, <3>5, <4>1
      <4> QED BY <1>6, <4>2
    <3> QED BY <3>3, <3>4, <3>5
  <2> QED BY <1>7, <2>2, <2>3
<1>8. Reach(successors, a) \subseteq X
  <2>1. X \in SUBSET Node /\ a \in X
    BY <1>6
  <2> HIDE DEF X
  <2>2. \A x \in X : successors[x] \subseteq X
    BY <1>7
  <2> QED BY <2>1, <2>2, ReachLeast
<1>9. R = Reach(successors, a) \ {n}
  BY <1>5, <1>8
<1> QED BY <1>9 DEF R, U, F

(* taint_destroy by the last owner is Destroy: the pairs and the marks of  *)
(* the others stay as they are.                                            *)
LEMMA DestroyFollows ==
  ASSUME IInv, NEW n \in Node, taint_destroy(n)
  PROVE  Abstract!Destroy(n)
<1> DEFINE new == Bridge(n)
           F == Forward(new)
           B == Backward(new)
           U == Unlink(n, F)
<1>1. /\ n \in Live /\ Live' = Live \ {n}
      /\ successors' = U
      /\ tainted' = TaintedAfter(new) \ {n}
      /\ tainted_successor' = SuspectAfter(new) \ {n}
  BY DEF taint_destroy, Live, IInv, TypeOK
<1>2. /\ tainted \subseteq tainted_successor /\ tainted_successor \subseteq Node
      /\ \A t \in tainted : Reach(successors, t) \subseteq tainted
      /\ \A t \in tainted_successor : Reach(predecessors, t) \subseteq tainted_successor
  BY MarksClosed DEF IInv
<1>3. /\ TaintedAfter(new) = ReachFrom(F, tainted)
      /\ SuspectAfter(new) = ReachFrom(B, tainted_successor \cup TaintedAfter(new))
  BY MarksReach
<1>4. \A a \in Node : Reach(F, a) = Reach(successors, a) /\ Reach(B, a) = Reach(predecessors, a)
  BY BridgeReach
<1>5. \A a \in Node : a # n => Reach(U, a) = Reach(successors, a) \ {n}
  BY UnlinkReach
<1>6. Reach(U, n) = {n}
  <2>1. U[n] = {}
    BY DEF Unlink
  <2> HIDE DEF U
  <2>2. {n} \in SUBSET Node /\ n \in {n} /\ \A x \in {n} : U[x] \subseteq {n}
    BY <2>1
  <2>3. Reach(U, n) \subseteq {n}
    BY <2>2, ReachLeast
  <2> QED BY <2>3, ReachSelf
<1> HIDE DEF new, F, B, U
<1>7. TaintedAfter(new) = tainted
  <2>1. ReachFrom(F, tainted) \subseteq tainted
    BY <1>2, <1>4 DEF ReachFrom
  <2>2. tainted \subseteq ReachFrom(F, tainted)
    BY <1>2, ReachSelf DEF ReachFrom
  <2> QED BY <1>3, <2>1, <2>2
<1>8. SuspectAfter(new) = tainted_successor
  <2>1. SuspectAfter(new) = ReachFrom(B, tainted_successor)
    <3>1. tainted_successor \cup tainted = tainted_successor
      BY <1>2
    <3> QED BY <1>3, <1>7, <3>1
  <2>2. ReachFrom(B, tainted_successor) \subseteq tainted_successor
    BY <1>2, <1>4 DEF ReachFrom
  <2>3. tainted_successor \subseteq ReachFrom(B, tainted_successor)
    BY <1>2, ReachSelf DEF ReachFrom
  <2> QED BY <2>1, <2>2, <2>3
<1>9. Path' = {e \in Path : n \notin {e[1], e[2]}}
  <2>1. ASSUME NEW a, NEW b
        PROVE  <<a, b>> \in Path' <=>
                 a \in Node /\ b \in Node /\ a # b /\ b \in Reach(U, a)
    BY <1>1 DEF Path, Reach
  <2> DEFINE Kept == {e \in Path : n \notin {e[1], e[2]}}
  <2>2. ASSUME NEW a, NEW b
        PROVE  <<a, b>> \in Kept <=> <<a, b>> \in Path /\ a # n /\ b # n
    OBVIOUS
  <2>3. ASSUME NEW a, NEW b PROVE <<a, b>> \in Path' <=> <<a, b>> \in Kept
    BY <1>5, <1>6, <2>1, <2>2, PathReach
  <2>4. Path' \subseteq Node \X Node /\ Kept \subseteq Node \X Node
    BY PathPairs DEF Path
  <2> HIDE DEF Kept
  <2>5. Path' = Kept
    BY <2>3, <2>4
  <2> QED BY <2>5 DEF Kept
<1> QED BY <1>1, <1>7, <1>8, <1>9 DEF Abstract!Destroy

LEMMA InitFollows == Init => Abstract!Init
<1> SUFFICES ASSUME Init PROVE Abstract!Init
  OBVIOUS
<1>1. Live = {}
  BY DEF Init, Live
<1>2. Path = {}
  <2>1. ASSUME NEW a \in Node PROVE Reach(successors, a) \subseteq {a}
    <3>1. \A x \in {a} : successors[x] \subseteq {a}
      BY DEF Init
    <3>2. {a} \in SUBSET Node /\ a \in {a}
      OBVIOUS
    <3> QED BY <3>1, <3>2, ReachLeast
  <2>2. ASSUME NEW a, NEW b, <<a, b>> \in Path PROVE FALSE
    <3>1. a \in Node /\ a # b /\ b \in Reach(successors, a)
      BY <2>2, PathReach
    <3> QED BY <2>1, <3>1
  <2> QED BY <2>2, PathPairs
<1> QED BY <1>1, <1>2 DEF Init, Abstract!Init

LEMMA NextFollows == IInv /\ [Next]_vars => [Abstract!Next]_(Abstract!vars)
<1> SUFFICES ASSUME IInv, [Next]_vars PROVE [Abstract!Next]_(Abstract!vars)
  OBVIOUS
<1>1. CASE UNCHANGED vars
  BY <1>1 DEF vars, Abstract!vars, Live, Path
<1>2. ASSUME NEW n \in Node,
             taint_create(n) \/ taint_clone(n) \/ taint_release(n)
      PROVE  [Abstract!Next]_(Abstract!vars)
  BY <1>2, CountFollows DEF Abstract!Next
<1>3. ASSUME NEW n \in Node, taint_destroy(n) PROVE Abstract!Next
  BY <1>3, DestroyFollows DEF Abstract!Next
<1>4. ASSUME NEW n \in Node, taint_set_taint(n) PROVE Abstract!Next
  BY <1>4, SetTaintFollows DEF Abstract!Next
<1>5. ASSUME NEW n \in Node, taint_reset_successor_taint(n) PROVE Abstract!Next
  BY <1>5, ResetFollows DEF Abstract!Next
<1>6. ASSUME NEW from \in Node, NEW to \in Node, taint_propagate(from, to)
      PROVE  Abstract!Next
  BY <1>6, PropagateDerives DEF Abstract!Next
<1> QED BY <1>1, <1>2, <1>3, <1>4, <1>5, <1>6 DEF Next

(* The taint graph implements TaintSpec: whatever is created, joined,      *)
(* tainted, reset and destroyed, and in which order, around loops too, who *)
(* taints whom is the transitive closure of what taint_propagate was told, *)
(* and it outlives the destruction of every node in between.               *)
THEOREM Implements == Spec => Refines
<1>1. Init => Abstract!Init
  BY InitFollows
<1>2. IInv /\ [Next]_vars => [Abstract!Next]_(Abstract!vars)
  BY NextFollows
<1> QED
  BY <1>1, <1>2, Inductive, PTL DEF Spec, Refines, Abstract!Spec

=============================================================================
