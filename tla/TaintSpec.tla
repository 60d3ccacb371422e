----------------------------- MODULE TaintSpec -----------------------------
(***************************************************************************)
(* What taint.h promises its callers, with no graph and no walk: which     *)
(* objects exist, which of them derive their data from which, which are    *)
(* tainted, and which have, or ever had, a tainted derivation.             *)
(***************************************************************************)
EXTENDS Naturals

CONSTANT Node

VARIABLES
  live,      \* the taints that exist
  derives,   \* <<a, b>>: tainting a taints b
  tainted,   \* taint_is_tainted
  suspect    \* taint_has_tainted_successor

vars == <<live, derives, tainted, suspect>>

Down(n) == {n} \cup {m \in Node : <<n, m>> \in derives}
Up(n)   == {n} \cup {m \in Node : <<m, n>> \in derives}
UpOf(S) == UNION {Up(n) : n \in S}

Init ==
  /\ live = {}
  /\ derives = {}
  /\ tainted = {}
  /\ suspect = {}

Create(n) ==
  /\ n \notin live
  /\ live' = live \cup {n}
  /\ UNCHANGED <<derives, tainted, suspect>>

(* "Any propagation relationships through TAINT are preserved": only the   *)
(* pairs that name the destroyed object itself go.                         *)
Destroy(n) ==
  /\ n \in live
  /\ live' = live \ {n}
  /\ derives' = {e \in derives : n \notin {e[1], e[2]}}
  /\ tainted' = tainted \ {n}
  /\ suspect' = suspect \ {n}

(* "Propagation is transitive", "not commutative" and "takes effect        *)
(* immediately"; loops are allowed.                                        *)
Derive(a, b) ==
  /\ {a, b} \subseteq live
  /\ a # b
  /\ derives' = derives \cup {e \in Up(a) \X Down(b) : e[1] # e[2]}
  /\ LET spoiled == IF a \in tainted THEN Down(b) ELSE {}
     IN  /\ tainted' = tainted \cup spoiled
         /\ suspect' = suspect
              \cup UpOf(spoiled)
              \cup (IF b \in suspect \cup spoiled THEN Up(a) ELSE {})
  /\ UNCHANGED live

SetTaint(n) ==
  /\ n \in live
  /\ tainted' = tainted \cup Down(n)
  /\ suspect' = suspect \cup UpOf(Down(n))
  /\ UNCHANGED <<live, derives>>

(* "Successful only if TAINT currently has no tainted successor": nothing  *)
(* derived from an object is suspect when its own mark is taken back.      *)
Reset(n) ==
  /\ n \in live \ tainted
  /\ Down(n) \cap suspect = {n}
  /\ suspect' = suspect \ {n}
  /\ UNCHANGED <<live, derives, tainted>>

Next ==
  \/ \E n \in Node : Create(n) \/ Destroy(n) \/ SetTaint(n) \/ Reset(n)
  \/ \E a, b \in Node : Derive(a, b)

Spec == Init /\ [][Next]_vars
=============================================================================
