----------------------------- MODULE ActiveFile -----------------------------
(***************************************************************************)
(* What a user is promised of the active file: commands queue work, and a  *)
(* procedure does all of it to all the data in one step.  Every pending    *)
(* transformation is applied to the whole file before the next, never case *)
(* by case, and nothing is known of readers, sinks, deques or counters.    *)
(***************************************************************************)
EXTENDS Integers, Sequences, SequencesExt

CONSTANTS NCases, Unselected, Filtered, Failing, Limits, MaxLag, NoData

VARIABLES
  data,     \* the cases of the active file, or NoData
  broken,   \* its source fails after them
  lasting,  \* [chain, limit, filter] in force for good
  passing,  \* the same after TEMPORARY, or NoData
  given,    \* what a procedure was given to read, until the next command
  ok        \* did it succeed?

vars == <<data, broken, lasting, passing, given, ok>>

Columns == {"x", "num", "lag"}
Step(kind, n) == [kind |-> kind, n |-> n]
Scope(chain, limit, filter) == [chain |-> chain, limit |-> limit, filter |-> filter]
Lim(scope) == IF scope.limit = 0 THEN <<>> ELSE <<Step("limit", scope.limit)>>
Fil(scope) == IF scope.filter THEN <<Step("filter", 0)>> ELSE <<>>

---------------------------------------------------------------------------
(* Transforming a whole file.  An item is a case and its place in the file *)
(* that the chain of lasting transformations yields.                       *)

Items(cases) == [i \in DOMAIN cases |-> [case |-> cases[i], place |-> i]]

Dropped(step) ==
  CASE step.kind = "select" -> Unselected
    [] step.kind = "filter" -> Filtered
    [] OTHER                -> {}

(* The items that are left when the whole chain has been applied.          *)
Kept(chain, items) ==
  FoldLeft(LAMBDA left, step :
             IF step.kind = "limit"
               THEN SubSeq(left, 1, IF step.n < Len(left) THEN step.n ELSE Len(left))
               ELSE SelectSeq(left, LAMBDA item : item.case["x"] \notin Dropped(step)),
           items, chain)

Uses(chain, kind) == \E j \in DOMAIN chain : chain[j].kind = kind

(* The argument of the last LAG in the chain: it is the one that counts.   *)
LastLag(chain) == chain[CHOOSE j \in DOMAIN chain :
                          /\ chain[j].kind = "lag"
                          /\ \A k \in j+1..Len(chain) : chain[k].kind # "lag"].n

(* LAG looks back in the new file, not in the old one.                     *)
NewFile(chain, cases) ==
  LET kept == Kept(chain, Items(cases))
      Lagged(p, n) == IF p > n THEN kept[p - n].case["x"] ELSE 0
  IN [p \in DOMAIN kept |->
       [v \in Columns |->
         CASE v = "num" /\ Uses(chain, "num") -> p
           [] v = "lag" /\ Uses(chain, "lag") -> Lagged(p, LastLag(chain))
           [] OTHER                           -> kept[p].case[v]]]

(* What a procedure is given of the new file.                              *)
View(chain, cases) ==
  LET kept == Kept(chain, Items(cases)) IN
  [p \in DOMAIN kept |->
     IF Uses(chain, "num") THEN [kept[p].case EXCEPT !["num"] = kept[p].place]
                           ELSE kept[p].case]

(* A case gets as far as a transformation that cannot digest it.           *)
Chokes(chain, cases) ==
  \E j \in DOMAIN chain :
     /\ chain[j].kind = "fail"
     /\ \E item \in Range(Kept(SubSeq(chain, 1, j - 1), Items(cases))) :
           item.case["x"] \in Failing

---------------------------------------------------------------------------
Init ==
  /\ data = NoData /\ broken = FALSE
  /\ lasting = Scope(<<>>, 0, FALSE) /\ passing = NoData
  /\ given = <<>> /\ ok = TRUE

Replace(cases) ==
  /\ data' = cases
  /\ broken' \in (IF cases = NoData THEN {FALSE} ELSE BOOLEAN)
  /\ lasting' = Scope(<<>>, 0, FALSE) /\ passing' = NoData
  /\ given' = <<>>
  /\ UNCHANGED ok

Get == Replace([i \in 1..NCases |-> [v \in Columns |-> IF v = "x" THEN i ELSE 0]])

NewFileCommand == Replace(NoData)

Queue(step) ==
  /\ IF passing = NoData
       THEN lasting' = [lasting EXCEPT !.chain = Append(@, step)] /\ UNCHANGED passing
       ELSE passing' = [passing EXCEPT !.chain = Append(@, step)] /\ UNCHANGED lasting
  /\ given' = <<>>
  /\ UNCHANGED <<data, broken, ok>>

Settle(limit, filter) ==
  /\ IF passing = NoData
       THEN lasting' = Scope(lasting.chain, limit, filter) /\ UNCHANGED passing
       ELSE passing' = Scope(passing.chain, limit, filter) /\ UNCHANGED lasting
  /\ given' = <<>>
  /\ UNCHANGED <<data, broken, ok>>

Now == IF passing = NoData THEN lasting ELSE passing

(* A limit set before TEMPORARY applies to what goes before it.            *)
Temporary ==
  /\ passing = NoData
  /\ lasting' = Scope(lasting.chain \o Lim(lasting), 0, lasting.filter)
  /\ passing' = Scope(<<>>, 0, lasting.filter)
  /\ given' = <<>>
  /\ UNCHANGED <<data, broken, ok>>

DeleteVariable(v) ==
  /\ data # NoData
  /\ data' = [i \in DOMAIN data |-> [data[i] EXCEPT ![v] = 0]]
  /\ given' = <<>>
  /\ UNCHANGED <<broken, lasting, passing, ok>>

(* A procedure that keeps `permanent' and reads through `temporary'.  The  *)
(* new file is all the data, transformed, or if something failed some of   *)
(* its beginning, and then the procedure reports failure.  A procedure     *)
(* that replaces the file puts there what it was given.                    *)
Procedure(permanent, temporary, filter, replaces) ==
  LET whole == NewFile(permanent, data)
      fails == \/ broken
               \/ Chokes(permanent, data)
               \/ Chokes(temporary, whole)
  IN /\ data # NoData
     /\ \E k \in 0..Len(data) : \E m \in {k, k - 1} \cap Nat :
          LET new == NewFile(permanent, SubSeq(data, 1, k)) IN
          /\ ~fails => k = Len(data) /\ m = k
          /\ given' = View(temporary, NewFile(permanent, SubSeq(data, 1, m)))
          /\ data' = IF replaces THEN given' ELSE new
     /\ ok' = ~fails
     /\ lasting' = Scope(<<>>, 0, filter) /\ passing' = NoData /\ broken' = FALSE

(* SORT VARIABLES with nothing to do to the data forgets the limit.        *)
SortsVariables ==
  /\ lasting.chain = <<>>
  /\ passing = NoData \/ passing.chain = <<>>
  /\ Settle(0, Now.filter)

(* FILTER is in force when the procedure asks for it.                      *)
Reads(filtered) ==
  LET fil == IF filtered THEN Fil(Now) ELSE <<>> IN
  IF passing = NoData
    THEN Procedure(lasting.chain \o Lim(lasting), fil, lasting.filter, FALSE)
    ELSE Procedure(lasting.chain, passing.chain \o Lim(passing) \o fil,
                   lasting.filter, FALSE)

(* SORT CASES forgets what is temporary, and replaces the file.            *)
Sorts == Procedure(lasting.chain \o Lim(lasting), <<>>, lasting.filter, TRUE)

(* DESCRIPTIVES /SAVE and others make permanent what is temporary.         *)
Keeps == Procedure(IF passing = NoData THEN lasting.chain \o Lim(lasting)
                   ELSE lasting.chain \o passing.chain \o Lim(passing),
                   <<>>, Now.filter, FALSE)

Next ==
  \/ Get \/ NewFileCommand \/ Temporary
  \/ \E kind \in {"num", "select", "fail"} : Queue(Step(kind, 0))
  \/ \E n \in 1..MaxLag : passing = NoData /\ Queue(Step("lag", n))
  \/ \E n \in Limits : Settle(n, Now.filter)
  \/ \E on \in BOOLEAN : Settle(Now.limit, on)
  \/ \E v \in {"num", "lag"} : DeleteVariable(v)
  \/ \E filtered \in BOOLEAN : Reads(filtered)
  \/ Sorts \/ Keeps \/ SortsVariables

Spec == Init /\ [][Next]_vars
=============================================================================
