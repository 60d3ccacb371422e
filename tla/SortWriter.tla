----------------------------- MODULE SortWriter -----------------------------
(* The sorting casewriter of sort.c: replacement selection makes sorted    *)
(* runs of the cases written, and merge.c merges the runs, a limited       *)
(* number at a time. A loop takes a step for each of its turns; "pc" is    *)
(* where the program is:                                                   *)
(*   "open"    the client may write a case or ask for the reader           *)
(*   "output"  in output_record, or before it                              *)
(*   "merge"   do_merge has been called                                    *)
(*   "merging" in the loop of do_merge                                     *)
(*   "emit"    in output_record, the record popped and the runs in order   *)
(*   "push"    output_record has made room for the case to write           *)
(*   "result"  in merge_make_reader                                        *)
(*   "done"    the client has its reader                                   *)
EXTENDS Integers, Sequences, FiniteSets

CONSTANTS
  Keys,                 \* values of the sort key
  NCases,               \* bound on the cases written
  Workspace,            \* what settings_get_workspace_cases may say
  MAX_MERGE_ORDER,      \* 7 in merge.c
  NULL

ASSUME SortAssumption ==
  /\ Keys \subseteq Int
  /\ NCases \in Nat
  /\ Workspace \subseteq Nat \ {0}
  /\ MAX_MERGE_ORDER \in Nat \ {0, 1}

Case == [key : Keys, seq : Nat]                 \* seq: its turn of arrival
Record == [id : Nat, c : Case, idx : Nat]       \* id: the run it is for

ASSUME NullAssumption == NULL \notin Case \cup Record \cup Seq(Case)

VARIABLES
  written,              \* every case ever written, in order
  max_records,          \* of the pqueue: how many records it may hold
  pqueue, idx,          \* its records, and the number of the next
  run, run_id,          \* the run being written, and its number
  run_end,              \* the last case written to a run
  inputs,               \* of the merge: its readers, as what they hold
  sink,                 \* the writer of do_merge
  pc,
  incoming,             \* the case to push when output_record returns
  outgoing,             \* the record that output_record has popped
  result                \* the reader made

heap == <<max_records, pqueue, idx>>
runs == <<run, run_id, run_end>>
merge == <<inputs, sink>>
vars == <<written, heap, runs, merge, pc, incoming, outgoing, result>>

Init ==
  /\ written = <<>>
  /\ max_records \in Workspace
  /\ pqueue = {} /\ idx = 0
  /\ run = NULL /\ run_id = 0 /\ run_end = NULL
  /\ inputs = <<>> /\ sink = NULL
  /\ pc = "open"
  /\ incoming = NULL /\ outgoing = NULL /\ result = NULL

-----------------------------------------------------------------------------
PrecedesByKey(a, b) ==      \* mutant: the run matters only for equal keys
  \/ a.c.key < b.c.key
  \/ a.c.key = b.c.key /\ a.idx < b.idx

PrecedesLatest(a, b) ==     \* mutant: of equal records the latest comes first
  \/ a.id < b.id
  \/ a.id = b.id /\ a.c.key < b.c.key
  \/ a.id = b.id /\ a.c.key = b.c.key /\ a.idx > b.idx

(* Records compare by run, then by key, then by insertion.                 *)
Precedes(a, b) ==
  \/ a.id < b.id
  \/ a.id = b.id /\ a.c.key < b.c.key
  \/ a.id = b.id /\ a.c.key = b.c.key /\ a.idx < b.idx

pqueue_is_full == Cardinality(pqueue) >= max_records

(* A case below the last one that went out has missed its run.             *)
next_run(c) == run_end = NULL \/ (run_end # NULL /\ c.key < run_end.key)

pqueue_push(c) ==
  /\ pqueue' = pqueue \cup
       {[id |-> IF next_run(c) THEN run_id + 1 ELSE run_id, c |-> c, idx |-> idx]}
  /\ idx' = idx + 1
  /\ UNCHANGED max_records

(* sort_casewriter_write, as far as it goes before output_record.          *)
Write(key) ==
  LET c == [key |-> key, seq |-> Len(written) + 1]
  IN /\ pc = "open"
     /\ Len(written) < NCases
     /\ written' = Append(written, c)
     /\ \/ /\ pqueue_is_full
           /\ incoming' = c
           /\ pc' = "output"
           /\ UNCHANGED heap
        \/ /\ ~ pqueue_is_full
           /\ pqueue_push(c)
           /\ UNCHANGED <<incoming, pc>>
     /\ UNCHANGED <<runs, merge, outgoing, result>>

Push ==
  /\ pc = "push"
  /\ pqueue_push(incoming)
  /\ incoming' = NULL
  /\ pc' = "open"
  /\ UNCHANGED <<written, runs, merge, outgoing, result>>

-----------------------------------------------------------------------------
MergeAppendLate(reader, next) ==    \* mutant: `>' where the code has `>='
  /\ inputs' = Append(inputs, reader)
  /\ pc' = IF Len(inputs') > MAX_MERGE_ORDER THEN "merge" ELSE next
  /\ UNCHANGED sink

(* merge_append, and where the program goes when it returns.               *)
merge_append(reader, next) ==
  /\ inputs' = Append(inputs, reader)
  /\ pc' = IF Len(inputs') >= MAX_MERGE_ORDER THEN "merge" ELSE next
  /\ UNCHANGED sink

(* output_record, up to the writer that it needs.                          *)
OutputRecord ==
  /\ pc = "output"
  /\ \E r \in pqueue :
       /\ \A s \in pqueue \ {r} : Precedes(r, s)
       /\ outgoing' = r
       /\ pqueue' = pqueue \ {r}
       /\ \/ /\ run_id # r.id /\ run # NULL
             /\ merge_append(run, "emit")
             /\ run' = NULL
          \/ /\ ~ (run_id # r.id /\ run # NULL)
             /\ pc' = "emit"
             /\ UNCHANGED <<merge, run>>
  /\ UNCHANGED <<written, max_records, idx, run_id, run_end, incoming, result>>

(* The rest of it.                                                         *)
Emit ==
  /\ pc = "emit"
  /\ \/ run = NULL /\ run' = <<outgoing.c>> /\ run_id' = outgoing.id
     \/ run # NULL /\ run' = Append(run, outgoing.c) /\ UNCHANGED run_id
  /\ run_end' = outgoing.c
  /\ outgoing' = NULL
  /\ pc' = IF incoming # NULL THEN "push" ELSE "output"
  /\ UNCHANGED <<written, heap, merge, incoming, result>>

ConvertFromMemory ==    \* mutant: a new run although there is one
  /\ pc = "open"
  /\ run' = <<>> /\ run_id' = run_id + 1
  /\ pc' = "output"
  /\ UNCHANGED <<written, heap, run_end, merge, incoming, outgoing, result>>

(* sort_casewriter_convert_to_reader. With no run yet, what is in memory   *)
(* becomes one.                                                            *)
ConvertToReader ==
  /\ pc = "open"
  /\ \/ run = NULL /\ run_id = 0 /\ run' = <<>> /\ run_id' = 1
     \/ ~ (run = NULL /\ run_id = 0) /\ UNCHANGED <<run, run_id>>
  /\ pc' = "output"
  /\ UNCHANGED <<written, heap, run_end, merge, incoming, outgoing, result>>

LastRun ==
  /\ pc = "output" /\ incoming = NULL /\ pqueue = {}
  /\ merge_append(run, "result")
  /\ run' = NULL
  /\ UNCHANGED <<written, heap, run_id, run_end, incoming, outgoing, result>>

(* merge_make_reader. A sort always has a run, if an empty one.            *)
MakeReader ==
  /\ pc = "result"
  /\ \/ /\ Len(inputs) > 1
        /\ pc' = "merge"
        /\ UNCHANGED <<inputs, result>>
     \/ /\ Len(inputs) = 1
        /\ result' = inputs[1]
        /\ inputs' = <<>>
        /\ pc' = "done"
  /\ UNCHANGED <<written, heap, runs, sink, incoming, outgoing>>

-----------------------------------------------------------------------------
(* do_merge. The case read from an input and not yet written is the first  *)
(* of its sequence; an input with no case left is taken off the array. At  *)
(* the start that happens to none: a run gets a case when it is made.      *)
StartMerge ==
  /\ pc = "merge"
  /\ sink' = <<>>
  /\ pc' = "merging"
  /\ UNCHANGED <<written, heap, runs, inputs, incoming, outgoing, result>>

Without(s, n) == [i \in 1 .. Len(s) - 1 |-> s[IF i < n THEN i ELSE i + 1]]

IsLeastLast(min) ==     \* mutant: the last of the inputs, not the first
  /\ \A i \in DOMAIN inputs : Head(inputs[min]).key <= Head(inputs[i]).key
  /\ \A i \in DOMAIN inputs : i > min => Head(inputs[min]).key < Head(inputs[i]).key

(* The first of the inputs whose cases have the least key.                 *)
IsLeast(min) ==
  /\ \A i \in DOMAIN inputs : Head(inputs[min]).key <= Head(inputs[i]).key
  /\ \A i \in DOMAIN inputs : i < min => Head(inputs[min]).key < Head(inputs[i]).key

MergeCase ==
  /\ pc = "merging"
  /\ \E min \in DOMAIN inputs :
       /\ IsLeast(min)
       /\ sink' = Append(sink, Head(inputs[min]))
       /\ inputs' = IF Len(inputs[min]) > 1
                    THEN [inputs EXCEPT ![min] = Tail(@)]
                    ELSE Without(inputs, min)
  /\ UNCHANGED <<written, heap, runs, pc, incoming, outgoing, result>>

EndMerge ==
  /\ pc = "merging" /\ inputs = <<>>
  /\ inputs' = <<sink>>
  /\ sink' = NULL
  /\ pc' = IF outgoing # NULL THEN "emit" ELSE "result"
  /\ UNCHANGED <<written, heap, runs, incoming, outgoing, result>>

-----------------------------------------------------------------------------
(* The steps of a call that has been made.                                 *)
Proceed ==
  \/ Push \/ OutputRecord \/ Emit \/ LastRun \/ MakeReader
  \/ StartMerge \/ MergeCase \/ EndMerge

Next ==
  \/ \E key \in Keys : Write(key)
  \/ ConvertToReader
  \/ Proceed

Spec == Init /\ [][Next]_vars

-----------------------------------------------------------------------------
TypeOK ==
  /\ written \in Seq(Case)
  /\ max_records \in Workspace
  /\ pqueue \subseteq Record /\ idx \in Nat
  /\ run \in Seq(Case) \cup {NULL} /\ run_id \in Nat /\ run_end \in Case \cup {NULL}
  /\ inputs \in Seq(Seq(Case)) /\ sink \in Seq(Case) \cup {NULL}
  /\ pc \in {"open", "output", "merge", "merging", "emit", "push", "result", "done"}
  /\ incoming \in Case \cup {NULL} /\ outgoing \in Record \cup {NULL}
  /\ result \in Seq(Case) \cup {NULL}

Before(a, b) == a.key < b.key \/ (a.key = b.key /\ a.seq < b.seq)

Ordered(s) == \A i, j \in DOMAIN s : i < j => Before(s[i], s[j])

(* Whatever is a run is sorted, equal keys in order of arrival: those      *)
(* waiting to be merged, that being written, that which a merge makes in   *)
(* place of its inputs, and the result.                                    *)
RunsOrdered ==
  /\ \A i \in DOMAIN inputs : Ordered(inputs[i])
  /\ run # NULL => Ordered(run)
  /\ sink # NULL => Ordered(sink)
  /\ result # NULL => Ordered(result)

(* While cases still arrive, a run ends with as many cases as memory       *)
(* holds: spilling makes no more runs than sorting memory by memory would. *)
LongRuns ==
  pc \in {"emit", "merge"} /\ incoming # NULL =>
    \A i \in DOMAIN inputs : Len(inputs[i]) >= max_records

CasesOf(s) == {s[i] : i \in DOMAIN s}

(* Where cases are on their way.                                           *)
InHeap == {r.c : r \in pqueue}
InRun == IF run = NULL THEN {} ELSE CasesOf(run)
InInputs == UNION {CasesOf(inputs[i]) : i \in DOMAIN inputs}
InSink == IF sink = NULL THEN {} ELSE CasesOf(sink)
InHand == (IF incoming = NULL THEN {} ELSE {incoming})
            \cup (IF outgoing = NULL THEN {} ELSE {outgoing.c})
InResult == IF result = NULL THEN {} ELSE CasesOf(result)

(* No case is lost between the heap, the runs and the merges.              *)
NothingLost ==
  CasesOf(written) = InHeap \cup InRun \cup InInputs \cup InSink \cup InHand \cup InResult

(* The merge never holds more readers than its array has room for, nor     *)
(* the heap more records than it was created for.                          *)
WithinBounds ==
  /\ Len(inputs) <= MAX_MERGE_ORDER
  /\ Cardinality(pqueue) <= max_records
  /\ pc = "push" => Cardinality(pqueue) < max_records
=============================================================================
