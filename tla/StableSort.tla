----------------------------- MODULE StableSort -----------------------------
(* What sort.h promises: a casewriter that gives back, as a reader, the    *)
(* cases written to it in order of their keys, those of equal keys in the  *)
(* order in which they were written.                                       *)
EXTENDS Integers, Sequences, FiniteSets

CONSTANTS
  Keys,                 \* values of the sort key
  NCases,               \* bound on the cases written
  NoReader              \* stands for a reader that is not there yet

VARIABLES
  written,              \* the cases written: the key and the number of each
  result                \* the cases of the reader

vars == <<written, result>>

Before(a, b) == a.key < b.key \/ (a.key = b.key /\ a.seq < b.seq)

(* The n-th case is the one that n cases, itself included, are not after.  *)
Sorted(cases) ==
  LET all == {cases[i] : i \in DOMAIN cases}
  IN [n \in DOMAIN cases |->
        CHOOSE c \in all : Cardinality({d \in all : ~ Before(c, d)}) = n]

Init ==
  /\ written = <<>>
  /\ result = NoReader

Write(key) ==
  /\ result = NoReader
  /\ Len(written) < NCases
  /\ written' = Append(written, [key |-> key, seq |-> Len(written) + 1])
  /\ UNCHANGED result

MakeReader ==
  /\ result = NoReader
  /\ result' = Sorted(written)
  /\ UNCHANGED written

Next == MakeReader \/ \E key \in Keys : Write(key)

Spec == Init /\ [][Next]_vars
=============================================================================
