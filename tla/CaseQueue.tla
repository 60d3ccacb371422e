----------------------------- MODULE CaseQueue -----------------------------
(* What casewindow.h promises: a first-in first-out queue of cases that    *)
(* can be read at any distance from its tail.                              *)
EXTENDS Naturals, Sequences

CONSTANT MaxCases       \* bound on the cases ever pushed

VARIABLES
  queue,                \* the cases held, oldest first
  pushed,               \* how many cases were ever pushed; they are 1, 2, ...
  reply                 \* what the last call returned

vars == <<queue, pushed, reply>>

Init ==
  /\ queue = <<>>
  /\ pushed = 0
  /\ reply = 0

Push ==
  /\ pushed < MaxCases
  /\ pushed' = pushed + 1
  /\ queue' = Append(queue, pushed')
  /\ reply' = 0

Pop(n) ==
  /\ n <= Len(queue)
  /\ queue' = SubSeq(queue, n + 1, Len(queue))
  /\ reply' = 0
  /\ UNCHANGED pushed

Get(idx) ==
  /\ idx < Len(queue)
  /\ reply' = queue[idx + 1]
  /\ UNCHANGED <<queue, pushed>>

Next ==
  \/ Push
  \/ \E n \in 1 .. MaxCases : Pop(n)
  \/ \E idx \in 0 .. MaxCases : Get(idx)

Spec == Init /\ [][Next]_vars
=============================================================================
