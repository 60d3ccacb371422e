----------------------------- MODULE CaseWindow -----------------------------
(* One casewindow with its owner's calls, while the temporary file works.  *)
(* Faulty files are the matter of CaseReader.                              *)
EXTENDS CaseStore

CONSTANTS
  MaxInCore,     \* bound on the max_in_core_cases it is created with
  MaxCases       \* bound on the cases ever pushed

ASSUME WindowAssumption == MaxInCore \in Nat /\ MaxCases \in Nat

VARIABLES
  window,        \* struct casewindow
  pushed,        \* how many cases were pushed; they are numbered from 1
  reply          \* what the last casewindow_get_case returned

vars == <<window, pushed, reply>>

Init ==
  /\ window \in {casewindow_create(m) : m \in 0 .. MaxInCore}
  /\ pushed = 0
  /\ reply = NoCase

PushHead ==
  /\ pushed < MaxCases
  /\ pushed' = pushed + 1
  /\ window' = casewindow_push_head(window, pushed', MaxCases)
  /\ reply' = NoCase

(* Callers never pop more than there is; the code asserts it.              *)
PopTail(n) ==
  /\ n <= casewindow_get_n_cases(window)
  /\ window' = casewindow_pop_tail(window, n)
  /\ reply' = NoCase
  /\ UNCHANGED pushed

GetCase(idx) ==
  /\ idx < casewindow_get_n_cases(window)
  /\ reply' = casewindow_get_case(window, idx, TRUE)
  /\ window' = AfterGet(window, TRUE)
  /\ UNCHANGED pushed

Next ==
  \/ PushHead
  \/ \E n \in 1 .. MaxCases : PopTail(n)
  \/ \E idx \in 0 .. MaxCases : GetCase(idx)

Spec == Init /\ [][Next]_vars

-----------------------------------------------------------------------------
(* The window never keeps more cases in memory than it was told to, and    *)
(* its file never grows past what a queue that empties needs: a file that  *)
(* has been emptied is written from its start again.                       *)
WithinCore ==
  /\ Len(window.deque) <= window.max
  /\ window.head = 0 \/ window.tail < window.head

Queue == INSTANCE CaseQueue WITH queue <- Contents(window)

(* Spilled to disk or not, emptied and refilled or not, the window is a    *)
(* first-in first-out queue.                                               *)
IsQueue == Queue!Spec
=============================================================================
