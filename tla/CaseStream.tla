----------------------------- MODULE CaseStream -----------------------------
(***************************************************************************)
(* What casereader.h promises to the holders of a casereader and of its    *)
(* clones: each holds a place in one sequence of cases, reads it from      *)
(* there to the end, and is never told that the sequence ends before it    *)
(* does unless an error can be seen on the reader.                         *)
(***************************************************************************)
EXTENDS Naturals

CONSTANTS Reader, MaxCases, Unlimited

VARIABLES
  length,     \* how many cases there are: 1, 2, ..., length
  place,      \* [Reader -> Nat], the cases a reader has behind it
  limit,      \* [Reader -> Nat], the most it will still read
  held,       \* the readers that exist
  failed,     \* casereader_error
  reply       \* the case that the last read or peek returned, or 0

vars == <<length, place, limit, held, failed, reply>>

Init ==
  /\ length \in 0 .. MaxCases
  /\ place = [r \in Reader |-> 0]
  /\ \/ held = {} /\ limit = [r \in Reader |-> 0]
     \/ \E r \in Reader, n \in {length, Unlimited} :
          held = {r} /\ limit = [q \in Reader |-> IF q = r THEN n ELSE 0]
  /\ failed = FALSE
  /\ reply = 0

(* A client that still writes the sequence holds no reader of it.          *)
Write ==
  /\ held = {}
  /\ length' = length + 1
  /\ UNCHANGED <<place, limit, held, failed, reply>>

Open(r) ==
  /\ held = {}
  /\ held' = {r}
  /\ limit' = [limit EXCEPT ![r] = length]
  /\ UNCHANGED <<length, place, failed, reply>>

Read(r) ==
  /\ r \in held
  /\ \/ /\ limit[r] > 0 /\ place[r] < length
        /\ place' = [place EXCEPT ![r] = @ + 1]
        /\ limit' = [limit EXCEPT ![r] = IF @ = Unlimited THEN @ ELSE @ - 1]
        /\ reply' = place[r] + 1
        /\ failed' = failed
     \/ /\ failed' \in {failed, TRUE}
        /\ limit[r] = 0 \/ place[r] = length \/ failed'
        /\ limit' = [limit EXCEPT ![r] = 0]
        /\ reply' = 0
        /\ UNCHANGED place
  /\ UNCHANGED <<length, held>>

Peek(r, idx) ==
  /\ r \in held
  /\ \/ /\ limit[r] > idx /\ place[r] + idx < length
        /\ reply' = place[r] + idx + 1
        /\ UNCHANGED <<limit, failed>>
     \/ /\ failed' \in {failed, TRUE}
        /\ limit[r] <= idx \/ place[r] + idx >= length \/ failed'
        /\ limit' \in {[limit EXCEPT ![r] = n] : n \in {0, idx, limit[r]}}
        /\ limit'[r] <= limit[r]
        /\ limit'[r] < limit[r] => failed' \/ place[r] + limit'[r] >= length
        /\ reply' = 0
  /\ UNCHANGED <<length, place, held>>

Clone(r, new) ==
  /\ r \in held /\ new \notin held
  /\ held' = held \cup {new}
  /\ place' = [place EXCEPT ![new] = place[r]]
  /\ limit' = [limit EXCEPT ![new] = limit[r]]
  /\ UNCHANGED <<length, failed, reply>>

(* Truncation to n cases; counting, when n is Unlimited.  On a reader of   *)
(* unknown length both find how many cases are left, or fewer on an error. *)
Truncate(r, n) ==
  /\ r \in held
  /\ IF limit[r] # Unlimited
       THEN limit' = [limit EXCEPT ![r] = IF @ > n THEN n ELSE @]
       ELSE \E m \in 0 .. length - place[r] :
              /\ m <= n
              /\ m = n \/ m = length - place[r] \/ failed
              /\ limit' = [limit EXCEPT ![r] = m]
  /\ UNCHANGED <<length, place, held, failed, reply>>

Fail ==
  /\ failed' = TRUE
  /\ UNCHANGED <<length, place, limit, held, reply>>

Destroy(r) ==
  /\ r \in held
  /\ held' = held \ {r}
  /\ place' = [place EXCEPT ![r] = 0]
  /\ limit' = [limit EXCEPT ![r] = 0]
  /\ UNCHANGED <<length, failed, reply>>

Next ==
  \/ Write
  \/ Fail
  \/ \E r \in Reader :
       \/ Open(r)
       \/ Read(r)
       \/ Destroy(r)
       \/ \E idx \in 0 .. MaxCases : Peek(r, idx)
       \/ \E new \in Reader : Clone(r, new)
       \/ \E n \in (0 .. MaxCases) \cup {Unlimited} : Truncate(r, n)

Spec == Init /\ [][Next]_vars
=============================================================================
