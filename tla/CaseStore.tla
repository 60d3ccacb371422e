----------------------------- MODULE CaseStore ------------------------------
(***************************************************************************)
(* A casewindow (src/data/casewindow.c): a queue of cases that lives in a  *)
(* deque until it grows past max_in_core_cases and in a temporary file     *)
(* (src/data/case-tmpfile.c over src/libpspp/ext-array.c) from then on.    *)
(*                                                                         *)
(* A window is a value; the operators below are the functions of the code  *)
(* and the modules that own a window (CaseWindow, CaseReader) keep it in *)
(* a variable.  A temporary file holds one case per slot.  I/O on it may   *)
(* fail: `good' says how many of the writes of a call succeed, `readable'  *)
(* whether a read does.  Once one has failed, ferror or feof stays set and *)
(* ext_array_error makes every later access fail: the file is broken.      *)
(***************************************************************************)
EXTENDS Naturals, Sequences

NoCase == 0     \* the null pointer; cases are positive numbers

casewindow_create(max_in_core) ==
  [class   |-> IF max_in_core > 0 THEN "memory" ELSE "file",
   max     |-> max_in_core,
   deque   |-> <<>>,                  \* memory: oldest case first
   slots   |-> <<>>,                  \* file: slot i is slots[i + 1]
   head    |-> 0,
   tail    |-> 0,
   broken  |-> FALSE,                 \* ext_array_error
   tainted |-> FALSE]

casewindow_get_n_cases(w) ==
  IF w.class = "memory" THEN Len(w.deque) ELSE w.head - w.tail

(* The cases in the window, oldest first.                                  *)
Contents(w) ==
  IF w.class = "memory" THEN w.deque ELSE SubSeq(w.slots, w.tail + 1, w.head)

-----------------------------------------------------------------------------
(* ext_array_write and ext_array_read: nothing works on a broken file.     *)
WriteOk(w, good) == ~w.broken /\ good > 0
ReadOk(w, readable) == ~w.broken /\ readable

(* case_tmpfile_put_case, when it succeeds, fills slot w.head; a failure   *)
(* is a return value only, no taint is set.                                *)
case_tmpfile_put_case(w, c) ==
  [w EXCEPT !.slots = SubSeq(@, 1, w.head) \o <<c>> \o SubSeq(@, w.head + 2, Len(@))]

file_push_head(w, c, good) ==
  IF WriteOk(w, good)
    THEN [case_tmpfile_put_case(w, c) EXCEPT !.head = @ + 1]
    ELSE [w EXCEPT !.broken = TRUE]

file_pop_tail(w, n) ==
  IF w.tail + n = w.head
    THEN [w EXCEPT !.head = 0, !.tail = 0]
    ELSE [w EXCEPT !.tail = @ + n]

(* casewindow_to_disk: the cases move to slots 0, 1, ... of a new file, in *)
(* order; those after the first failed write are dropped.                  *)
ToDiskReversed(w, good) ==   \* mutant: the deque is emptied from the wrong end
  [casewindow_create(0) EXCEPT
     !.slots = [i \in 1 .. Len(w.deque) |-> w.deque[Len(w.deque) + 1 - i]],
     !.head = Len(w.deque)]
casewindow_to_disk(w, good) ==
  LET n == IF good < Len(w.deque) THEN good ELSE Len(w.deque)
  IN  [casewindow_create(0) EXCEPT
         !.slots = SubSeq(w.deque, 1, n),
         !.head = n,
         !.broken = n < Len(w.deque),
         !.tainted = w.tainted]

PushUnbounded(w, c, good) ==   \* mutant: the limit is looked at before the push
  IF w.tainted THEN w
  ELSE IF w.class = "file" THEN file_push_head(w, c, good)
  ELSE IF Len(w.deque) > w.max
    THEN file_push_head(casewindow_to_disk(w, good), c, good)
    ELSE [w EXCEPT !.deque = Append(@, c)]
casewindow_push_head(w, c, good) ==
  IF w.tainted THEN w
  ELSE IF w.class = "file" THEN file_push_head(w, c, good)
  ELSE LET v == [w EXCEPT !.deque = Append(@, c)]
       IN  IF Len(v.deque) > v.max THEN casewindow_to_disk(v, good) ELSE v

casewindow_pop_tail(w, n) ==
  IF w.tainted THEN w
  ELSE IF w.class = "memory"
    THEN [w EXCEPT !.deque = SubSeq(@, n + 1, Len(@))]
    ELSE file_pop_tail(w, n)

(* The case idx places from the tail; NoCase on an I/O error or a taint.   *)
GetFromStart(w, idx, readable) ==   \* mutant: a file is read from slot 0
  IF w.tainted THEN NoCase
  ELSE IF w.class = "memory" THEN w.deque[idx + 1]
  ELSE IF ReadOk(w, readable) THEN w.slots[idx + 1]
  ELSE NoCase
casewindow_get_case(w, idx, readable) ==
  IF w.tainted THEN NoCase
  ELSE IF w.class = "memory" THEN w.deque[idx + 1]
  ELSE IF ReadOk(w, readable) THEN w.slots[w.tail + idx + 1]
  ELSE NoCase

(* What reading leaves behind: a failed read breaks the file.              *)
AfterGet(w, readable) ==
  IF w.class = "file" /\ ~w.tainted /\ ~readable
    THEN [w EXCEPT !.broken = TRUE]
    ELSE w
=============================================================================
