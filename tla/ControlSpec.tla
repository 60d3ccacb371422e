---------------------------- MODULE ControlSpec -----------------------------
(* What DO IF, LOOP, BREAK and SELECT IF do to a case, and END CASE and    *)
(* END FILE in an input program, as flow-control.texi and data-io.texi     *)
(* have it: the statements still to be executed are a sequence. END CASE   *)
(* takes a case out of it and goes on behind itself when the next case is  *)
(* asked for.                                                              *)
EXTENDS Integers, Sequences

CONSTANTS
  Programs, Clauses, MXLOOPS, Modulus,
  SYSMIS, Exact         \* the least number, the greatest that counting reaches

VARIABLES
  program,              \* the statements, in blocks, of a program of some mode
  cont,                 \* the statements still to be executed
  running,              \* whether a case is being asked for
  over,                 \* no case will ever come again
  failed,               \* the program was aborted
  c,                    \* the case
  left,                 \* the value that the left variable has in a new case
  out                   \* the last case that was given

vars == <<program, cont, running, over, failed, c, left, out>>

Block(b) == program.blocks[b]
Fresh(n) == [i |-> SYSMIS, n |-> n]

Init ==
  /\ program \in Programs
  /\ cont = IF program.mode = "input" THEN Block(1) ELSE <<>>
  /\ running = FALSE /\ over = FALSE /\ failed = FALSE
  /\ left = 0 /\ c = Fresh(0) /\ out = Fresh(0)

Counted(first, by, last) ==
  LET n == IF by > 0 THEN (last - first) \div by ELSE (first - last) \div (- by)
  IN [k \in 1 .. n + 1 |-> first + (k - 1) * by]

(* The values that an index takes. It has none if it cannot reach the end. *)
(* A missing value is less than any number: nothing that is added to it    *)
(* changes it, and whatever it is added to becomes missing.                *)
Values(clause) ==
  LET first == clause.first
      by == clause.by
      last == clause.last
  IN CASE by = 0 \/ (by > 0 /\ first > last) \/ (by < 0 /\ first < last) -> <<>>
       [] by # 0 /\ first = SYSMIS -> IF by > 0 \/ last = SYSMIS THEN <<SYSMIS>> ELSE <<>>
       [] by = SYSMIS /\ first >= last /\ first # SYSMIS ->
            IF last = SYSMIS THEN <<first, SYSMIS>> ELSE <<first>>
       [] OTHER -> Counted(first, by, IF last = SYSMIS THEN - Exact ELSE last)

(* It takes the last of them again and again if it counts from or to a     *)
(* missing value.                                                          *)
Endless(clause) ==
  Values(clause) # <<>> /\ clause.by # SYSMIS /\ SYSMIS \in {clause.first, clause.last}

Count(clause) == [values |-> Values(clause), endless |-> Endless(clause)]
Counts == [clause \in Clauses |-> Count(clause)]

(* What is left of the count r behind its first value.                     *)
Onwards(r) ==
  IF r.endless /\ Len(r.values) = 1 THEN r ELSE [r EXCEPT !.values = Tail(@)]

-----------------------------------------------------------------------------
Ask ==
  /\ ~ running /\ ~ over /\ ~ failed
  /\ running' = TRUE
  /\ c' = Fresh(left)
  /\ cont' = IF program.mode = "data" THEN Block(1) ELSE cont
  /\ UNCHANGED <<program, over, failed, left, out>>

(* The statement st at the head of cont is executed, then come the others. *)
Go(next) ==
  cont' = next \o Tail(cont) /\ UNCHANGED <<program, running, over, failed, left, out>>

Compute(st) == st.op = "count" /\ c' = [c EXCEPT !.n = (@ + 1) % Modulus] /\ Go(<<>>)

DoIf(st) ==
  /\ st.op = "do_if"
  /\ \/ \E k \in DOMAIN st.clauses : Go(Block(st.clauses[k]))
     \/ Go(<<>>)
  /\ UNCHANGED c

(* A pass of a loop, if its condition allows it, with the passes after it. *)
Again(loop, rest) ==
  [op |-> "again", body |-> loop.body, index |-> loop.index, cond |-> loop.cond, rest |-> rest]

Pass(loop, rest) ==
  Go(Block(loop.body) \o <<Again(loop, rest)>>) \/ (loop.cond /\ Go(<<>>))

IndexLoop(st) ==
  /\ st.op = "loop" /\ st.index
  /\ \E clause \in Clauses :
       /\ c' = [c EXCEPT !.i = clause.first]
       /\ IF Counts[clause].values = <<>> THEN Go(<<>>) ELSE Pass(st, Onwards(Counts[clause]))

PlainLoop(st) ==
  /\ st.op = "loop" /\ ~ st.index
  /\ IF MXLOOPS = 0 THEN Go(<<>>) ELSE Pass(st, MXLOOPS - 1)
  /\ UNCHANGED c

IndexAgain(st) ==
  /\ st.op = "again" /\ st.index
  /\ \/ (st.cond \/ st.rest.values = <<>>) /\ Go(<<>>) /\ UNCHANGED c
     \/ /\ st.rest.values # <<>>
        /\ c' = [c EXCEPT !.i = Head(st.rest.values)]
        /\ Pass(st, Onwards(st.rest))

PlainAgain(st) ==
  /\ st.op = "again" /\ ~ st.index
  /\ \/ (st.cond \/ st.rest = 0) /\ Go(<<>>)
     \/ st.rest > 0 /\ Pass(st, st.rest - 1)
  /\ UNCHANGED c

(* BREAK goes on behind the innermost loop.                                *)
Break(st) ==
  /\ st.op = "break"
  /\ \E k \in DOMAIN cont :
       /\ cont[k].op = "again"
       /\ \A j \in 1 .. k - 1 : cont[j].op # "again"
       /\ cont' = SubSeq(cont, k + 1, Len(cont))
  /\ UNCHANGED <<program, running, over, failed, c, left, out>>

EndCase(st) ==
  /\ st.op = "end_case"
  /\ out' = c /\ running' = FALSE /\ cont' = Tail(cont)
  /\ UNCHANGED <<program, over, failed, c, left>>

InLoop == \E k \in DOMAIN cont : cont[k].op = "again"

(* Nothing can be dropped out of a loop: the program is aborted.           *)
SelectIf(st) ==
  /\ st.op = "select_if"
  /\ \/ Go(<<>>) /\ UNCHANGED c
     \/ /\ running' = FALSE /\ cont' = <<>>
        /\ failed' = InLoop
        /\ left' = IF InLoop THEN left ELSE c.n
        /\ UNCHANGED <<program, over, c, out>>

DataList(st) == st.op = "data_list" /\ Go(<<>>) /\ UNCHANGED c

End(st) ==
  /\ st.op \in {"end_file", "fail", "data_list"}
  /\ running' = FALSE /\ over' = TRUE /\ cont' = <<>>
  /\ left' = IF program.mode = "data" THEN c.n ELSE left
  /\ UNCHANGED <<program, failed, c, out>>

Statement(st) ==
  \/ Compute(st) \/ DoIf(st) \/ IndexLoop(st) \/ PlainLoop(st) \/ IndexAgain(st) \/ PlainAgain(st)
  \/ Break(st) \/ EndCase(st) \/ SelectIf(st) \/ DataList(st) \/ End(st)

(* An input program starts again from the top; in a procedure the case is  *)
(* done.                                                                   *)
Bottom ==
  /\ running /\ cont = <<>>
  /\ left' = c.n
  /\ IF program.mode = "input"
     THEN cont' = Block(1) /\ c' = Fresh(c.n) /\ UNCHANGED <<running, out>>
     ELSE running' = FALSE /\ out' = c /\ UNCHANGED <<cont, c>>
  /\ UNCHANGED <<program, over, failed>>

Next ==
  \/ Ask \/ Bottom
  \/ running /\ cont # <<>> /\ Statement(Head(cont))

Spec == Init /\ [][Next]_vars
=============================================================================
