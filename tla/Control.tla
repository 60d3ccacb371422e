------------------------------ MODULE Control -------------------------------
(* DO IF (do-if.c), LOOP and BREAK (loop.c), and END CASE, END FILE and    *)
(* the reader of INPUT PROGRAM (inpt-pgm.c). A transformation returns when *)
(* it has nothing to do or when a case is complete; asked for another case *)
(* it is executed again from the outside and must find its place by what   *)
(* it kept. What conditions yield is chosen freely; a condition that is    *)
(* not there always holds. A chain of transformations is a block, its      *)
(* place in a block names a transformation.                                *)
EXTENDS Integers, Sequences

CONSTANTS
  Programs,             \* [mode : {"input", "data"}, blocks : sequences of statements]
  Clauses,              \* of LOOP: first, by and last value of the index
  MXLOOPS,              \* the setting of that name
  Modulus,              \* COMPUTE n = MOD (n + 1, Modulus), with LEAVE n
  SYSMIS,               \* the least finite number (val-type.h)
  Exact,                \* increments beyond this magnitude are lost in rounding
  NULL

ExactNumbers == - Exact .. Exact
Numbers == {SYSMIS} \cup ExactNumbers

(* The last value of an index and the one that ends it are still exact.    *)
ASSUME ControlAssumption ==
  /\ MXLOOPS \in Nat /\ Modulus \in Nat \ {0}
  /\ Exact \in Nat /\ SYSMIS \in Int /\ SYSMIS < - Exact
  /\ Clauses \subseteq [first : Numbers, by : Numbers, last : Numbers]
  /\ \A k \in Clauses : SYSMIS \notin {k.by, k.last} => k.last + k.by \in ExactNumbers
  /\ NULL \notin Nat \cup BOOLEAN \cup (Nat \X Nat)

Statements ==
  [op : {"count", "break", "data_list", "end_file", "fail", "select_if", "end_case"}]
  \cup [op : {"do_if"}, clauses : Seq(Nat)]
  \cup [op : {"loop"}, body : Nat, index : BOOLEAN, cond : BOOLEAN]

(* The blocks inside of a statement.                                       *)
Inside(st) ==
  CASE st.op = "loop" -> {st.body}
    [] st.op = "do_if" -> {st.clauses[k] : k \in DOMAIN st.clauses}
    [] OTHER -> {}

(* Structures are nested, so that a block has a higher number than the one *)
(* around it. Some commands are refused inside of INPUT PROGRAM and some   *)
(* outside of it (command.def).                                            *)
Parsed(p) ==
  /\ p \in [mode : {"input", "data"}, blocks : Seq(Seq(Statements))]
  /\ p.blocks # <<>>
  /\ \A b \in DOMAIN p.blocks : \A k \in DOMAIN p.blocks[b] :
       /\ Inside(p.blocks[b][k]) \subseteq {d \in DOMAIN p.blocks : d > b}
       /\ p.blocks[b][k].op = "end_case" => p.mode = "input"
       /\ p.blocks[b][k].op \in {"data_list", "end_file"} => p.mode = "input"
       /\ p.blocks[b][k].op = "select_if" => p.mode = "data"

Nodes(p) == UNION {{b} \X DOMAIN p.blocks[b] : b \in DOMAIN p.blocks}
Has(p, ops) == \E nd \in Nodes(p) : p.blocks[nd[1]][nd[2]].op \in ops

(* An input program without DATA LIST and END FILE is refused.             *)
HasSource(p) == p.mode = "input" => Has(p, {"data_list", "end_file"})

ASSUME ProgramsAssumption == \A p \in Programs : Parsed(p) /\ HasSource(p)

VARIABLES
  program,              \* parsed once
  stack,                \* executions in progress, innermost last: block, place
  result,               \* what the innermost one returns; "continue" while it runs
  saved,                \* resume, ofs and resume_idx of each transformation
  loops,                \* state of each LOOP: cur, by, last, iteration
  idx, eof,             \* of struct input_program_pgm; eof also for a procedure's ok
  c,                    \* the case: the index of loops and the left variable
  left,                 \* its left_values
  out,                  \* the last case returned
  total,                \* how often COMPUTE was executed (modulo Modulus)
  failed                \* NOT_REACHED has been reached

vars == <<program, stack, result, saved, loops, idx, eof, c, left, out, total, failed>>

Block(b) == program.blocks[b]
Fresh(n) == [i |-> SYSMIS, n |-> n]

(* END INPUT PROGRAM adds END CASE if there was none.                      *)
cmd_input_program(p) ==
  IF p.mode = "data" \/ Has(p, {"end_case"}) THEN p
  ELSE [p EXCEPT !.blocks[1] = Append(@, [op |-> "end_case"])]

Init ==
  /\ \E p \in Programs : program = cmd_input_program(p)
  /\ stack = <<>> /\ result = "continue"
  /\ saved = [nd \in Nodes(program) |-> NULL]
  /\ loops = [nd \in Nodes(program) |-> NULL]
  /\ idx = 1 /\ eof = FALSE
  /\ left = 0 /\ c = Fresh(0) /\ out = Fresh(0)
  /\ total = 0 /\ failed = FALSE

-----------------------------------------------------------------------------
(* The innermost execution, its transformation, and the one it belongs to. *)
top == stack[Len(stack)]
here == <<top.block, top.at>>
Outer == SubSeq(stack, 1, Len(stack) - 1)
owner == LET f == stack[Len(stack) - 1] IN <<f.block, f.at>>
Op(nd) == Block(nd[1])[nd[2]].op

Running == stack # <<>> /\ result = "continue" /\ ~ failed
Execute(op) == Running /\ top.at <= Len(Block(top.block)) /\ Op(here) = op
Finished == Running /\ top.at > Len(Block(top.block))
Returns == stack # <<>> /\ result # "continue" /\ ~ failed

Onward(s) == [s EXCEPT ![Len(s)].at = @ + 1]
Enter(s, b, at) == Append(s, [block |-> b, at |-> at])

case_state == <<c, left, out, total>>
program_state == <<program, idx, eof, failed>>

-----------------------------------------------------------------------------
(* Statements.                                                             *)
Compute ==
  /\ Execute("count")
  /\ c' = [c EXCEPT !.n = (@ + 1) % Modulus]
  /\ total' = (total + 1) % Modulus
  /\ stack' = Onward(stack)
  /\ UNCHANGED <<program_state, result, saved, loops, left, out>>

(* BREAK, END FILE and a transformation that fails.                        *)
Return ==
  /\ \/ Execute("break") /\ result' = "break"
     \/ Execute("end_file") /\ result' = "end_file"
     \/ Execute("fail") /\ result' = "error"
  /\ UNCHANGED <<program_state, case_state, stack, saved, loops>>

(* A record is read, or there is none: the end of the file, or an error.   *)
data_list_trns_proc ==
  /\ Execute("data_list")
  /\ \/ stack' = Onward(stack) /\ UNCHANGED result
     \/ result' \in {"end_file", "error"} /\ UNCHANGED stack
  /\ UNCHANGED <<program_state, case_state, saved, loops>>

SelectIf ==
  /\ Execute("select_if")
  /\ \/ result' = "drop" /\ UNCHANGED stack
     \/ stack' = Onward(stack) /\ UNCHANGED result
  /\ UNCHANGED <<program_state, case_state, saved, loops>>

(* It ends the case the first time, and continues when it is resumed.      *)
end_case_trns_proc ==
  /\ Execute("end_case")
  /\ IF saved[here] = NULL
     THEN saved' = [saved EXCEPT ![here] = TRUE] /\ result' = "end_case" /\ UNCHANGED stack
     ELSE saved' = [saved EXCEPT ![here] = NULL] /\ stack' = Onward(stack) /\ UNCHANGED result
  /\ UNCHANGED <<program_state, case_state, loops>>

-----------------------------------------------------------------------------
(* DO IF.                                                                  *)
DoIfResumesAgain ==     \* mutant: the clause to resume in is not forgotten
  /\ Execute("do_if") /\ saved[here] # NULL
  /\ stack' = Enter(stack, saved[here][1], saved[here][2])
  /\ UNCHANGED <<program_state, case_state, result, saved, loops>>

DoIfResumes ==
  /\ Execute("do_if") /\ saved[here] # NULL
  /\ stack' = Enter(stack, saved[here][1], saved[here][2])
  /\ saved' = [saved EXCEPT ![here] = NULL]
  /\ UNCHANGED <<program_state, case_state, result, loops>>

(* A clause is chosen, or none: all are false, or one was missing.         *)
do_if_find_clause ==
  /\ Execute("do_if") /\ saved[here] = NULL
  /\ \/ \E k \in DOMAIN Block(top.block)[top.at].clauses :
          stack' = Enter(stack, Block(top.block)[top.at].clauses[k], 1)
     \/ stack' = Onward(stack)
  /\ UNCHANGED <<program_state, case_state, result, saved, loops>>

ClauseEnds ==
  /\ Finished /\ Len(stack) > 1 /\ Op(owner) = "do_if"
  /\ stack' = Onward(Outer)
  /\ UNCHANGED <<program_state, case_state, result, saved, loops>>

ClauseReturns ==
  /\ Returns /\ Len(stack) > 1 /\ Op(owner) = "do_if"
  /\ saved' = IF result = "end_case" THEN [saved EXCEPT ![owner] = here] ELSE saved
  /\ stack' = Outer
  /\ UNCHANGED <<program_state, case_state, result, loops>>

-----------------------------------------------------------------------------
(* LOOP.                                                                   *)
Loop(nd) == Block(nd[1])[nd[2]]

LoopResumes ==
  /\ Execute("loop") /\ saved[here] # NULL
  /\ stack' = Enter(stack, Loop(here).body, saved[here])
  /\ saved' = [saved EXCEPT ![here] = NULL]
  /\ UNCHANGED <<program_state, case_state, result, loops>>

(* A missing value is a finite number, isfinite throws none out: an        *)
(* expression whose value is not finite is missing (expr_evaluate_num).    *)
Pathological(k) ==
  \/ k.by = 0
  \/ k.by > 0 /\ k.first > k.last
  \/ k.by < 0 /\ k.first < k.last

MayIterate(nd, n) == Loop(nd).index \/ n < MXLOOPS

(* The LOOP nd, whose chain s executes, begins its pass n if its condition *)
(* holds, or is left. (cond: it has one, and so has END LOOP.)             *)
Iterate(nd, s, state, n) ==
  \/ /\ MayIterate(nd, n)
     /\ stack' = Enter(s, Loop(nd).body, 1)
     /\ loops' = [loops EXCEPT ![nd] = [state EXCEPT !.iteration = n]]
  \/ /\ Loop(nd).cond \/ ~ MayIterate(nd, n)
     /\ stack' = Onward(s)
     /\ loops' = [loops EXCEPT ![nd] = NULL]

Unindexed == [cur |-> 0, by |-> 0, last |-> 0, iteration |-> 0]
Indexed(k) == [cur |-> k.first, by |-> k.by, last |-> k.last, iteration |-> 0]

LoopBegins ==
  /\ Execute("loop") /\ saved[here] = NULL
  /\ IF Loop(here).index
     THEN \E k \in Clauses :
            /\ c' = [c EXCEPT !.i = k.first]
            /\ IF Pathological(k) THEN stack' = Onward(stack) /\ UNCHANGED loops
               ELSE Iterate(here, stack, Indexed(k), 0)
     ELSE Iterate(here, stack, Unindexed, 0) /\ UNCHANGED c
  /\ UNCHANGED <<program_state, result, saved, left, out, total>>

(* Floating point: two missing values give minus infinity, to a single one *)
(* nothing can be added, and little to a large number.                     *)
Plus(x, y) ==
  CASE x = SYSMIS /\ y = SYSMIS -> SYSMIS - 1
    [] (x = SYSMIS) # (y = SYSMIS) -> SYSMIS
    [] SYSMIS \notin {x, y} -> IF x + y \in ExactNumbers THEN x + y ELSE x

BeyondAtLast(l) ==      \* mutant: the last value of the index is left out
  LET next == Plus(l.cur, l.by) IN IF l.by > 0 THEN next >= l.last ELSE next <= l.last

Beyond(l) ==
  LET next == Plus(l.cur, l.by) IN IF l.by > 0 THEN next > l.last ELSE next < l.last

(* The condition of END LOOP holds, or the index has passed its end.       *)
LoopEnds ==
  /\ Finished /\ Len(stack) > 1 /\ Op(owner) = "loop"
  /\ Loop(owner).cond \/ (Loop(owner).index /\ Beyond(loops[owner]))
  /\ stack' = Onward(Outer)
  /\ loops' = [loops EXCEPT ![owner] = NULL]
  /\ UNCHANGED <<program_state, case_state, result, saved>>

IterateSame(l) ==       \* mutant: the number of the pass stays
  Iterate(owner, Outer, l, l.iteration)

IterateNext(l) == Iterate(owner, Outer, l, l.iteration + 1)

(* With an index the number of the pass is not looked at and stays 0.      *)
LoopRepeats ==
  /\ Finished /\ Len(stack) > 1 /\ Op(owner) = "loop"
  /\ LET l == loops[owner] IN
     IF Loop(owner).index
     THEN /\ ~ Beyond(l)
          /\ c' = [c EXCEPT !.i = Plus(l.cur, l.by)]
          /\ Iterate(owner, Outer, [l EXCEPT !.cur = Plus(@, l.by)], 0)
     ELSE IterateNext(l) /\ UNCHANGED c
  /\ UNCHANGED <<program_state, result, saved, left, out, total>>

BodyReturns ==
  /\ Returns /\ Len(stack) > 1 /\ Op(owner) = "loop"
  /\ CASE result = "break" ->
            /\ stack' = Onward(Outer) /\ result' = "continue"
            /\ loops' = [loops EXCEPT ![owner] = NULL]
            /\ UNCHANGED <<saved, failed>>
       [] result = "end_case" ->
            /\ stack' = Outer
            /\ saved' = [saved EXCEPT ![owner] = top.at]
            /\ UNCHANGED <<result, loops, failed>>
       [] result = "drop" ->
            failed' = TRUE /\ UNCHANGED <<stack, result, saved, loops>>
       [] OTHER ->
            stack' = Outer /\ UNCHANGED <<result, saved, loops, failed>>
  /\ UNCHANGED <<program, idx, eof, case_state>>

-----------------------------------------------------------------------------
(* The reader of an input program.                                         *)
Idle == stack = <<>> /\ ~ eof /\ ~ failed

ReadCase ==
  /\ Idle /\ program.mode = "input"
  /\ c' = Fresh(left)
  /\ stack' = Enter(<<>>, 1, idx)
  /\ UNCHANGED <<program_state, result, saved, loops, left, out, total>>

Wrap ==
  /\ Finished /\ Len(stack) = 1 /\ program.mode = "input"
  /\ left' = c.n
  /\ c' = Fresh(c.n)
  /\ stack' = Enter(<<>>, 1, 1)
  /\ UNCHANGED <<program_state, result, saved, loops, out, total>>

CaseComes ==
  /\ Returns /\ Len(stack) = 1 /\ program.mode = "input" /\ result = "end_case"
  /\ idx' = top.at
  /\ out' = c
  /\ stack' = <<>> /\ result' = "continue"
  /\ UNCHANGED <<program, eof, failed, saved, loops, c, left, total>>

InputEnds ==
  /\ Returns /\ Len(stack) = 1 /\ program.mode = "input"
  /\ result \in {"end_file", "error"}
  /\ eof' = TRUE
  /\ stack' = <<>> /\ result' = "continue"
  /\ UNCHANGED <<program, idx, failed, saved, loops, case_state>>

-----------------------------------------------------------------------------
(* The reader of a procedure, dataset.c, over the permanent chain. After a *)
(* case that is dropped it begins another one by itself.                   *)
BeginCase ==
  /\ Idle /\ program.mode = "data"
  /\ c' = Fresh(left)
  /\ stack' = Enter(<<>>, 1, 1)
  /\ UNCHANGED <<program_state, result, saved, loops, left, out, total>>

CaseDoneUnsaved ==      \* mutant: left values are not saved
  /\ Finished /\ Len(stack) = 1 /\ program.mode = "data"
  /\ out' = c /\ stack' = <<>>
  /\ UNCHANGED <<program_state, result, saved, loops, c, left, total>>

CaseDone ==
  /\ Finished /\ Len(stack) = 1 /\ program.mode = "data"
  /\ left' = c.n /\ out' = c
  /\ stack' = <<>>
  /\ UNCHANGED <<program_state, result, saved, loops, c, total>>

CaseDropped ==
  /\ Returns /\ Len(stack) = 1 /\ program.mode = "data"
  /\ left' = c.n
  /\ eof' = (result = "error")
  /\ stack' = <<>> /\ result' = "continue"
  /\ UNCHANGED <<program, idx, failed, saved, loops, c, out, total>>

-----------------------------------------------------------------------------
(* A step of the chain that executes.                                      *)
Step ==
  \/ Compute \/ Return \/ data_list_trns_proc \/ SelectIf \/ end_case_trns_proc
  \/ DoIfResumes \/ do_if_find_clause \/ ClauseEnds \/ ClauseReturns
  \/ LoopResumes \/ LoopBegins \/ LoopEnds \/ LoopRepeats \/ BodyReturns
  \/ Wrap \/ CaseComes \/ InputEnds \/ CaseDone \/ CaseDropped

Next == ReadCase \/ BeginCase \/ Step

(* A call that has begun goes on by itself.                                *)
Spec == Init /\ [][Next]_vars /\ WF_vars(Step)

-----------------------------------------------------------------------------
(* Properties.                                                             *)
(* Where the transformation nd resumes.                                    *)
ResumesAt(nd) == IF Op(nd) = "loop" THEN <<Loop(nd).body, saved[nd]>> ELSE saved[nd]

(* Between two cases the places that were kept lead from the reader's own  *)
(* to the END CASE that ended the last one, and nowhere else. A place that *)
(* is left over would make a later case skip a condition (resume in        *)
(* do_if_trns_proc, resume_idx in loop_trns_proc, the flag of END CASE).   *)
OneWayBack ==
  stack = <<>> =>
    \A nd \in Nodes(program) : saved[nd] # NULL =>
      /\ \/ nd = <<1, idx>>
         \/ \E p \in Nodes(program) :
              Op(p) \in {"loop", "do_if"} /\ saved[p] # NULL /\ ResumesAt(p) = nd
      /\ Op(nd) \in {"loop", "do_if"} => saved[ResumesAt(nd)] # NULL

(* A left variable that counts has the running total, as the manual says   *)
(* of LEAVE.                                                               *)
RunningTotal == stack # <<>> => c.n = total

(* In a procedure it does (caseinit_save_left_vars at every case).         *)
TotalInProcedures == program.mode = "data" => RunningTotal

(* A LOOP in progress counts from or to a missing value by one that is not *)
(* missing.                                                                *)
CountsWithoutEnd ==
  \E k \in 1 .. Len(stack) - 1 :
    LET nd == <<stack[k].block, stack[k].at>> IN
    /\ Op(nd) = "loop" /\ Loop(nd).index
    /\ loops[nd].by # SYSMIS /\ SYSMIS \in {loops[nd].cur, loops[nd].last}

(* A transformation chain ends, whatever its conditions yield: by MXLOOPS  *)
(* or by the index of each loop (loop_trns_proc), unless an index counts   *)
(* from or to a missing value. (An input program need not end: it starts   *)
(* from the top until a case is complete.)                                 *)
CasesEnd ==
  (program.mode = "data" /\ stack # <<>>) ~> (stack = <<>> \/ failed \/ CountsWithoutEnd)
=============================================================================
