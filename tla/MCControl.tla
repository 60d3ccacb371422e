----------------------------- MODULE MCControl ------------------------------
(* Control on small programs, and its refinement of ControlSpec. A program *)
(* has one control structure in another, statements in the inner one, and  *)
(* a statement behind each or behind none; of two loops both have a        *)
(* condition or none does. An input program without END FILE begins with   *)
(* DATA LIST.                                                              *)
EXTENDS Control

Small(op) == [op |-> op]
DoIf(b) == [op |-> "do_if", clauses |-> b]
Loops == {[op |-> "loop", body |-> b, index |-> x, cond |-> y] :
            b \in {2, 3}, x \in BOOLEAN, y \in BOOLEAN}

(* The outer structure has block 2, the inner one 3, and 4 if it has ELSE. *)
Structures(b) ==
  {DoIf(<<b>>)} \cup {l \in Loops : l.body = b} \cup (IF b = 3 THEN {DoIf(<<3, 4>>)} ELSE {})

Leaves(mode) ==
  {Small("count"), Small("break")} \cup
  (IF mode = "input" THEN {Small("end_case"), Small("end_file")}
                     ELSE {Small("select_if"), Small("fail")})

(* What another statement can come behind.                                 *)
Passed(mode) == {x \in Leaves(mode) : x.op \notin {"break", "end_file", "fail"}}

Tails(mode) == {<<>>, <<Small(IF mode = "input" THEN "end_case" ELSE "count")>>}

Uses(body, op) == \E k \in DOMAIN body : body[k].op = op

Opening(mode, body) ==
  IF mode = "input" /\ ~ Uses(body, "end_file") THEN <<Small("data_list")>> ELSE <<>>

AllPrograms ==
  UNION {
    {[mode |-> mode,
      blocks |-> <<Opening(mode, body) \o <<outer>> \o t, <<inner>> \o t, body,
                   <<Small("count")>>>>] :
        outer \in Structures(2), inner \in Structures(3),
        t \in Tails(mode),
        body \in {<<x>> : x \in Leaves(mode)} \cup (Passed(mode) \X Leaves(mode))} :
    mode \in {"input", "data"}}

(* BREAK is refused outside LOOP (cmd_break).                              *)
Accepted(p) ==
  Uses(p.blocks[3], "break") => Uses(p.blocks[1], "loop") \/ Uses(p.blocks[2], "loop")

Alike(p) ==
  \A j \in DOMAIN p.blocks[1], k \in DOMAIN p.blocks[2] :
    LET outer == p.blocks[1][j]
        inner == p.blocks[2][k]
    IN outer.op = "loop" /\ inner.op = "loop" => outer.cond = inner.cond

MCPrograms == {p \in AllPrograms : Accepted(p) /\ Alike(p)}

MCSysmis == -5

MCClauses ==
  {[first |-> 0, by |-> 1, last |-> 1], [first |-> 1, by |-> -1, last |-> 0],
   [first |-> 0, by |-> 0, last |-> 1], [first |-> 0, by |-> 1, last |-> -1],
   [first |-> 0, by |-> SYSMIS, last |-> 1], [first |-> 1, by |-> SYSMIS, last |-> SYSMIS],
   [first |-> SYSMIS, by |-> 1, last |-> 1], [first |-> 0, by |-> -2, last |-> SYSMIS]}

-----------------------------------------------------------------------------
(* What a count that has come to k.first has before it.                    *)
Pure == INSTANCE ControlSpec WITH cont <- <<>>, running <- FALSE, over <- FALSE
Remaining ==
  [k \in [first : Numbers, by : Numbers, last : Numbers] |->
     IF Pure!Values(k) = <<>> THEN NULL ELSE Pure!Onwards(Pure!Count(k))]

(* The statements that a LOOP still has to execute behind its body.        *)
Passes(nd) ==
  LET l == loops[nd] IN
  [op |-> "again", body |-> Loop(nd).body, index |-> Loop(nd).index, cond |-> Loop(nd).cond,
   rest |-> IF Loop(nd).index THEN Remaining[[first |-> l.cur, by |-> l.by, last |-> l.last]]
            ELSE MXLOOPS - 1 - l.iteration]

Behind(b, at) == SubSeq(Block(b), at + 1, Len(Block(b)))

(* What follows at a place of a block, if it is executed as it is now.     *)
RECURSIVE From(_, _)
From(b, at) ==
  LET nd == <<b, at>> IN
  IF at > Len(Block(b)) THEN <<>>
  ELSE IF saved[nd] = NULL THEN SubSeq(Block(b), at, Len(Block(b)))
  ELSE CASE Op(nd) = "end_case" -> Behind(b, at)
         [] Op(nd) = "do_if" -> From(saved[nd][1], saved[nd][2]) \o Behind(b, at)
         [] Op(nd) = "loop" -> From(Loop(nd).body, saved[nd]) \o <<Passes(nd)>> \o Behind(b, at)

(* What follows behind the innermost execution of the stack s.             *)
RECURSIVE After(_)
After(s) ==
  IF Len(s) = 1 THEN <<>>
  ELSE LET f == s[Len(s) - 1]
           nd == <<f.block, f.at>>
       IN (IF Op(nd) = "loop" THEN <<Passes(nd)>> ELSE <<>>)
          \o Behind(f.block, f.at) \o After(SubSeq(s, 1, Len(s) - 1))

(* And what follows behind the innermost loop of it.                       *)
RECURSIVE AfterLoop(_)
AfterLoop(s) ==
  LET f == s[Len(s) - 1]
      rest == SubSeq(s, 1, Len(s) - 1)
  IN IF Op(<<f.block, f.at>>) = "loop" THEN Behind(f.block, f.at) \o After(rest)
     ELSE AfterLoop(rest)

Continuation ==
  IF eof \/ result \in {"end_file", "error", "drop"} THEN <<>>
  ELSE IF stack = <<>> THEN IF program.mode = "input" THEN From(1, idx) ELSE <<>>
  ELSE IF result = "break" THEN AfterLoop(stack)
  ELSE From(top.block, top.at) \o After(stack)

Owners(s) == {<<s[k].block, s[k].at>> : k \in 1 .. Len(s) - 1}
Aborts == failed \/ (result = "drop" /\ \E nd \in Owners(stack) : Op(nd) = "loop")

Abstract == INSTANCE ControlSpec WITH
  Programs <- {cmd_input_program(p) : p \in Programs},
  cont     <- Continuation,
  running  <- stack # <<>> /\ result \in {"continue", "break"},
  over     <- eof \/ result \in {"end_file", "error"},
  out      <- IF result = "end_case" THEN c ELSE out,
  failed   <- Aborts,
  left     <- IF program.mode = "data" /\ result \in {"drop", "error"} /\ ~ Aborts
              THEN c.n ELSE left

(* Flags, offsets and chains within chains, entered again from the outside *)
(* for every case, do what a program does that is just left off and        *)
(* continued: statements in order, loops with the values they count to.    *)
IsControl == Abstract!Spec
=============================================================================
