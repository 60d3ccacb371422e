------------------------------ MODULE Dataset ------------------------------
(***************************************************************************)
(* A dataset and the procedures that read it: src/data/dataset.c with the  *)
(* transformation chains of transformations.c.                             *)
(*                                                                         *)
(* Commands queue transformations.  A procedure opens the dataset, reads   *)
(* as many cases as it likes and closes its reader; every case read from   *)
(* the source goes through the permanent transformations into the sink,    *)
(* through the temporary ones to the procedure, and the commit makes the   *)
(* sink the new source.  `ds' is struct dataset, and every function of     *)
(* dataset.c that changes it is an operator from datasets to datasets.     *)
(*                                                                         *)
(* A case is a function from the names of its variables: "x" identifies    *)
(* it, the others are computed, and 0 is the system-missing value.         *)
(***************************************************************************)
EXTENDS Integers, Sequences, SequencesExt

CONSTANTS
  NULL,        \* the null pointer
  Commands,    \* the commands that a session may use
  NCases,      \* the length of the data that GET reads
  Unselected,  \* the cases that SELECT IF drops
  Filtered,    \* the cases that the filter variable drops
  Failing,     \* the cases that the failing transformation cannot digest
  Limits,      \* the arguments of N OF CASES
  MaxLag,      \* the largest argument of LAG
  MaxTrns      \* how many transformations may be pending

Names == {"x", "num", "lag", "order"}
Case == UNION {[names -> 0..NCases] : names \in SUBSET Names}
Dict == [vars : SUBSET Names, unknown : BOOLEAN, limit : Limits \cup {0}, filter : BOOLEAN]
Source == [cases : Seq(Case), fails : BOOLEAN, tainted : BOOLEAN]
Sink == [cases : Seq(Case), vars : SUBSET Names]

ASSUME DatasetAssumption ==
  /\ NCases \in Nat /\ MaxTrns \in Nat /\ MaxLag \in Nat
  /\ Unselected \cup Filtered \cup Failing \subseteq 1..NCases
  /\ Limits \subseteq Nat \ {0}
  /\ NULL \notin Dict \cup Source \cup Sink

VARIABLES
  ds,         \* the dataset
  command,    \* the procedure in progress, or "none"
  reading,    \* is a case being read, "procedure" or "drain", or "no"?
  delivered,  \* the cases that the last procedure's reader returned
  begun,      \* `ds' and `delivered' when that procedure's command started
  aborts,     \* the assertions that have failed
  asked       \* the limit that N OF CASES last set for good; 0 if none

vars == <<ds, command, reading, delivered, begun, aborts, asked>>

EmptyDict == [vars |-> {}, unknown |-> FALSE, limit |-> 0, filter |-> FALSE]

(* kind is the transformation's class, n its argument or counter, seen the *)
(* cases that a measurement level guess has looked at.                     *)
Trns(kind, n) == [kind |-> kind, n |-> n, seen |-> <<>>]

Written(lag, n) == IF n <= Len(lag) THEN lag[n]["x"] ELSE 0

---------------------------------------------------------------------------
(* Executing transformations.  What a transformation makes of a case       *)
(* depends on its "x", which none of them changes.                         *)

Result(t, c) ==
  CASE t.kind = "select" /\ c["x"] \in Unselected -> "drop"
    [] t.kind = "filter" /\ c["x"] \in Filtered   -> "drop"
    [] t.kind = "limit"  /\ t.n = 0               -> "drop"
    [] t.kind = "fail"   /\ c["x"] \in Failing    -> "error"
    [] OTHER                                      -> "continue"

Counted(t, c) ==
  CASE t.kind = "limit" /\ t.n > 0 -> [t EXCEPT !.n = @ - 1]
    [] t.kind = "mg"               -> [t EXCEPT !.seen = Append(@, c["x"])]
    [] OTHER                       -> t

(* The transformations that see case c: all until one stops it.            *)
Reached(chain, c) ==
  {i \in DOMAIN chain : \A j \in 1 .. i - 1 : Result(chain[j], c) = "continue"}

(* A variable's value is that of the last transformation of its name.      *)
Computed(chain, c, v, case_nr, lag) ==
  LET setters == {i \in Reached(chain, c) : chain[i].kind = v}
      last == chain[Max(setters)]
  IN IF v \notin {"num", "order", "lag"} \/ setters = {} THEN c[v]
     ELSE IF v = "lag" THEN Written(lag, last.n) ELSE case_nr

(* Runs case c through the chain until a transformation stops it.          *)
trns_chain_execute(chain, case_nr, c, lag) ==
  LET reached == Reached(chain, c)
      stops == {i \in reached : Result(chain[i], c) # "continue"}
  IN [case   |-> [v \in DOMAIN c |-> Computed(chain, c, v, case_nr, lag)],
      result |-> IF stops = {} THEN "continue" ELSE Result(chain[Max(stops)], c),
      chain  |-> [i \in DOMAIN chain |->
                    IF i \in reached THEN Counted(chain[i], c) ELSE chain[i]]]

---------------------------------------------------------------------------
(* Queueing and cancelling transformations.                                *)

add_transformation(d, t) ==
  IF d.temporary THEN [d EXCEPT !.temporary_trns_chain = Append(@, t)]
                 ELSE [d EXCEPT !.permanent_trns_chain = Append(@, t)]

LimitTemporarily(d) ==  \* mutant: the limit always goes to the temporary chain
  IF d.dict.limit = 0 THEN d
  ELSE [d EXCEPT !.temporary_trns_chain = Append(@, Trns("limit", d.dict.limit)),
                 !.dict.limit = 0]

add_case_limit_trns(d) ==
  IF d.dict.limit = 0 THEN d
  ELSE [add_transformation(d, Trns("limit", d.dict.limit)) EXCEPT !.dict.limit = 0]

(* Only variables of unknown measurement level need the transformation.    *)
add_measurement_level_trns(d) ==
  IF d.dict.unknown THEN add_transformation(d, Trns("mg", 0)) ELSE d

cancel_measurement_level_trns(chain) ==
  IF chain # <<>> /\ Last(chain).kind = "mg" THEN Front(chain) ELSE chain

proc_start_temporary_transformations(d) ==
  LET l == add_case_limit_trns(d) IN
  IF d.temporary THEN d
  ELSE [add_measurement_level_trns(l) EXCEPT
          !.permanent_dict = l.dict, !.temporary = TRUE]

SpliceOnly(d) ==  \* mutant: the guess stays in the middle of the chain
  IF ~d.temporary THEN d
  ELSE [d EXCEPT !.permanent_trns_chain = @ \o d.temporary_trns_chain,
                 !.temporary_trns_chain = <<>>,
                 !.temporary = FALSE,
                 !.permanent_dict = NULL]

proc_make_temporary_transformations_permanent(d) ==
  IF ~d.temporary THEN d
  ELSE [d EXCEPT
          !.permanent_trns_chain =
             cancel_measurement_level_trns(@) \o d.temporary_trns_chain,
          !.temporary_trns_chain = <<>>,
          !.temporary = FALSE,
          !.permanent_dict = NULL]

proc_cancel_temporary_transformations(d) ==
  IF ~d.temporary THEN d
  ELSE [d EXCEPT
          !.temporary_trns_chain = <<>>,
          !.dict = d.permanent_dict,
          !.permanent_dict = NULL,
          !.temporary = FALSE]

(* Freeing a measurement level guess settles the levels it guessed.        *)
proc_cancel_all_transformations(d) ==
  LET p == proc_cancel_temporary_transformations(d)
      guessed == \E i \in DOMAIN p.permanent_trns_chain :
                    p.permanent_trns_chain[i].kind = "mg"
  IN [p EXCEPT !.permanent_trns_chain = <<>>,
               !.temporary_trns_chain = <<>>,
               !.dict.unknown = @ /\ ~guessed]

FilterForGood(d) ==  \* mutant: FILTER does not start temporary transformations
  IF ~d.dict.filter THEN d ELSE add_transformation(d, Trns("filter", 0))

add_filter_trns(d) ==
  IF ~d.dict.filter THEN d
  ELSE add_transformation(proc_start_temporary_transformations(d), Trns("filter", 0))

add_permanent_ordering_transformation(d) ==
  LET order == [d EXCEPT !.dict.vars = @ \cup {"order"}, !.dict.unknown = TRUE,
                         !.order_var = TRUE]
  IN IF d.permanent_dict = NULL THEN order
     ELSE [order EXCEPT
             !.permanent_dict.vars = @ \cup {"order"},
             !.permanent_dict.unknown = TRUE,
             !.temporary_trns_chain = <<Trns("order", 0)>> \o @]

---------------------------------------------------------------------------
(* The source.                                                             *)

dataset_clear(d) ==
  proc_cancel_all_transformations(
    [d EXCEPT !.dict = EmptyDict, !.n_lag = 0, !.source = NULL])

dataset_set_dict(d, dict) == [dataset_clear(d) EXCEPT !.dict = dict]

(* What the source provides need not be initialized (caseinit).            *)
dataset_set_source(d, source) ==
  [d EXCEPT !.source = source, !.preinited = d.dict.vars]

dataset_end_of_command(d) ==
  IF d.source # NULL /\ d.source.tainted THEN dataset_clear(d) ELSE d

(* Every case of the source, extended to the variables of the dictionary.  *)
caseinit_translate_casereader_to_init_vars(d) ==
  [d EXCEPT !.source.cases =
     [i \in DOMAIN @ |-> [v \in d.dict.vars |-> IF v \in d.preinited THEN @[i][v] ELSE 0]]]

Project(cases, names) == [i \in DOMAIN cases |-> [v \in names |-> cases[i][v]]]

dataset_delete_vars(d, names) ==
  LET rest == d.dict.vars \ names
      s == caseinit_translate_casereader_to_init_vars(d)
  IN [s EXCEPT !.dict.vars = rest, !.preinited = rest,
               !.source.cases = Project(@, rest)]

---------------------------------------------------------------------------
(* Procedures.                                                             *)

proc_open_filtering(d, filter) ==
  LET i == add_case_limit_trns(caseinit_translate_casereader_to_init_vars(d))
      f == IF filter THEN add_filter_trns(i) ELSE i
      m == IF f.temporary THEN f ELSE add_measurement_level_trns(f)
      pd == IF m.permanent_dict = NULL THEN m.dict ELSE m.permanent_dict
  IN [m EXCEPT
        !.permanent_dict = pd,
        !.sink = IF d.discard_output THEN NULL
                 ELSE [cases |-> <<>>, vars |-> pd.vars],
        !.lag = <<>>,
        !.proc_state = "open",
        !.cases_written = 0,
        !.ok = TRUE]

PushLagBack(d, c) ==  \* mutant: the newest case goes to the wrong end
  IF d.n_lag = 0 THEN d.lag
  ELSE SubSeq(d.lag, IF Len(d.lag) < d.n_lag THEN 1 ELSE 2, Len(d.lag)) \o <<c>>

(* The newest n_lag cases that were written, the last of them first.       *)
PushLag(d, c) ==
  IF d.n_lag = 0 THEN d.lag
  ELSE <<c>> \o SubSeq(d.lag, 1, IF Len(d.lag) < d.n_lag THEN Len(d.lag) ELSE d.n_lag - 1)

(* One turn of the loop in proc_casereader_read, for a source that has a   *)
(* case: what becomes of the dataset, and of the case if it gets through.  *)
proc_casereader_read(d) ==
  LET case_nr == d.cases_written + 1
      p == trns_chain_execute(d.permanent_trns_chain, case_nr,
                              Head(d.source.cases), d.lag)
      read == [d EXCEPT !.source.cases = Tail(@),
                        !.permanent_trns_chain = p.chain,
                        !.ok = p.result # "error"]
      ordered == IF d.sink # NULL /\ d.order_var
                   THEN [p.case EXCEPT !["order"] = case_nr] ELSE p.case
      lag == PushLag(d, p.case)
      row == [v \in d.sink.vars |-> ordered[v]]
      sink == IF d.sink = NULL THEN NULL
              ELSE [d.sink EXCEPT !.cases = Append(d.sink.cases, row)]
      t == trns_chain_execute(d.temporary_trns_chain, case_nr, ordered, lag)
  IN IF p.result # "continue" THEN [ds |-> read, result |-> p.result, case |-> p.case]
     ELSE [ds |-> [read EXCEPT
                     !.lag = lag,
                     !.cases_written = case_nr,
                     !.sink = sink,
                     !.temporary_trns_chain = t.chain,
                     !.ok = t.result # "error"],
           result |-> t.result, case |-> t.case]

DestroyKeepsSource(d) ==  \* mutant: the old source is not let go
  [d EXCEPT !.proc_state = "closed", !.ok = @ /\ ~d.source.tainted]

(* The reader's end, once the cases are drained.                           *)
proc_casereader_destroy(d) ==
  dataset_set_source([d EXCEPT !.proc_state = "closed",
                               !.ok = @ /\ ~d.source.tainted], NULL)

CommitBeforeCancel(d) ==  \* mutant: caseinit is told of the temporary dictionary
  LET c == proc_cancel_all_transformations([d EXCEPT !.proc_state = "committed"])
  IN [c EXCEPT
        !.lag = <<>>,
        !.source = IF d.discard_output \/ d.sink = NULL THEN NULL
                   ELSE [cases |-> d.sink.cases, fails |-> FALSE, tainted |-> FALSE],
        !.discard_output = FALSE,
        !.sink = NULL,
        !.preinited = d.dict.vars,
        !.permanent_dict = NULL,
        !.order_var = FALSE]

proc_commit(d) ==
  LET c == proc_cancel_all_transformations([d EXCEPT !.proc_state = "committed"])
  IN [c EXCEPT
        !.lag = <<>>,
        !.source = IF d.discard_output \/ d.sink = NULL THEN NULL
                   ELSE [cases |-> d.sink.cases, fails |-> FALSE, tainted |-> FALSE],
        !.discard_output = FALSE,
        !.sink = NULL,
        !.preinited = c.dict.vars,
        !.permanent_dict = NULL,
        !.order_var = FALSE]

(* Is there nothing for proc_execute to execute?                           *)
Trivial(d) ==
  /\ ~d.temporary \/ d.temporary_trns_chain = <<>>
  /\ d.permanent_trns_chain = <<>>

proc_execute_trivially(d) ==
  [d EXCEPT !.n_lag = 0, !.discard_output = FALSE, !.dict.limit = 0]

---------------------------------------------------------------------------
Init ==
  /\ ds = [source |-> NULL, preinited |-> {}, dict |-> EmptyDict,
           permanent_dict |-> NULL, permanent_trns_chain |-> <<>>,
           temporary_trns_chain |-> <<>>, temporary |-> FALSE,
           order_var |-> FALSE, sink |-> NULL, discard_output |-> FALSE,
           n_lag |-> 0, lag |-> <<>>, proc_state |-> "committed",
           cases_written |-> 0, ok |-> TRUE]
  /\ command = "none" /\ reading = "no"
  /\ delivered = <<>> /\ begun = NULL
  /\ aborts = {} /\ asked = 0

(* The user may give this command now.                                     *)
May(name) ==
  /\ name \in Commands
  /\ aborts = {} /\ ds.proc_state = "committed" /\ command = "none"

(* ... and there is an active dataset for it to work on.                   *)
MayWithData(name) == May(name) /\ ds.source # NULL

Pending == Len(ds.permanent_trns_chain) + Len(ds.temporary_trns_chain)

(* GET and its like: a new dictionary and a reader, which may fail at its  *)
(* end, or may have failed already.                                        *)
Get ==
  /\ May("get")
  /\ \E fails, tainted \in BOOLEAN :
       ds' = dataset_end_of_command(
               dataset_set_source(
                 dataset_set_dict(ds, [EmptyDict EXCEPT !.vars = {"x"}, !.unknown = TRUE]),
                 [cases |-> [i \in 1..NCases |-> [v \in {"x"} |-> i]],
                  fails |-> fails, tainted |-> tainted]))
  /\ asked' = 0
  /\ delivered' = <<>>
  /\ UNCHANGED <<command, reading, begun, aborts>>

cmd_new_file ==
  /\ May("new file")
  /\ ds' = dataset_clear(ds)
  /\ asked' = 0
  /\ delivered' = <<>>
  /\ UNCHANGED <<command, reading, begun, aborts>>

(* COMPUTE, SELECT IF and their like.  LAG is refused after TEMPORARY.     *)
Transform(kind, n) ==
  /\ MayWithData(kind)
  /\ Pending < MaxTrns
  /\ kind = "lag" => ~ds.temporary
  /\ ds' = add_transformation(
             [ds EXCEPT
                !.dict.vars = @ \cup ({kind} \cap {"num", "lag"}),
                !.dict.unknown = @ \/ ({kind} \cap {"num", "lag"}) \ ds.dict.vars # {},
                !.n_lag = IF kind = "lag" /\ n > @ THEN n ELSE @],
             Trns(kind, n))
  /\ delivered' = <<>>
  /\ UNCHANGED <<command, reading, begun, aborts, asked>>

cmd_temporary ==
  /\ MayWithData("temporary")
  /\ ds' = proc_start_temporary_transformations(ds)
  /\ delivered' = <<>>
  /\ UNCHANGED <<command, reading, begun, aborts, asked>>

cmd_n_of_cases(n) ==
  /\ MayWithData("n of cases")
  /\ ds' = [ds EXCEPT !.dict.limit = n]
  /\ asked' = IF ds.temporary THEN asked ELSE n
  /\ delivered' = <<>>
  /\ UNCHANGED <<command, reading, begun, aborts>>

cmd_filter(on) ==
  /\ MayWithData("filter")
  /\ ds' = [ds EXCEPT !.dict.filter = on]
  /\ delivered' = <<>>
  /\ UNCHANGED <<command, reading, begun, aborts, asked>>

cmd_delete_variables(v) ==
  /\ MayWithData("delete variables")
  /\ v \in ds.dict.vars /\ ~ds.temporary /\ Pending = 0
  /\ ds' = dataset_delete_vars(ds, {v})
  /\ delivered' = <<>>
  /\ UNCHANGED <<command, reading, begun, aborts, asked>>

(* The dataset as each procedure opens it.                                 *)
Opened(name) ==
  CASE name = "statistics" -> proc_open_filtering(ds, TRUE)
    [] name = "save unselected" -> proc_open_filtering(ds, FALSE)
    [] name = "sort cases" ->
         proc_open_filtering(
           [proc_cancel_temporary_transformations(ds) EXCEPT !.discard_output = TRUE], FALSE)
    [] name = "z scores" ->
         proc_open_filtering(proc_make_temporary_transformations_permanent(ds), FALSE)
    [] name = "rank" ->
         proc_open_filtering(add_permanent_ordering_transformation(ds), TRUE)
    [] name = "sort variables" -> proc_open_filtering(ds, TRUE)

Procedures == {"statistics", "save unselected", "sort cases", "z scores", "rank"}

Open(name) ==
  /\ MayWithData(name)
  /\ ds' = Opened(name)
  /\ command' = name
  /\ begun' = [ds |-> ds, delivered |-> delivered]
  /\ delivered' = <<>>
  /\ reading' = IF name \in Procedures THEN "no" ELSE "drain"
  /\ asked' = 0
  /\ UNCHANGED aborts

Running == command # "none" /\ aborts = {}

(* dataset_reorder_vars refuses to work around transformations.            *)
cmd_sort_variables ==
  /\ MayWithData("sort variables") /\ Trivial(ds)
  /\ ds' = caseinit_translate_casereader_to_init_vars(proc_execute_trivially(ds))
  /\ aborts' = IF ds.temporary THEN aborts \cup {"dataset_reorder_vars"} ELSE aborts
  /\ delivered' = <<>>
  /\ UNCHANGED <<command, reading, begun, asked>>

(* The procedure asks its reader for a case.                               *)
Read ==
  /\ Running /\ ds.proc_state = "open" /\ reading = "no"
  /\ reading' = "procedure"
  /\ UNCHANGED <<ds, command, delivered, begun, aborts, asked>>

Exhausted == ~ds.ok \/ ds.source.cases = <<>>

ReadCase ==
  /\ Running /\ reading # "no" /\ ~Exhausted
  /\ LET r == proc_casereader_read(ds) IN
     /\ ds' = r.ds
     /\ delivered' = IF r.result = "continue" THEN Append(delivered, r.case) ELSE delivered
     /\ reading' = IF r.result = "continue" /\ reading = "procedure" THEN "no" ELSE reading
     /\ aborts' = IF /\ ds.sink # NULL /\ ds.order_var /\ ds.n_lag > 0
                     /\ r.ds.cases_written > ds.cases_written
                    THEN aborts \cup {"case_num_rw"} ELSE aborts
  /\ UNCHANGED <<command, begun, asked>>

(* There are no more cases, or none after an error.  A source that fails   *)
(* is found out when it is asked for the case that it cannot provide.      *)
Failed == [ds EXCEPT !.source.tainted = @ \/ (ds.ok /\ ds.source.fails)]

ReadEnd ==
  /\ Running /\ reading = "procedure" /\ Exhausted
  /\ ds' = Failed
  /\ reading' = "no"
  /\ UNCHANGED <<command, delivered, begun, aborts, asked>>

(* The procedure destroys its reader: the cases it did not read follow.    *)
Destroy ==
  /\ Running /\ ds.proc_state = "open" /\ reading = "no"
  /\ reading' = "drain"
  /\ UNCHANGED <<ds, command, delivered, begun, aborts, asked>>

Close ==
  /\ Running /\ reading = "drain" /\ Exhausted
  /\ ds' = proc_casereader_destroy(Failed)
  /\ reading' = "no"
  /\ UNCHANGED <<command, delivered, begun, aborts, asked>>

(* What the command does after it commits.                                 *)
Finished(d) ==
  CASE command = "sort cases" ->
         dataset_set_source(d, [cases |-> delivered, fails |-> FALSE, tainted |-> FALSE])
    [] command = "rank" -> dataset_delete_vars(d, {"order"})
    [] OTHER -> d

Commit ==
  /\ Running /\ ds.proc_state = "closed"
  /\ ds' = dataset_end_of_command(Finished(proc_commit(ds)))
  /\ command' = "none" /\ begun' = NULL
  /\ UNCHANGED <<reading, delivered, aborts, asked>>

Next ==
  \/ Get \/ cmd_new_file \/ cmd_temporary \/ cmd_sort_variables
  \/ \E kind \in {"num", "select", "fail"} : Transform(kind, 0)
  \/ \E n \in 1..MaxLag : Transform("lag", n)
  \/ \E n \in Limits : cmd_n_of_cases(n)
  \/ \E on \in BOOLEAN : cmd_filter(on)
  \/ \E v \in {"num", "lag"} : cmd_delete_variables(v)
  \/ \E name \in Procedures : Open(name)
  \/ ~Trivial(ds) /\ Open("sort variables")
  \/ Read \/ ReadCase \/ ReadEnd \/ Destroy \/ Close \/ Commit

Spec == Init /\ [][Next]_vars
---------------------------------------------------------------------------
(* Properties.                                                             *)

(* The types of the dataset's fields (struct dataset), and the states of a *)
(* procedure: a source while it is open, and none once it is closed.       *)
TypeOK ==
  /\ ds.dict \in Dict /\ ds.permanent_dict \in Dict \cup {NULL}
  /\ ds.temporary => ds.permanent_dict # NULL
  /\ ds.proc_state \in {"committed", "open", "closed"}
  /\ (ds.proc_state = "committed") = (command = "none")
  /\ (ds.proc_state = "open") => ds.source # NULL
  /\ (ds.proc_state = "closed") => ds.source = NULL
  /\ (ds.sink # NULL) => ds.proc_state # "committed"
  /\ ds.source # NULL => ds.source \in Source /\ Len(ds.source.cases) <= NCases
  /\ ds.n_lag \in 0..MaxLag /\ Len(ds.lag) <= ds.n_lag
  /\ ds.cases_written \in 0..NCases /\ ds.ok \in BOOLEAN
  /\ delivered \in Seq(Case) /\ Len(delivered) <= NCases
  /\ aborts \subseteq {"case_num_rw", "dataset_reorder_vars"}

(* Every case of the active file has a value for each variable that        *)
(* caseinit takes the source to provide, and only for variables that the   *)
(* dictionary has: whichever of the two dictionaries a commit or a         *)
(* cancellation leaves behind fits the cases that it leaves behind         *)
(* (proc_commit, proc_cancel_temporary_transformations).                   *)
DictFitsData ==
  ds.proc_state = "committed" /\ ds.source # NULL =>
    \A i \in DOMAIN ds.source.cases :
      /\ ds.preinited \subseteq DOMAIN ds.source.cases[i]
      /\ DOMAIN ds.source.cases[i] \subseteq ds.dict.vars

(* A measurement level is guessed from exactly the cases that end up in    *)
(* the new active file: no pending transformation can follow the guess,    *)
(* whether it was queued by TEMPORARY, by FILTER or by the procedure, or   *)
(* cancelled to be queued again (add_ and cancel_measurement_level_trns).  *)
GuessSeesTheFile ==
  ds.sink # NULL =>
    \A i \in DOMAIN ds.permanent_trns_chain :
      ds.permanent_trns_chain[i].kind = "mg" =>
        ds.permanent_trns_chain[i].seen
          = [j \in DOMAIN ds.sink.cases |-> ds.sink.cases[j]["x"]]

(* A limit n waits in the dictionary, or it is queued.                     *)
Queued(chain, n) == \E i \in DOMAIN chain : chain[i] = Trns("limit", n)
Waits(d, n) == (~d.temporary /\ d.dict.limit = n) \/ Queued(d.permanent_trns_chain, n)

LimitWaits == asked # 0 => Waits(ds, asked)

(* An N OF CASES waits until a procedure applies it ("cases beyond the     *)
(* limit specified are not processed by any later procedure",              *)
(* doc/data-selection.texi), whatever TEMPORARY, FILTER, other limits and  *)
(* transformations do to the two chains and the two dictionaries.  Only    *)
(* SORT VARIABLES forgets it, if it finds nothing pending (proc_execute).  *)
LimitKept == [][LimitWaits => LimitWaits' \/ cmd_sort_variables]_vars
=============================================================================
