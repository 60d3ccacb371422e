------------------------------- MODULE Session -------------------------------
(* The session of session.c, its datasets and the DATASET commands, with   *)
(* the commands that read and write a dataset by its name. A dataset is    *)
(* a pointer; each has what Dataset.tla keeps in detail, here as counts:   *)
(*   vars        variables of the dictionary                               *)
(*   source      NULL, or the columns and the history of the data: how     *)
(*               often they were transformed since they were made          *)
(*   trns        pending transformations of the permanent chain            *)
(*   queued      what TEMPORARY itself put on it: a limit or a guess       *)
(*   temporary, temp_trns, permanent    as TEMPORARY leaves them           *)
EXTENDS Integers, FiniteSets

CONSTANTS
  Name, Unnamed,        \* names of datasets, and the empty name
  Ds,                   \* the datasets that there may ever be room for
  MaxVars,              \* bound on the variables of a dataset
  MaxMade,              \* bound on the history of its data
  NULL

ASSUME SessionAssumption ==
  /\ NULL \notin Ds
  /\ Unnamed \notin Name
  /\ MaxVars \in Nat \ {0} /\ MaxMade \in Nat

VARIABLES
  datasets, active,     \* of the session
  name,                 \* of each dataset
  body,                 \* the rest of each
  failed                \* the assertion that has failed, or ""

session == <<datasets, active, name>>
vars == <<session, body, failed>>

Data == [vars : 0 .. MaxVars, made : 0 .. MaxMade]
Empty == [vars |-> 0, source |-> NULL, trns |-> 0, queued |-> FALSE,
          temporary |-> FALSE, temp_trns |-> 0, permanent |-> 0]

Init ==
  /\ \E d \in Ds : datasets = {d} /\ active = d
  /\ name = [d \in Ds |-> Unnamed]
  /\ body = [d \in Ds |-> Empty]
  /\ failed = ""

-----------------------------------------------------------------------------
(* session.c, as functions of the session's state s.                       *)
s0 == [datasets |-> datasets, active |-> active, name |-> name]

Lookup(s, n) ==
  IF \E d \in s.datasets : s.name[d] = n
  THEN CHOOSE d \in s.datasets : s.name[d] = n
  ELSE NULL

Remove(s, d) == [s EXCEPT !.datasets = @ \ {Lookup(s, s.name[d])}]

Add(s, d) ==
  LET old == Lookup(s, s.name[d])
      t == [s EXCEPT !.active = IF @ = old THEN d ELSE @]
      u == IF old = NULL THEN t ELSE Remove(t, old)
  IN [u EXCEPT !.datasets = @ \cup {d}, !.active = IF @ = NULL THEN d ELSE @]

SetNameOnly(s, d, n) == \* mutant: the dataset is renamed in its place
  [s EXCEPT !.name[d] = n]

dataset_set_name(s, d, n) ==
  LET t == [s EXCEPT !.active = IF @ = d THEN NULL ELSE @]
      u == [Remove(t, d) EXCEPT !.name[d] = n]
      v == Add(u, d)
  IN IF s.active = d THEN [v EXCEPT !.active = d] ELSE v

(* What is not in the session any more has been destroyed.                 *)
Becomes(s) ==
  /\ datasets' = s.datasets
  /\ active' = s.active
  /\ name' = [d \in Ds |-> IF d \in s.datasets THEN s.name[d] ELSE Unnamed]

Keep(b, s) == [d \in Ds |-> IF d \in s.datasets THEN b[d] ELSE Empty]

-----------------------------------------------------------------------------
(* Procedures. A procedure leaves the columns of the permanent dictionary. *)
Permanent(b) == IF b.temporary THEN b.permanent ELSE b.vars

(* What its sink has collected when all cases were read.                   *)
Sink(b) == [vars |-> Permanent(b), made |-> b.source.made + b.trns]

proc_commit(b, sink) == [Empty EXCEPT !.vars = Permanent(b), !.source = sink]

Executed(b) == proc_commit(b, Sink(b))

HasTransformations(b) ==
  (b.temporary /\ b.temp_trns > 0) \/ b.trns > 0 \/ b.queued

ExecuteNothing(b) == b  \* mutant: pending transformations stay pending

(* With nothing queued TEMPORARY stays in effect.                          *)
proc_execute(b) == IF HasTransformations(b) THEN Executed(b) ELSE b

dataset_set_dict(v, m) == [Empty EXCEPT !.vars = v, !.source = [vars |-> v, made |-> m]]

(* The dictionary that is cleared is the one in use: after TEMPORARY the   *)
(* other one comes back.                                                   *)
dataset_clear(b) == [Empty EXCEPT !.vars = IF b.temporary THEN b.permanent ELSE 0]

MayWithData == body[active].source # NULL /\ body[active].vars > 0

(* Only the body of the dataset d changes.                                 *)
Set(d, b) ==
  /\ body' = [body EXCEPT ![d] = b]
  /\ UNCHANGED <<session, failed>>

-----------------------------------------------------------------------------
(* The DATASET commands.                                                   *)
Renamed(n) ==
  LET s == dataset_set_name(s0, active, n)
  IN Becomes(s) /\ body' = Keep(body, s) /\ UNCHANGED failed

cmd_dataset_name(n) == Renamed(n)

cmd_dataset_activate(n) ==
  LET d == Lookup(s0, n)
      s == [s0 EXCEPT !.active = d]
      t == IF name[active] = Unnamed THEN Remove(s, active) ELSE s
  IN
  /\ d # NULL /\ d # active
  /\ Becomes(t)
  /\ body' = Keep([body EXCEPT ![active] = proc_execute(@)], t)
  /\ UNCHANGED failed

Clone(b) == [Empty EXCEPT !.vars = b.vars, !.source = b.source]

Copy(n) ==
  \E d \in Ds \ datasets :
    LET old == proc_execute(body[active])
        s == Add([s0 EXCEPT !.name[d] = n], d)
    IN
    /\ ~ old.temporary
    /\ Becomes(s)
    /\ body' = Keep([body EXCEPT ![active] = old, ![d] = Clone(old)], s)
    /\ UNCHANGED failed

(* dataset_clone asserts that there is no temporary state.                 *)
CopyFails ==
  /\ proc_execute(body[active]).temporary
  /\ failed' = "clone"
  /\ UNCHANGED <<session, body>>

cmd_dataset_copy(n) ==
  IF Lookup(s0, n) = active THEN Renamed(Unnamed) ELSE Copy(n) \/ CopyFails

cmd_dataset_declare(n) ==
  /\ Lookup(s0, n) = NULL
  /\ \E d \in Ds \ datasets : Becomes(Add([s0 EXCEPT !.name[d] = n], d))
  /\ UNCHANGED <<body, failed>>

CloseAny(d) ==          \* mutant: the active dataset is destroyed as well
  Becomes(Remove(s0, d)) /\ body' = Keep(body, Remove(s0, d)) /\ UNCHANGED failed

Close(d) ==
  IF d = active THEN Renamed(Unnamed)
  ELSE LET s == Remove(s0, d)
       IN Becomes(s) /\ body' = Keep(body, s) /\ UNCHANGED failed

cmd_dataset_close(n) == Lookup(s0, n) # NULL /\ Close(Lookup(s0, n))

CloseAll ==
  LET s == dataset_set_name([s0 EXCEPT !.datasets = {active}], active, Unnamed)
  IN Becomes(s) /\ body' = Keep(body, s) /\ UNCHANGED failed

-----------------------------------------------------------------------------
(* Commands on the active dataset.                                         *)
Load == \E v \in 1 .. MaxVars : Set(active, dataset_set_dict(v, 0))

cmd_new_file == Set(active, dataset_clear(body[active]))

(* A variable without a transformation: the data get no column for it yet. *)
cmd_numeric ==
  /\ MayWithData /\ body[active].vars < MaxVars
  /\ Set(active, [body[active] EXCEPT !.vars = @ + 1])

add_transformation ==
  LET b == body[active] IN
  /\ MayWithData /\ b.source.made + b.trns + b.temp_trns < MaxMade
  /\ Set(active, IF b.temporary THEN [b EXCEPT !.temp_trns = @ + 1]
                                ELSE [b EXCEPT !.trns = @ + 1])

(* It queues a case limit or a guess, if there is a limit or a level that  *)
(* nobody knows.                                                           *)
cmd_temporary ==
  /\ MayWithData /\ ~ body[active].temporary
  /\ \E q \in BOOLEAN :
       Set(active, [body[active] EXCEPT !.temporary = TRUE, !.queued = q,
                                        !.permanent = body[active].vars])

(* EXECUTE itself always runs a procedure, and so ends TEMPORARY.          *)
cmd_execute == MayWithData /\ Set(active, Executed(body[active]))

-----------------------------------------------------------------------------
(* Commands that read or write a dataset by its name.                      *)
dataset_reader_open(n) == Lookup(s0, n) # NULL /\ body[Lookup(s0, n)].source # NULL

(* The cases are read by the dictionary as it is now.                      *)
Fits(b) == b.source.vars >= b.vars

cmd_match_files(n) ==
  LET from == body[Lookup(s0, n)] IN
  /\ dataset_reader_open(n) /\ Fits(from)
  /\ Set(active, dataset_set_dict(from.vars, from.source.made))

MatchFails(n) ==
  /\ dataset_reader_open(n) /\ ~ Fits(body[Lookup(s0, n)])
  /\ failed' = "read"
  /\ UNCHANGED <<session, body>>

AggregateHandsOverFirst(n) == \* mutant: the writer hands over, then proc_commit
  LET d == Lookup(s0, n) IN
  /\ MayWithData /\ d # NULL
  /\ \E v \in 1 .. MaxVars :
       LET given == [body EXCEPT ![d] = dataset_set_dict(v, 0)]
       IN body' = [given EXCEPT ![active] = proc_commit(@, Sink(body[active]))]
  /\ UNCHANGED <<session, failed>>

(* The procedure reads the active dataset and commits; then the writer     *)
(* gives what it made to the named one, unless it has an error.            *)
cmd_aggregate(n) ==
  LET d == Lookup(s0, n)
      read == [body EXCEPT ![active] = Executed(@)]
  IN
  /\ MayWithData /\ d # NULL
  /\ \/ \E v \in 1 .. MaxVars : body' = [read EXCEPT ![d] = dataset_set_dict(v, 0)]
     \/ body' = read
  /\ UNCHANGED <<session, failed>>

-----------------------------------------------------------------------------
Command(n) ==
  \/ cmd_dataset_name(n) \/ cmd_dataset_activate(n) \/ cmd_dataset_copy(n)
  \/ cmd_dataset_declare(n) \/ cmd_dataset_close(n)
  \/ cmd_match_files(n) \/ MatchFails(n) \/ cmd_aggregate(n)

Next ==
  /\ failed = ""
  /\ \/ \E n \in Name : Command(n)
     \/ Close(active) \/ CloseAll
     \/ Load \/ cmd_new_file \/ cmd_numeric \/ add_transformation
     \/ cmd_temporary \/ cmd_execute

Spec == Init /\ [][Next]_vars

-----------------------------------------------------------------------------
(* Properties.                                                             *)
(* Every variable keeps to its type.                                       *)
TypeOK ==
  /\ datasets \subseteq Ds /\ active \in datasets
  /\ name \in [Ds -> Name \cup {Unnamed}]
  /\ body \in [Ds -> [vars : 0 .. MaxVars, source : Data \cup {NULL}, trns : 0 .. MaxMade,
                      queued : BOOLEAN, temporary : BOOLEAN,
                      temp_trns : 0 .. MaxMade, permanent : 0 .. MaxVars]]
  /\ failed \in {"", "clone", "read"}

(* Names find their dataset: no two datasets of the session have one name, *)
(* and one without a name is the active one, or it could never be reached  *)
(* again (session_add_dataset, dataset_set_name, cmd_dataset_activate).    *)
NamesReach ==
  /\ \A d, e \in datasets : name[d] = name[e] => d = e
  /\ \A d \in datasets : name[d] = Unnamed => d = active

(* A dataset that is left has no transformation pending, for no procedure  *)
(* runs on it until it is active again (cmd_dataset_activate).             *)
NothingPending ==
  \A d \in datasets \ {active} :
    body[d].trns = 0 /\ body[d].temp_trns = 0 /\ ~ body[d].queued
=============================================================================
