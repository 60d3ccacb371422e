----------------------------- MODULE SessionSpec -----------------------------
(* What data-io.texi says of the DATASET commands: there are datasets that *)
(* have names and one active dataset, which may have none. Any pending     *)
(* transformations count as executed when a dataset is left or copied.     *)
EXTENDS Integers

CONSTANTS
  Name,                 \* names of datasets
  MaxVars,              \* bound on the variables of a dataset
  MaxMade,              \* bound on how often its data were transformed
  NoData,               \* in place of that, for a dataset without data
  Unnamed,              \* in place of the name of an unnamed dataset
  Absent                \* in place of the contents of one that is not there

VARIABLES
  stored,               \* the contents of the dataset of each name
  active                \* the name of the active dataset

vars == <<stored, active>>

Names == Name \cup {Unnamed}
EmptyContents == [vars |-> 0, made |-> NoData]
HasData(n) == stored[n].made # NoData
Exists(n) == stored[n] # Absent

Init ==
  /\ active = Unnamed
  /\ stored = [n \in Names |-> IF n = Unnamed THEN EmptyContents ELSE Absent]

(* The active dataset takes the name n; another one of that name is gone.  *)
Rename(n) ==
  /\ active' = n
  /\ stored' = [stored EXCEPT ![active] = Absent, ![n] = stored[active]]

DatasetName(n) == n # active /\ Rename(n)

(* An unnamed dataset that is left is deleted.                             *)
Activate(n) ==
  /\ Exists(n) /\ n # active
  /\ active' = n
  /\ stored' = [stored EXCEPT ![Unnamed] = Absent]

Copy(n) ==
  \/ n = active /\ Rename(Unnamed)
  \/ n # active /\ stored' = [stored EXCEPT ![n] = stored[active]] /\ UNCHANGED active

Declare(n) ==
  /\ ~ Exists(n)
  /\ stored' = [stored EXCEPT ![n] = EmptyContents]
  /\ UNCHANGED active

Close(n) ==
  /\ Exists(n)
  /\ \/ n = active /\ Rename(Unnamed)
     \/ n # active /\ stored' = [stored EXCEPT ![n] = Absent] /\ UNCHANGED active

CloseAll ==
  /\ active' = Unnamed
  /\ stored' = [n \in Names |-> IF n = Unnamed THEN stored[active] ELSE Absent]

(* Other commands give contents to one dataset, the active one mostly.     *)
Put(n, c) == stored' = [stored EXCEPT ![n] = c] /\ UNCHANGED active

Load == \E v \in 1 .. MaxVars : Put(active, [vars |-> v, made |-> 0])

(* NEW FILE after TEMPORARY leaves the variables.                          *)
NewFile ==
  \E v \in {0, stored[active].vars} : Put(active, [EmptyContents EXCEPT !.vars = v])

Numeric ==
  /\ HasData(active) /\ stored[active].vars < MaxVars
  /\ Put(active, [stored[active] EXCEPT !.vars = @ + 1])

Transform ==
  /\ HasData(active) /\ stored[active].made < MaxMade
  /\ Put(active, [stored[active] EXCEPT !.made = @ + 1])

(* The active dataset becomes what the one of the name n is. Read by its   *)
(* own name, it loses what is pending.                                     *)
MatchFiles(n) ==
  /\ Exists(n) /\ HasData(n)
  /\ \/ n # active /\ Put(active, stored[n])
     \/ n = active
        /\ \E m \in 0 .. stored[n].made : Put(active, [stored[n] EXCEPT !.made = m])

(* The dataset of the name n becomes a summary, new data, of the active    *)
(* one, which stays as it is unless it is that dataset.                    *)
Aggregate(n) ==
  /\ Exists(n) /\ HasData(active)
  /\ \E v \in 1 .. MaxVars : Put(n, [vars |-> v, made |-> 0])

Next ==
  \/ \E n \in Name :
       \/ DatasetName(n) \/ Activate(n) \/ Copy(n) \/ Declare(n) \/ Close(n)
       \/ MatchFiles(n) \/ Aggregate(n)
  \/ CloseAll
  \/ Load \/ NewFile \/ Numeric \/ Transform

Spec == Init /\ [][Next]_vars
=============================================================================
