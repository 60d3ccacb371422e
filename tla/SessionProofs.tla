--------------------------- MODULE SessionProofs ----------------------------
(* Proofs about Session, for any names, datasets and bounds.               *)
EXTENDS MCSession, TLAPS

Names == Name \cup {Unnamed}

(* A session as a value, whose names are unique.                           *)
Sessions == [datasets : SUBSET Ds, active : Ds \cup {NULL}, name : [Ds -> Names]]
Unique(s) == \A d, e \in s.datasets : s.name[d] = s.name[e] => d = e
Good(s) == s \in Sessions /\ Unique(s)

(* What is kept of a session without the datasets of the name n.           *)
Others(s, n) == {d \in s.datasets : s.name[d] # n}

-----------------------------------------------------------------------------
(* A name finds the dataset that has it, or NULL (session_lookup_dataset). *)
LEMMA Lookups ==
  ASSUME NEW s \in Sessions, NEW n
  PROVE  /\ Lookup(s, n) # NULL => Lookup(s, n) \in s.datasets /\ s.name[Lookup(s, n)] = n
         /\ Lookup(s, n) = NULL => \A d \in s.datasets : s.name[d] # n
<1>1. CASE \E d \in s.datasets : s.name[d] = n
  <2>1. Lookup(s, n) = CHOOSE d \in s.datasets : s.name[d] = n
    BY <1>1 DEF Lookup
  <2>2. Lookup(s, n) \in s.datasets /\ s.name[Lookup(s, n)] = n
    BY <1>1, <2>1, Zenon
  <2>3. s.datasets \subseteq Ds
    BY DEF Sessions
  <2> QED
    BY <2>2, <2>3, SessionAssumption DEF SessionAssumption
<1>2. CASE ~ \E d \in s.datasets : s.name[d] = n
  BY <1>2 DEF Lookup
<1> QED
  BY <1>1, <1>2

(* In a good session a dataset is found by its own name.                   *)
LEMMA LookupOwn ==
  ASSUME NEW s, Good(s), NEW d \in s.datasets
  PROVE  Lookup(s, s.name[d]) = d
<1>1. Lookup(s, s.name[d]) # NULL
  BY Lookups DEF Good
<1> QED
  BY <1>1, Lookups DEF Good, Unique

(* session_remove_dataset takes out that dataset and nothing else.         *)
LEMMA Removes ==
  ASSUME NEW s, Good(s), NEW d \in s.datasets
  PROVE  /\ Good(Remove(s, d))
         /\ Remove(s, d).datasets = s.datasets \ {d}
         /\ Remove(s, d).active = s.active
         /\ Remove(s, d).name = s.name
<1>1. Remove(s, d) = [s EXCEPT !.datasets = @ \ {d}]
  BY LookupOwn DEF Remove
<1>2. s = [datasets |-> s.datasets, active |-> s.active, name |-> s.name]
  BY DEF Good, Sessions
<1>3. Remove(s, d) = [datasets |-> s.datasets \ {d}, active |-> s.active, name |-> s.name]
  BY <1>1, <1>2
<1> QED
  BY <1>3 DEF Good, Sessions, Unique

(* session_add_dataset puts a dataset in the place of another of its name. *)
LEMMA Adds ==
  ASSUME NEW s, Good(s), NEW d \in Ds \ s.datasets
  PROVE  LET old == Lookup(s, s.name[d])
             a == Add(s, d)
         IN /\ Good(a)
            /\ a.datasets = Others(s, s.name[d]) \cup {d}
            /\ a.active = IF s.active \in {old, NULL} THEN d ELSE s.active
            /\ a.name = s.name
<1> DEFINE old == Lookup(s, s.name[d])
           t == [s EXCEPT !.active = IF @ = old THEN d ELSE @]
           u == IF old = NULL THEN t ELSE Remove(t, old)
<1>0. d # NULL /\ s \in Sessions
  BY SessionAssumption DEF SessionAssumption, Good
<1>1. s = [datasets |-> s.datasets, active |-> s.active, name |-> s.name]
  BY DEF Good, Sessions
<1>2. t = [datasets |-> s.datasets, active |-> IF s.active = old THEN d ELSE s.active,
           name |-> s.name]
  BY <1>1
<1>3. Good(t)
  BY <1>2 DEF Good, Sessions, Unique
<1> HIDE DEF t
<1>4. /\ u \in Sessions /\ u.datasets = Others(s, s.name[d])
      /\ u.active = IF s.active = old THEN d ELSE s.active
      /\ u.name = s.name
  <2>1. CASE old = NULL
    <3>1. \A e \in s.datasets : s.name[e] # s.name[d]
      BY <2>1, <1>0, Lookups
    <3>2. Others(s, s.name[d]) = s.datasets
      BY <3>1 DEF Others
    <3> QED
      BY <2>1, <3>2, <1>2, <1>3 DEF Good
  <2>2. CASE old # NULL
    <3>1. old \in s.datasets /\ s.name[old] = s.name[d]
      BY <2>2, <1>0, Lookups
    <3>2. Others(s, s.name[d]) = s.datasets \ {old}
      BY <3>1 DEF Others, Good, Unique
    <3>3. old \in t.datasets
      BY <1>2, <3>1
    <3>4. /\ Good(Remove(t, old))
          /\ Remove(t, old).datasets = t.datasets \ {old}
          /\ Remove(t, old).active = t.active
          /\ Remove(t, old).name = t.name
      BY <1>3, <3>3, Removes
    <3> QED
      BY <2>2, <3>2, <3>4, <1>2 DEF Good
  <2> QED
    BY <2>1, <2>2
<1>5. u = [datasets |-> u.datasets, active |-> u.active, name |-> u.name]
  BY <1>4 DEF Sessions
<1>6. Add(s, d) = [u EXCEPT !.datasets = @ \cup {d}, !.active = IF @ = NULL THEN d ELSE @]
  BY DEF Add, t
<1>7. Add(s, d) = [datasets |-> u.datasets \cup {d},
                   active |-> IF u.active = NULL THEN d ELSE u.active, name |-> u.name]
  BY <1>5, <1>6
<1>8. Add(s, d).active = IF s.active \in {old, NULL} THEN d ELSE s.active
  BY <1>7, <1>4, <1>0
<1>9. Good(Add(s, d))
  BY <1>7, <1>4 DEF Good, Sessions, Unique, Others
<1> QED
  BY <1>7, <1>8, <1>9, <1>4

(* dataset_set_name gives the active dataset its new name and destroys the *)
(* other dataset that has it.                                              *)
LEMMA SetsName ==
  ASSUME NEW s, Good(s), s.active \in s.datasets, NEW n \in Names
  PROVE  LET r == dataset_set_name(s, s.active, n)
         IN /\ Good(r)
            /\ r.active = s.active
            /\ r.datasets = (Others(s, n) \ {s.active}) \cup {s.active}
            /\ r.name = [s.name EXCEPT ![s.active] = n]
<1> DEFINE d == s.active
           t == [s EXCEPT !.active = IF @ = d THEN NULL ELSE @]
           u == [Remove(t, d) EXCEPT !.name[d] = n]
           v == Add(u, d)
<1>1. s = [datasets |-> s.datasets, active |-> d, name |-> s.name]
  BY DEF Good, Sessions
<1>2. t = [datasets |-> s.datasets, active |-> NULL, name |-> s.name]
  BY <1>1
<1>3. Good(t) /\ d \in t.datasets
  BY <1>2 DEF Good, Sessions, Unique
<1> HIDE DEF t
<1>4. /\ Good(Remove(t, d))
      /\ Remove(t, d).datasets = s.datasets \ {d}
      /\ Remove(t, d).active = NULL
      /\ Remove(t, d).name = s.name
  BY <1>2, <1>3, Removes
<1>5. Remove(t, d) = [datasets |-> s.datasets \ {d}, active |-> NULL, name |-> s.name]
  BY <1>4 DEF Good, Sessions
<1>6. u = [datasets |-> s.datasets \ {d}, active |-> NULL, name |-> [s.name EXCEPT ![d] = n]]
  BY <1>5
<1>7. Good(u) /\ d \in Ds \ u.datasets /\ u.name[d] = n
  BY <1>6 DEF Good, Sessions, Unique
<1>8. Others(u, n) = Others(s, n) \ {d}
  BY <1>6, <1>7 DEF Others, Good, Sessions
<1> HIDE DEF u, d
<1>9. /\ Good(v) /\ v.datasets = Others(u, n) \cup {d}
      /\ v.active = d
      /\ v.name = u.name
  <2>1. u.active \in {Lookup(u, u.name[d]), NULL}
    BY <1>6
  <2>2. v.active = d
    BY <1>7, <2>1, Adds
  <2>3. Good(v) /\ v.datasets = Others(u, u.name[d]) \cup {d} /\ v.name = u.name
    BY <1>7, Adds
  <2> QED
    BY <1>7, <2>2, <2>3
<1>10. v = [datasets |-> v.datasets, active |-> d, name |-> v.name]
  BY <1>9 DEF Good, Sessions
<1>11. dataset_set_name(s, d, n) = [v EXCEPT !.active = d]
  BY DEF dataset_set_name, d, t, u
<1>12. dataset_set_name(s, d, n) = v
  BY <1>10, <1>11
<1> QED
  BY <1>6, <1>8, <1>9, <1>12 DEF d

-----------------------------------------------------------------------------
(* A session whose datasets can all be reached.                            *)
Sound(s) ==
  /\ Good(s) /\ s.active \in s.datasets
  /\ \A d \in s.datasets : s.name[d] = Unnamed => d = s.active

Bodies == [vars : 0 .. MaxVars, source : Data \cup {NULL}, trns : 0 .. MaxMade,
           queued : BOOLEAN, temporary : BOOLEAN,
           temp_trns : 0 .. MaxMade, permanent : 0 .. MaxVars]

Quiet(b) == b.trns = 0 /\ b.temp_trns = 0 /\ ~ b.queued

(* Transformations wait for data that are there, and temporary ones for    *)
(* TEMPORARY to end. Variables are only added to those that the data have, *)
(* and under TEMPORARY to the permanent ones.                              *)
Orderly(b) ==
  /\ b \in Bodies
  /\ b.source # NULL => b.source.vars <= Permanent(b)
  /\ b.temporary => b.permanent <= b.vars
  /\ ~ Quiet(b) => b.source # NULL
  /\ b.source # NULL => b.source.made + b.trns + b.temp_trns <= MaxMade
  /\ b.temp_trns > 0 => b.temporary

(* The inductive invariant: also what is not in the session is empty, so   *)
(* that a new dataset starts that way.                                     *)
IInv ==
  /\ Sound(s0)
  /\ body \in [Ds -> Bodies]
  /\ \A d \in Ds : Orderly(body[d])
  /\ \A d \in Ds \ {active} : Quiet(body[d])
  /\ failed \in {"", "clone", "read"}

LEMMA IInvImplies == IInv => TypeOK /\ NamesReach /\ NothingPending
  BY DEF IInv, Sound, Good, Sessions, Unique, s0, Names, Bodies, Quiet,
         TypeOK, NamesReach, NothingPending

(* The contents that the commands give to a dataset.                       *)
LEMMA EmptyOrderly == Orderly(Empty) /\ Quiet(Empty)
  BY SessionAssumption DEF SessionAssumption, Orderly, Quiet, Bodies, Empty, Permanent

Holding(v, f) ==
  [vars |-> v, source |-> f, trns |-> 0, queued |-> FALSE,
   temporary |-> FALSE, temp_trns |-> 0, permanent |-> 0]

(* Putting variables, and data, into a record of that form.                *)
PutVars(b, v) == [b EXCEPT !.vars = v]
PutSource(b, f) == [b EXCEPT !.source = f]

LEMMA WithVars ==
  ASSUME NEW w, NEW f, NEW v
  PROVE  PutVars(Holding(w, f), v) = Holding(v, f)
<1> DEFINE h == Holding(w, f)
<1>1. h = [vars |-> h.vars, source |-> h.source, trns |-> h.trns, queued |-> h.queued,
           temporary |-> h.temporary, temp_trns |-> h.temp_trns,
           permanent |-> h.permanent]
  BY DEF Holding
<1>2. h.vars = w /\ h.source = f /\ h.trns = 0 /\ h.queued = FALSE
      /\ h.temporary = FALSE /\ h.temp_trns = 0 /\ h.permanent = 0
  BY DEF Holding
<1> HIDE DEF h
<1>3. PutVars(h, v) = [vars |-> v, source |-> h.source, trns |-> h.trns, queued |-> h.queued,
           temporary |-> h.temporary, temp_trns |-> h.temp_trns,
           permanent |-> h.permanent]
  BY <1>1 DEF PutVars
<1> QED
  BY <1>2, <1>3 DEF Holding, h

LEMMA WithSource ==
  ASSUME NEW v, NEW g, NEW f
  PROVE  PutSource(Holding(v, g), f) = Holding(v, f)
<1> DEFINE h == Holding(v, g)
<1>1. h = [vars |-> h.vars, source |-> h.source, trns |-> h.trns, queued |-> h.queued,
           temporary |-> h.temporary, temp_trns |-> h.temp_trns,
           permanent |-> h.permanent]
  BY DEF Holding
<1>2. h.vars = v /\ h.source = g /\ h.trns = 0 /\ h.queued = FALSE
      /\ h.temporary = FALSE /\ h.temp_trns = 0 /\ h.permanent = 0
  BY DEF Holding
<1> HIDE DEF h
<1>3. PutSource(h, f) = [vars |-> h.vars, source |-> f, trns |-> h.trns, queued |-> h.queued,
           temporary |-> h.temporary, temp_trns |-> h.temp_trns,
           permanent |-> h.permanent]
  BY <1>1 DEF PutSource
<1> QED
  BY <1>2, <1>3 DEF Holding, h

LEMMA Filled ==
  ASSUME NEW v, NEW f
  PROVE  [Empty EXCEPT !.vars = v, !.source = f] = Holding(v, f)
<1>1. Empty = Holding(0, NULL)
  BY DEF Empty, Holding
<1>2. PutVars(Empty, v) = Holding(v, NULL)
  BY <1>1, WithVars
<1>3. PutSource(PutVars(Empty, v), f) = Holding(v, f)
  BY <1>2, WithSource
<1> QED
  BY <1>3 DEF PutVars, PutSource

LEMMA HoldingOrderly ==
  ASSUME NEW v \in 0 .. MaxVars, NEW f \in Data \cup {NULL}, f # NULL => f.vars <= v
  PROVE  Orderly(Holding(v, f)) /\ Quiet(Holding(v, f))
<1>1. Holding(v, f) \in Bodies /\ Quiet(Holding(v, f))
  BY SessionAssumption DEF SessionAssumption, Bodies, Quiet, Holding
<1>2. f # NULL => f.made \in 0 .. MaxMade
  BY DEF Data
<1>3. f # NULL => f.made + 0 + 0 <= MaxMade
  BY <1>2, SessionAssumption DEF SessionAssumption
<1> QED
  BY <1>1, <1>3 DEF Orderly, Holding, Permanent

LEMMA SetDictOrderly ==
  ASSUME NEW v \in 0 .. MaxVars, NEW m \in 0 .. MaxMade
  PROVE  Orderly(dataset_set_dict(v, m)) /\ Quiet(dataset_set_dict(v, m))
<1> DEFINE f == [vars |-> v, made |-> m]
<1>1. f \in Data /\ f.vars <= v
  BY SessionAssumption DEF SessionAssumption, Data
<1>2. dataset_set_dict(v, m) = Holding(v, f)
  BY Filled DEF dataset_set_dict
<1> HIDE DEF f
<1> QED
  BY <1>1, <1>2, HoldingOrderly

LEMMA ClearOrderly ==
  ASSUME NEW b, Orderly(b)
  PROVE  Orderly(dataset_clear(b)) /\ Quiet(dataset_clear(b))
<1> DEFINE v == IF b.temporary THEN b.permanent ELSE 0
<1>1. v \in 0 .. MaxVars
  BY SessionAssumption DEF SessionAssumption, Orderly, Bodies
<1>2. Empty = Holding(0, NULL)
  BY DEF Empty, Holding
<1> HIDE DEF v
<1>3. PutVars(Empty, v) = Holding(v, NULL)
  BY <1>2, WithVars
<1>4. dataset_clear(b) = Holding(v, NULL)
  BY <1>3 DEF dataset_clear, v, PutVars
<1> QED
  BY <1>1, <1>4, HoldingOrderly

LEMMA CloneOrderly ==
  ASSUME NEW b, Orderly(b)
  PROVE  Orderly(Clone(b)) /\ Quiet(Clone(b))
<1>1. /\ b.vars \in 0 .. MaxVars /\ b.source \in Data \cup {NULL}
      /\ b.source # NULL => b.source.vars <= b.vars
  BY DEF Orderly, Bodies, Permanent, Data
<1> QED
  BY <1>1, Filled, HoldingOrderly DEF Clone

LEMMA ExecutedOrderly ==
  ASSUME NEW b, Orderly(b), b.source # NULL
  PROVE  Orderly(Executed(b)) /\ Quiet(Executed(b))
<1> DEFINE f == [vars |-> Permanent(b), made |-> b.source.made + b.trns]
<1>1. Permanent(b) \in 0 .. MaxVars
  BY DEF Permanent, Orderly, Bodies
<1>2. b.source.made + b.trns \in 0 .. MaxMade
  BY SessionAssumption DEF SessionAssumption, Orderly, Bodies, Data
<1>3. f \in Data /\ f.vars <= Permanent(b)
  BY <1>1, <1>2, SessionAssumption DEF SessionAssumption, Data
<1> QED
  BY <1>1, <1>3, Filled, HoldingOrderly DEF Executed, proc_commit, Sink

(* After proc_execute nothing is pending, whether it ran a procedure or    *)
(* not.                                                                    *)
LEMMA ProcExecuteOrderly ==
  ASSUME NEW b, Orderly(b)
  PROVE  Orderly(proc_execute(b)) /\ Quiet(proc_execute(b))
<1>1. CASE HasTransformations(b)
  BY <1>1, ExecutedOrderly DEF HasTransformations, proc_execute, Orderly, Bodies, Quiet
<1>2. CASE ~ HasTransformations(b)
  BY <1>2 DEF HasTransformations, proc_execute, Orderly, Bodies, Quiet
<1> QED
  BY <1>1, <1>2

-----------------------------------------------------------------------------
(* What a change of the session, of the bodies and of one body preserve.   *)
LEMMA Becoming ==
  ASSUME NEW s, Sound(s), Becomes(s)
  PROVE  Sound(s0)' /\ active' = s.active /\ datasets' = s.datasets
<1>1. datasets' = s.datasets /\ active' = s.active
  BY DEF Becomes
<1>2. name' \in [Ds -> Names] /\ \A d \in s.datasets : name'[d] = s.name[d]
  BY DEF Becomes, Sound, Good, Sessions, Names
<1> QED
  BY <1>1, <1>2 DEF Sound, Good, Sessions, Unique, s0

BodiesOK ==
  /\ body \in [Ds -> Bodies]
  /\ \A d \in Ds : Orderly(body[d])
  /\ \A d \in Ds \ {active} : Quiet(body[d])

LEMMA Keeping ==
  ASSUME NEW s, Sound(s), Becomes(s),
         NEW b \in [Ds -> Bodies], \A d \in Ds : Orderly(b[d]),
         \A d \in s.datasets \ {s.active} : Quiet(b[d]),
         body' = Keep(b, s)
  PROVE  BodiesOK'
<1>1. \A d \in Ds : body'[d] = IF d \in s.datasets THEN b[d] ELSE Empty
  BY DEF Keep
<1>2. body' \in [Ds -> Bodies]
  BY EmptyOrderly DEF Keep, Orderly
<1>3. active' = s.active
  BY DEF Becomes
<1> QED
  BY <1>1, <1>2, <1>3, EmptyOrderly DEF BodiesOK

LEMMA Same ==
  ASSUME IInv, UNCHANGED session
  PROVE  Sound(s0)'
  BY DEF IInv, session, Sound, Good, Sessions, Unique, s0

LEMMA Sets ==
  ASSUME IInv, NEW d \in Ds, NEW b, Orderly(b), Quiet(b) \/ d = active, Set(d, b)
  PROVE  IInv'
<1>1. body' \in [Ds -> Bodies] /\ \A e \in Ds : body'[e] = IF e = d THEN b ELSE body[e]
  BY DEF Set, IInv, Orderly
<1> QED
  BY <1>1, Same DEF Set, IInv, session

LEMMA Renames ==
  ASSUME IInv, NEW n \in Names, Renamed(n)
  PROVE  IInv'
<1> DEFINE r == dataset_set_name(s0, active, n)
<1>1. Sound(s0) /\ s0.active = active /\ s0.datasets = datasets /\ s0.name = name
  BY DEF IInv, s0
<1>2. /\ Good(r) /\ r.active = active
      /\ r.datasets = (Others(s0, n) \ {active}) \cup {active}
      /\ r.name = [name EXCEPT ![active] = n]
  BY <1>1, SetsName DEF Sound
<1>3. \A d \in r.datasets : r.name[d] = Unnamed => d = active
  BY <1>1, <1>2 DEF Others, Sound, Good, Sessions
<1>4. Sound(r)
  BY <1>2, <1>3 DEF Sound
<1> HIDE DEF r
<1>5. Becomes(r) /\ body' = Keep(body, r) /\ failed' = failed
  BY DEF Renamed, r
<1>6. \A d \in r.datasets \ {r.active} : Quiet(body[d])
  BY <1>2, <1>4 DEF IInv, Sound, Good, Sessions
<1>7. BodiesOK'
  BY <1>4, <1>5, <1>6, Keeping DEF IInv
<1>8. Sound(s0)'
  BY <1>4, <1>5, Becoming
<1> QED
  BY <1>5, <1>7, <1>8 DEF IInv, BodiesOK

-----------------------------------------------------------------------------
(* The DATASET commands.                                                   *)
(* The active dataset is one of the session's, and orderly.                *)
LEMMA Active ==
  ASSUME IInv
  PROVE  active \in Ds /\ Orderly(body[active])
  BY DEF IInv, Sound, Good, Sessions, s0

(* The session that DATASET ACTIVATE makes: without the dataset that is     *)
(* left, if it has no name.                                                *)
LEMMA Activating ==
  ASSUME IInv, NEW n \in Name, cmd_dataset_activate(n)
  PROVE  \E t :
           /\ Sound(t) /\ t.name = name
           /\ t.active \in datasets \ {active} /\ name[t.active] = n
           /\ t.datasets = IF name[active] = Unnamed THEN datasets \ {active} ELSE datasets
           /\ Becomes(t) /\ body' = Keep([body EXCEPT ![active] = proc_execute(@)], t)
           /\ failed' = failed
<1> DEFINE d == Lookup(s0, n)
           s == [s0 EXCEPT !.active = d]
           t == IF name[active] = Unnamed THEN Remove(s, active) ELSE s
<1>1. /\ Sound(s0) /\ s0.active = active /\ s0.datasets = datasets /\ s0.name = name
      /\ s0 \in Sessions
  BY DEF IInv, s0, Sound, Good
<1>2. /\ d # NULL /\ d # active /\ Becomes(t) /\ failed' = failed
      /\ body' = Keep([body EXCEPT ![active] = proc_execute(@)], t)
  BY DEF cmd_dataset_activate
<1>3. d \in datasets /\ name[d] = n
  BY <1>1, <1>2, Lookups
<1> HIDE DEF d
<1>4. s = [datasets |-> datasets, active |-> d, name |-> name]
  BY DEF s0
<1>5. Good(s) /\ active \in s.datasets
  BY <1>1, <1>3, <1>4 DEF Sound, Good, Sessions, Unique
<1>6. s.datasets = datasets /\ s.active = d /\ s.name = name
  BY <1>4
<1> HIDE DEF s
<1>7. /\ Good(t) /\ t.active = d /\ t.name = name
      /\ t.datasets = IF name[active] = Unnamed THEN datasets \ {active} ELSE datasets
  BY <1>5, <1>6, Removes
<1>8. Sound(t)
  BY <1>1, <1>2, <1>3, <1>7 DEF Sound
<1> HIDE DEF t
<1> QED
  BY <1>2, <1>3, <1>7, <1>8

LEMMA Activates ==
  ASSUME IInv, NEW n \in Name, cmd_dataset_activate(n)
  PROVE  IInv'
<1> DEFINE b == [body EXCEPT ![active] = proc_execute(@)]
<1>1. PICK t : Sound(t) /\ Becomes(t) /\ body' = Keep(b, t) /\ failed' = failed
  BY Activating
<1>2. active \in Ds /\ Orderly(body[active])
  BY Active
<1>3. Orderly(proc_execute(body[active])) /\ Quiet(proc_execute(body[active]))
  BY <1>2, ProcExecuteOrderly
<1>4. /\ b \in [Ds -> Bodies]
      /\ \A e \in Ds : b[e] = IF e = active THEN proc_execute(body[active]) ELSE body[e]
  BY <1>3 DEF IInv, Orderly
<1>5. \A e \in Ds : Orderly(b[e]) /\ Quiet(b[e])
  BY <1>3, <1>4 DEF IInv
<1> HIDE DEF b
<1>6. BodiesOK'
  <2>1. \A e \in t.datasets \ {t.active} : Quiet(b[e])
    BY <1>1, <1>5 DEF Sound, Good, Sessions
  <2> QED
    BY <1>1, <1>4, <1>5, <2>1, Keeping
<1>7. Sound(s0)'
  BY <1>1, Becoming
<1> QED
  BY <1>1, <1>6, <1>7 DEF IInv, BodiesOK

(* A new dataset of the name n, which the active one does not have.        *)
Added(d, n) == Add([s0 EXCEPT !.name[d] = n], d)

LEMMA Adding ==
  ASSUME IInv, NEW n \in Name, name[active] # n, NEW d \in Ds \ datasets
  PROVE  /\ Sound(Added(d, n))
         /\ Added(d, n).active = active
         /\ Added(d, n).name = [name EXCEPT ![d] = n]
         /\ Added(d, n).datasets = {e \in datasets : name[e] # n} \cup {d}
<1> DEFINE s == [s0 EXCEPT !.name[d] = n]
           a == Add(s, d)
<1>1. /\ Sound(s0) /\ s0.active = active /\ s0.datasets = datasets /\ s0.name = name
      /\ s0 \in Sessions /\ active \in datasets
  BY DEF IInv, s0, Sound, Good
<1>2. s = [datasets |-> datasets, active |-> active, name |-> [name EXCEPT ![d] = n]]
  BY DEF s0
<1>3. /\ Good(s) /\ s.datasets = datasets /\ s.active = active /\ s.name[d] = n
      /\ s.name = [name EXCEPT ![d] = n] /\ \A e \in datasets : s.name[e] = name[e]
  BY <1>1, <1>2 DEF Sound, Good, Sessions, Unique, Names
<1> HIDE DEF s
<1>4. active \notin {Lookup(s, n), NULL}
  BY <1>1, <1>3, Lookups, SessionAssumption DEF Sound, Good, Sessions, SessionAssumption
<1>5. Good(a) /\ a.datasets = Others(s, n) \cup {d} /\ a.active = active /\ a.name = s.name
  BY <1>3, <1>4, Adds
<1>6. Sound(a)
  <2>1. active \in a.datasets
    BY <1>1, <1>3, <1>5 DEF Others
  <2>2. \A e \in a.datasets : a.name[e] = Unnamed => e = active
    BY <1>1, <1>3, <1>5, SessionAssumption DEF Sound, Others, SessionAssumption
  <2> QED
    BY <1>5, <2>1, <2>2 DEF Sound
<1>7. Others(s, n) = {e \in datasets : name[e] # n}
  BY <1>3 DEF Others
<1> HIDE DEF a
<1>8. Added(d, n) = a
  BY DEF Added, a, s
<1> QED
  BY <1>3, <1>5, <1>6, <1>7, <1>8

LEMMA Copies ==
  ASSUME IInv, NEW n \in Name, Lookup(s0, n) # active, Copy(n)
  PROVE  IInv'
<1> DEFINE old == proc_execute(body[active])
<1>1. name[active] # n
  BY LookupOwn DEF IInv, s0, Sound
<1>2. PICK d \in Ds \ datasets :
        /\ Becomes(Added(d, n)) /\ failed' = failed
        /\ body' = Keep([body EXCEPT ![active] = old, ![d] = Clone(old)], Added(d, n))
  BY DEF Copy, Added
<1> DEFINE a == Added(d, n)
           b == [body EXCEPT ![active] = old, ![d] = Clone(old)]
<1>3. Sound(a) /\ Becomes(a) /\ body' = Keep(b, a)
  BY <1>1, <1>2, Adding
<1>4. Orderly(old) /\ Quiet(old) /\ active \in Ds
  BY Active, ProcExecuteOrderly
<1>5. Orderly(Clone(old)) /\ Quiet(Clone(old))
  BY <1>4, CloneOrderly
<1> HIDE DEF old
<1>6. /\ b \in [Ds -> Bodies]
      /\ \A e \in Ds : b[e] = IF e = d THEN Clone(old)
                             ELSE IF e = active THEN old ELSE body[e]
  BY <1>4, <1>5 DEF IInv, Orderly
<1>7. \A e \in Ds : Orderly(b[e]) /\ Quiet(b[e])
  BY <1>4, <1>5, <1>6 DEF IInv
<1> HIDE DEF b, a
<1>8. BodiesOK'
  <2>1. \A e \in a.datasets \ {a.active} : Quiet(b[e])
    BY <1>3, <1>7 DEF Sound, Good, Sessions
  <2> QED
    BY <1>3, <1>6, <1>7, <2>1, Keeping
<1>9. Sound(s0)'
  BY <1>3, Becoming
<1> QED
  BY <1>2, <1>8, <1>9 DEF IInv, BodiesOK

(* A name is free when the session does not find it.                       *)
LEMMA FreeName ==
  ASSUME IInv, NEW n \in Name, Lookup(s0, n) = NULL
  PROVE  active \in datasets /\ \A e \in datasets : name[e] # n
<1>1. Sound(s0) /\ s0.active = active /\ s0.datasets = datasets /\ s0.name = name
  BY DEF IInv, s0
<1> QED
  BY <1>1, Lookups DEF Sound, Good

LEMMA Declares ==
  ASSUME IInv, NEW n \in Name, cmd_dataset_declare(n)
  PROVE  IInv'
<1>1. PICK d \in Ds \ datasets : Becomes(Added(d, n))
  BY DEF cmd_dataset_declare, Added
<1>2. Sound(Added(d, n)) /\ Added(d, n).active = active
  BY FreeName, Adding DEF cmd_dataset_declare
<1>3. Sound(s0)' /\ active' = active
  BY <1>1, <1>2, Becoming
<1> QED
  BY <1>3 DEF IInv, cmd_dataset_declare

(* DATASET CLOSE of a dataset by its name, or of the active one.           *)
LEMMA Closes ==
  ASSUME IInv, NEW d \in datasets, Close(d)
  PROVE  IInv'
<1>1. CASE d = active
  BY <1>1, Renames DEF Close, Names
<1>2. CASE d # active
  <2> DEFINE s == Remove(s0, d)
  <2>1. /\ Sound(s0) /\ s0.active = active /\ s0.datasets = datasets /\ s0.name = name
    BY DEF IInv, s0
  <2>2. /\ Good(s) /\ s.datasets = datasets \ {d} /\ s.active = active /\ s.name = name
    BY <2>1, Removes DEF Sound
  <2>3. Sound(s)
    BY <1>2, <2>1, <2>2 DEF Sound
  <2>4. Becomes(s) /\ body' = Keep(body, s) /\ failed' = failed
    BY <1>2 DEF Close
  <2> HIDE DEF s
  <2>5. \A e \in s.datasets \ {s.active} : Quiet(body[e])
    BY <2>2, <2>3 DEF IInv, Sound, Good, Sessions
  <2>6. BodiesOK'
    BY <2>3, <2>4, <2>5, Keeping DEF IInv
  <2>7. Sound(s0)'
    BY <2>3, <2>4, Becoming
  <2> QED
    BY <2>4, <2>6, <2>7 DEF IInv, BodiesOK
<1> QED
  BY <1>1, <1>2

LEMMA ClosesAll ==
  ASSUME IInv, CloseAll
  PROVE  IInv'
<1> DEFINE s == [s0 EXCEPT !.datasets = {active}]
           r == dataset_set_name(s, active, Unnamed)
<1>1. Sound(s0) /\ active \in datasets
  BY DEF IInv, Sound, s0
<1>2. s = [datasets |-> {active}, active |-> active, name |-> name]
  BY DEF s0
<1>3. Good(s) /\ s.active = active /\ s.datasets = {active} /\ s.name = name
  BY <1>1, <1>2 DEF Sound, Good, Sessions, Unique, s0
<1>4. Becomes(r) /\ body' = Keep(body, r) /\ failed' = failed
  BY DEF CloseAll
<1> HIDE DEF s
<1>5. Good(r) /\ r.active = active /\ r.datasets = {active}
  <2>1. s.active \in s.datasets /\ Unnamed \in Names
    BY <1>3 DEF Names
  <2>2. r = dataset_set_name(s, s.active, Unnamed)
    BY <1>3
  <2> HIDE DEF r
  <2>3. /\ Good(r) /\ r.active = s.active
        /\ r.datasets = (Others(s, Unnamed) \ {s.active}) \cup {s.active}
    BY <1>3, <2>1, <2>2, SetsName
  <2> QED
    BY <1>3, <2>3 DEF Others
<1> HIDE DEF r
<1>6. Sound(r)
  BY <1>5 DEF Sound
<1>7. BodiesOK'
  BY <1>4, <1>5, <1>6, Keeping DEF IInv
<1>8. Sound(s0)'
  BY <1>4, <1>6, Becoming
<1> QED
  BY <1>4, <1>7, <1>8 DEF IInv, BodiesOK

-----------------------------------------------------------------------------
(* Commands on the active dataset and on data of a named one.              *)
PutTemporary(b, t, q, v) == [b EXCEPT !.temporary = t, !.queued = q, !.permanent = v]

LEMMA WithTemporary ==
  ASSUME NEW t, NEW q, NEW v, NEW b,
         b = [vars |-> b.vars, source |-> b.source, trns |-> b.trns, queued |-> b.queued,
              temporary |-> b.temporary, temp_trns |-> b.temp_trns,
              permanent |-> b.permanent]
  PROVE  PutTemporary(b, t, q, v) =
           [vars |-> b.vars, source |-> b.source, trns |-> b.trns, queued |-> q,
            temporary |-> t, temp_trns |-> b.temp_trns, permanent |-> v]
<1> DEFINE b1 == [b EXCEPT !.temporary = t]
           b2 == [b1 EXCEPT !.queued = q]
           b3 == [b2 EXCEPT !.permanent = v]
<1>1. b1 = [vars |-> b.vars, source |-> b.source, trns |-> b.trns, queued |-> b.queued,
            temporary |-> t, temp_trns |-> b.temp_trns, permanent |-> b.permanent]
  OBVIOUS
<1>2. PutTemporary(b, t, q, v) = b3
  BY DEF PutTemporary
<1> HIDE DEF b1
<1>3. b1 = [vars |-> b1.vars, source |-> b1.source, trns |-> b1.trns, queued |-> b1.queued,
            temporary |-> b1.temporary, temp_trns |-> b1.temp_trns,
            permanent |-> b1.permanent]
  BY <1>1
<1>4. b2 = [vars |-> b1.vars, source |-> b1.source, trns |-> b1.trns, queued |-> q,
            temporary |-> b1.temporary, temp_trns |-> b1.temp_trns,
            permanent |-> b1.permanent]
  BY <1>3
<1> HIDE DEF b2
<1>5. b2 = [vars |-> b2.vars, source |-> b2.source, trns |-> b2.trns, queued |-> b2.queued,
            temporary |-> b2.temporary, temp_trns |-> b2.temp_trns,
            permanent |-> b2.permanent]
  BY <1>4
<1>6. b3 = [vars |-> b2.vars, source |-> b2.source, trns |-> b2.trns, queued |-> b2.queued,
            temporary |-> b2.temporary, temp_trns |-> b2.temp_trns, permanent |-> v]
  BY <1>5
<1> HIDE DEF b3
<1> QED
  BY <1>1, <1>2, <1>4, <1>6

LEMMA Works ==
  ASSUME IInv,
         \/ Load \/ cmd_new_file \/ cmd_numeric \/ add_transformation
         \/ cmd_temporary \/ cmd_execute
  PROVE  IInv'
<1> DEFINE b == body[active]
<1>1. active \in Ds /\ Orderly(b)
  BY Active
<1>2. b = [vars |-> b.vars, source |-> b.source, trns |-> b.trns, queued |-> b.queued,
           temporary |-> b.temporary, temp_trns |-> b.temp_trns, permanent |-> b.permanent]
  BY <1>1 DEF Orderly, Bodies
<1> HIDE DEF b
<1>3. CASE Load
  BY <1>1, <1>3, SetDictOrderly, Sets, SessionAssumption DEF Load, SessionAssumption
<1>4. CASE cmd_new_file
  BY <1>1, <1>4, ClearOrderly, Sets DEF cmd_new_file, b
<1>5. CASE cmd_numeric
  <2> DEFINE e == [b EXCEPT !.vars = @ + 1]
  <2>1. e = [vars |-> b.vars + 1, source |-> b.source, trns |-> b.trns, queued |-> b.queued,
             temporary |-> b.temporary, temp_trns |-> b.temp_trns, permanent |-> b.permanent]
    BY <1>2
  <2>2. b.vars < MaxVars /\ b.source # NULL /\ Set(active, e)
    BY <1>5 DEF cmd_numeric, MayWithData, b
  <2> HIDE DEF e
  <2>3. b.vars + 1 \in 0 .. MaxVars
    BY <1>1, <2>2, SessionAssumption DEF SessionAssumption, Orderly, Bodies
  <2>4. Orderly(e)
    BY <1>1, <2>1, <2>2, <2>3, SessionAssumption
       DEF SessionAssumption, Orderly, Bodies, Permanent, Data
  <2> QED
    BY <1>1, <2>2, <2>4, Sets
<1>6. CASE add_transformation
  <2> DEFINE e == [b EXCEPT !.temp_trns = @ + 1]
             f == [b EXCEPT !.trns = @ + 1]
  <2>1. e = [vars |-> b.vars, source |-> b.source, trns |-> b.trns, queued |-> b.queued,
             temporary |-> b.temporary, temp_trns |-> b.temp_trns + 1,
             permanent |-> b.permanent]
    BY <1>2
  <2>2. f = [vars |-> b.vars, source |-> b.source, trns |-> b.trns + 1, queued |-> b.queued,
             temporary |-> b.temporary, temp_trns |-> b.temp_trns, permanent |-> b.permanent]
    BY <1>2
  <2>3. /\ b.source # NULL /\ b.source.made + b.trns + b.temp_trns < MaxMade
        /\ Set(active, IF b.temporary THEN e ELSE f)
    BY <1>6 DEF add_transformation, MayWithData, b
  <2> HIDE DEF e, f
  <2>4. /\ b.trns \in Nat /\ b.temp_trns \in Nat /\ b.source.made \in Nat
        /\ b.trns + 1 \in 0 .. MaxMade /\ b.temp_trns + 1 \in 0 .. MaxMade
    BY <1>1, <2>3, SessionAssumption DEF SessionAssumption, Orderly, Bodies, Data
  <2>5. b.temporary => Orderly(e)
    BY <1>1, <2>1, <2>3, <2>4, SessionAssumption
       DEF SessionAssumption, Orderly, Bodies, Permanent
  <2>6. Orderly(f)
    BY <1>1, <2>2, <2>3, <2>4, SessionAssumption
       DEF SessionAssumption, Orderly, Bodies, Permanent
  <2> QED
    BY <1>1, <2>3, <2>5, <2>6, Sets
<1>7. CASE cmd_temporary
  <2>1. PICK q \in BOOLEAN :
          /\ ~ b.temporary
          /\ Set(active, [b EXCEPT !.temporary = TRUE, !.queued = q, !.permanent = b.vars])
    BY <1>7 DEF cmd_temporary, b
  <2> DEFINE e == [b EXCEPT !.temporary = TRUE, !.queued = q, !.permanent = b.vars]
  <2>2. e = [vars |-> b.vars, source |-> b.source, trns |-> b.trns, queued |-> q,
             temporary |-> TRUE, temp_trns |-> b.temp_trns, permanent |-> b.vars]
    <3>1. e = PutTemporary(b, TRUE, q, b.vars)
      BY DEF PutTemporary
    <3> QED
      BY <1>2, <3>1, WithTemporary
  <2>3. b.source # NULL /\ Set(active, e)
    BY <1>7, <2>1 DEF cmd_temporary, MayWithData, b
  <2> HIDE DEF e
  <2>4. Orderly(e)
    BY <1>1, <2>1, <2>2, <2>3, SessionAssumption
       DEF SessionAssumption, Orderly, Bodies, Permanent
  <2> QED
    BY <1>1, <2>3, <2>4, Sets
<1>8. CASE cmd_execute
  BY <1>1, <1>8, ExecutedOrderly, Sets DEF cmd_execute, MayWithData, b
<1> QED
  BY <1>3, <1>4, <1>5, <1>6, <1>7, <1>8

LEMMA Matches ==
  ASSUME IInv, NEW n \in Name, cmd_match_files(n)
  PROVE  IInv'
<1> DEFINE d == Lookup(s0, n)
           b == body[d]
<1>1. /\ d # NULL /\ b.source # NULL
      /\ Set(active, dataset_set_dict(b.vars, b.source.made))
  BY DEF cmd_match_files, dataset_reader_open
<1>2. d \in Ds
  BY <1>1, Lookups DEF IInv, Sound, Good, Sessions
<1>3. b.vars \in 0 .. MaxVars /\ b.source.made \in 0 .. MaxMade
  BY <1>1, <1>2 DEF IInv, Orderly, Bodies, Data
<1> QED
  BY <1>1, <1>3, Active, SetDictOrderly, Sets

LEMMA Aggregates ==
  ASSUME IInv, NEW n \in Name, cmd_aggregate(n)
  PROVE  IInv'
<1> DEFINE d == Lookup(s0, n)
           read == [body EXCEPT ![active] = Executed(@)]
<1>1. d # NULL /\ body[active].source # NULL /\ UNCHANGED <<session, failed>>
  BY DEF cmd_aggregate, MayWithData
<1>2. d \in Ds
  BY <1>1, Lookups DEF IInv, Sound, Good, Sessions
<1>3. Orderly(Executed(body[active])) /\ Quiet(Executed(body[active]))
  BY <1>1, Active, ExecutedOrderly
<1>4. /\ read \in [Ds -> Bodies]
      /\ \A e \in Ds : Orderly(read[e]) /\ Quiet(read[e])
  BY <1>3, Active DEF IInv, Orderly
<1>5. \/ \E v \in 1 .. MaxVars : body' = [read EXCEPT ![d] = dataset_set_dict(v, 0)]
      \/ body' = read
  BY DEF cmd_aggregate
<1> HIDE DEF d, read
<1>6. BodiesOK'
  <2>1. CASE body' = read
    BY <1>4, <2>1 DEF BodiesOK
  <2>2. ASSUME NEW v \in 1 .. MaxVars, body' = [read EXCEPT ![d] = dataset_set_dict(v, 0)]
        PROVE  BodiesOK'
    <3>1. Orderly(dataset_set_dict(v, 0)) /\ Quiet(dataset_set_dict(v, 0))
      BY SetDictOrderly, SessionAssumption DEF SessionAssumption
    <3> QED
      BY <1>2, <1>4, <2>2, <3>1 DEF BodiesOK, Orderly
  <2> QED
    BY <1>5, <2>1, <2>2
<1>7. Sound(s0)'
  BY <1>1, Same
<1> QED
  BY <1>1, <1>6, <1>7 DEF IInv, BodiesOK

-----------------------------------------------------------------------------
LEMMA InitIInv == Init => IInv
<1> SUFFICES ASSUME Init PROVE IInv
  OBVIOUS
<1>1. PICK d \in Ds : datasets = {d} /\ active = d
  BY DEF Init
<1>2. Sound(s0)
  BY <1>1 DEF Init, Sound, Good, Sessions, Unique, s0, Names
<1>3. body = [e \in Ds |-> Empty]
  BY DEF Init
<1>4. body \in [Ds -> Bodies]
  BY <1>3, EmptyOrderly DEF Orderly
<1> QED
  BY <1>2, <1>3, <1>4, EmptyOrderly DEF Init, IInv

LEMMA NextIInv == IInv /\ [Next]_vars => IInv'
<1> SUFFICES ASSUME IInv, [Next]_vars PROVE IInv'
  OBVIOUS
<1>1. ASSUME NEW n \in Name, Command(n)
      PROVE  IInv'
  <2>1. CASE cmd_dataset_name(n)
    BY <2>1, Renames DEF cmd_dataset_name, Names
  <2>2. CASE cmd_dataset_copy(n)
    <3>1. CASE Lookup(s0, n) = active
      BY <2>2, <3>1, Renames DEF cmd_dataset_copy, Names
    <3>2. CASE Lookup(s0, n) # active /\ Copy(n)
      BY <3>2, Copies
    <3>3. CASE CopyFails
      BY <3>3, Same DEF CopyFails, IInv, session
    <3> QED
      BY <2>2, <3>1, <3>2, <3>3 DEF cmd_dataset_copy
  <2>3. CASE cmd_dataset_close(n)
    <3>1. Lookup(s0, n) \in datasets
      BY <2>3, Lookups DEF cmd_dataset_close, IInv, Sound, Good, s0
    <3> QED
      BY <2>3, <3>1, Closes DEF cmd_dataset_close
  <2>4. CASE MatchFails(n)
    BY <2>4, Same DEF MatchFails, IInv, session
  <2> QED
    BY <1>1, <2>1, <2>2, <2>3, <2>4, Activates, Declares, Matches, Aggregates DEF Command
<1>2. CASE Close(active)
  <2>1. active \in datasets
    BY DEF IInv, Sound, s0
  <2> QED
    BY <1>2, <2>1, Closes
<1>3. CASE UNCHANGED vars
  <2>1. UNCHANGED session /\ body' = body /\ failed' = failed
    BY <1>3 DEF vars
  <2> QED
    BY <2>1, Same DEF IInv, session
<1> QED
  BY <1>1, <1>2, <1>3, ClosesAll, Works DEF Next

LEMMA Inductive == Spec => []IInv
BY InitIInv, NextIInv, PTL DEF Spec

(* The session and its datasets keep to their types, the active dataset is *)
(* always one of the session's, and a count of variables, of               *)
(* transformations or of data never leaves its bounds.                     *)
THEOREM TypeCorrect == Spec => []TypeOK
BY Inductive, IInvImplies, PTL

(* Names always find their dataset, and only the active dataset can be     *)
(* without one (session_add_dataset, dataset_set_name), for any number of  *)
(* names and of datasets.                                                  *)
THEOREM Reached == Spec => []NamesReach
BY Inductive, IInvImplies, PTL

(* No dataset is left with transformations pending (proc_execute in the    *)
(* DATASET commands), whatever is queued and however often.                *)
THEOREM Settled == Spec => []NothingPending
BY Inductive, IInvImplies, PTL

-----------------------------------------------------------------------------
(* The refinement of SessionSpec: what a session s with the bodies b has   *)
(* under each name.                                                        *)
Shown(s, b) ==
  [n \in Names |-> IF Lookup(s, n) = NULL THEN NULL ELSE Held(b[Lookup(s, n)])]

LEMMA Shows ==
  ASSUME NEW s, Good(s), NEW b, NEW n \in Names
  PROVE  /\ \A d \in s.datasets : s.name[d] = n => Shown(s, b)[n] = Held(b[d])
         /\ (\A d \in s.datasets : s.name[d] # n) => Shown(s, b)[n] = NULL
<1>1. ASSUME NEW d \in s.datasets, s.name[d] = n PROVE Shown(s, b)[n] = Held(b[d])
  <2>1. Lookup(s, n) = d
    BY <1>1, LookupOwn
  <2>2. d # NULL
    BY SessionAssumption DEF SessionAssumption, Good, Sessions
  <2> QED
    BY <2>1, <2>2 DEF Shown
<1>2. ASSUME \A d \in s.datasets : s.name[d] # n PROVE Shown(s, b)[n] = NULL
  BY <1>2, Lookups DEF Good, Shown
<1> QED
  BY <1>1, <1>2

(* What is shown for the session that a command makes.                     *)
LEMMA ShowsNext ==
  ASSUME NEW s, Sound(s), Becomes(s), NEW b, body' = Keep(b, s)
  PROVE  /\ Shown(s0, body)' = Shown(s, b)
         /\ name'[active'] = s.name[s.active]
         /\ \A d \in Ds \ datasets' : body'[d] = Empty
<1>1. /\ Good(s) /\ s.datasets \subseteq Ds /\ s.active \in s.datasets
      /\ datasets' = s.datasets /\ active' = s.active
      /\ \A d \in s.datasets : name'[d] = s.name[d] /\ s.name[d] \in Names
      /\ \A d \in Ds : body'[d] = IF d \in s.datasets THEN b[d] ELSE Empty
  BY DEF Becomes, Keep, Sound, Good, Sessions
<1>2. Good(s0)' /\ s0' = [datasets |-> datasets', active |-> active', name |-> name']
  BY Becoming DEF Sound, s0
<1>3. ASSUME NEW n \in Names PROVE Shown(s0', body')[n] = Shown(s, b)[n]
  <2>0. Good(s0') /\ s0'.datasets = s.datasets /\ s0'.name = name'
    BY <1>1, <1>2
  <2>1. CASE \E d \in s.datasets : s.name[d] = n
    <3>1. PICK d \in s.datasets : s.name[d] = n
      BY <2>1
    <3>2. Shown(s, b)[n] = Held(b[d])
      BY <1>1, <3>1, Shows
    <3>3. Shown(s0', body')[n] = Held(body'[d])
      BY <1>1, <2>0, <3>1, Shows
    <3> QED
      BY <1>1, <3>2, <3>3
  <2>2. CASE ~ \E d \in s.datasets : s.name[d] = n
    <3>1. Shown(s, b)[n] = NULL
      BY <1>1, <2>2, Shows
    <3>2. Shown(s0', body')[n] = NULL
      BY <1>1, <2>0, <2>2, Shows
    <3> QED
      BY <3>1, <3>2
  <2> QED
    BY <2>1, <2>2
<1>4. Shown(s0', body') = Shown(s, b)
  <2>1. /\ Shown(s0', body') = [n \in Names |-> Shown(s0', body')[n]]
        /\ Shown(s, b) = [n \in Names |-> Shown(s, b)[n]]
    BY DEF Shown
  <2> QED
    BY <1>3, <2>1
<1>5. Shown(s0, body)' = Shown(s0', body')
  BY DEF Shown, Lookup, Held, Permanent
<1> QED
  BY <1>1, <1>4, <1>5

(* Executing what is pending does not change what a dataset counts as      *)
(* holding, and leaves nothing temporary in a clone.                       *)
LEMMA HeldExecuted ==
  ASSUME NEW b, Orderly(b)
  PROVE  /\ b.source # NULL => Held(Executed(b)) = Held(b)
         /\ Held(proc_execute(b)) = Held(b)
         /\ ~ proc_execute(b).temporary => Held(Clone(proc_execute(b))) = Held(b)
         /\ Held(b) \in [vars : 0 .. MaxVars, made : 0 .. MaxMade \cup {NULL}]
<1>1. /\ b \in Bodies /\ (b.source # NULL => b.source \in Data)
      /\ b.trns \in Nat /\ b.temp_trns \in Nat /\ Permanent(b) \in 0 .. MaxVars
  BY SessionAssumption DEF SessionAssumption, Orderly, Bodies, Permanent
<1>2. b.source # NULL =>
        b.source.made \in Nat /\ b.source.made + b.trns + b.temp_trns <= MaxMade
  BY <1>1, SessionAssumption DEF SessionAssumption, Orderly, Data
<1>3. Held(b) \in [vars : 0 .. MaxVars, made : 0 .. MaxMade \cup {NULL}]
  <2>1. b.source # NULL => b.source.made + b.trns \in 0 .. MaxMade
    BY <1>1, <1>2, SessionAssumption DEF SessionAssumption
  <2> QED
    BY <1>1, <2>1 DEF Held
<1>4. ASSUME b.source # NULL PROVE Held(Executed(b)) = Held(b)
  <2> DEFINE f == [vars |-> Permanent(b), made |-> b.source.made + b.trns]
  <2>1. Executed(b) = Holding(Permanent(b), f)
    BY Filled DEF Executed, proc_commit, Sink
  <2>2. f \in Data
    <3>1. b.source.made + b.trns \in 0 .. MaxMade
      BY <1>1, <1>2, <1>4, SessionAssumption DEF SessionAssumption
    <3> QED
      BY <1>1, <3>1 DEF Data
  <2>3. f # NULL
    BY <2>2, ContentsAssumption DEF ContentsAssumption, Data
  <2>4. f.made + 0 = b.source.made + b.trns
    BY <1>1, <1>2, <1>4
  <2> HIDE DEF f
  <2>5. Held(Holding(Permanent(b), f)) = [vars |-> Permanent(b), made |-> f.made + 0]
    BY <2>3 DEF Held, Permanent, Holding
  <2> QED
    BY <1>4, <2>1, <2>4, <2>5 DEF Held
<1>5. HasTransformations(b) => b.source # NULL
  BY DEF HasTransformations, Orderly, Bodies, Quiet
<1>6. Held(proc_execute(b)) = Held(b)
  BY <1>4, <1>5 DEF proc_execute
<1>7. ASSUME ~ proc_execute(b).temporary PROVE Held(Clone(proc_execute(b))) = Held(b)
  <2> DEFINE e == proc_execute(b)
  <2>1. Orderly(e) /\ Quiet(e)
    BY ProcExecuteOrderly
  <2> HIDE DEF e
  <2>2. Clone(e) = Holding(e.vars, e.source)
    BY Filled DEF Clone
  <2>3. Held(Holding(e.vars, e.source)) =
          [vars |-> e.vars, made |-> IF e.source = NULL THEN NULL ELSE e.source.made + 0]
    BY DEF Held, Permanent, Holding
  <2>4. Held(e) =
          [vars |-> e.vars, made |-> IF e.source = NULL THEN NULL ELSE e.source.made + 0]
    BY <1>7, <2>1 DEF Held, Permanent, Quiet, e
  <2> QED
    BY <1>6, <2>2, <2>3, <2>4 DEF e
<1> QED
  BY <1>3, <1>4, <1>6, <1>7

LEMMA HeldEmpty == Held(Empty) = Spec0!EmptyContents
  BY DEF Held, Permanent, Empty, Spec0!EmptyContents

(* A dataset that there may be room for later is empty.                    *)
EmptyElsewhere == \A d \in Ds \ datasets : body[d] = Empty

Stored == Shown(s0, body)

(* A step of the specification of names, or one that it does not see.      *)
Follows == [Spec0!Next]_(Spec0!vars)

(* What the variables of SessionSpec stand for.                            *)
LEMMA Storing ==
  ASSUME IInv
  PROVE  /\ Stored = [n \in Names |-> Stored[n]]
         /\ \A d \in datasets : name[d] \in Names /\ Stored[name[d]] = Held(body[d])
         /\ \A n \in Names : (\A d \in datasets : name[d] # n) => Stored[n] = NULL
         /\ \A n \in Names : Stored[n] # NULL => \E d \in datasets : name[d] = n
<1>1. Good(s0) /\ s0.datasets = datasets /\ s0.name = name
  BY DEF IInv, Sound, s0
<1>2. Stored = [n \in Names |-> Stored[n]]
  BY DEF Stored, Shown
<1>3. \A d \in datasets : name[d] \in Names
  BY <1>1 DEF Good, Sessions
<1> QED
  BY <1>1, <1>2, <1>3, Shows DEF Stored

(* How a session that a command makes changes them.                        *)
LEMMA Changing ==
  ASSUME NEW s, Sound(s), Becomes(s), NEW b, body' = Keep(b, s)
  PROVE  /\ Stored' = [n \in Names |-> Stored'[n]]
         /\ \A d \in s.datasets : s.name[d] \in Names /\ Stored'[s.name[d]] = Held(b[d])
         /\ \A n \in Names : (\A d \in s.datasets : s.name[d] # n) => Stored'[n] = NULL
         /\ name'[active'] = s.name[s.active]
         /\ EmptyElsewhere'
<1>1. Stored' = Shown(s, b) /\ name'[active'] = s.name[s.active] /\ EmptyElsewhere'
  BY ShowsNext DEF Stored, EmptyElsewhere
<1>2. Shown(s, b) = [n \in Names |-> Shown(s, b)[n]]
  BY DEF Shown
<1>3. Good(s) /\ \A d \in s.datasets : s.name[d] \in Names
  BY DEF Sound, Good, Sessions
<1> QED
  BY <1>1, <1>2, <1>3, Shows

(* Nothing that a dataset holds is taken for the absence of a dataset.     *)
LEMMA Present ==
  ASSUME IInv, NEW d \in datasets
  PROVE  /\ Held(body[d]) \in [vars : 0 .. MaxVars, made : 0 .. MaxMade \cup {NULL}]
         /\ Stored[name[d]] # NULL
<1>1. Orderly(body[d])
  BY DEF IInv, Sound, Good, Sessions, s0
<1> QED
  BY <1>1, HeldExecuted, Storing, ContentsAssumption DEF ContentsAssumption

LEMMA Stutters ==
  ASSUME Stored' = Stored, name'[active'] = name[active]
  PROVE  UNCHANGED Spec0!vars
BY DEF Spec0!vars, Stored, Shown, Names

(* dataset_set_name is the renaming of SessionSpec; to the name that the   *)
(* dataset has, it is no step.                                             *)
LEMMA Renaming ==
  ASSUME IInv, NEW n \in Names, Renamed(n)
  PROVE  /\ Spec0!Rename(n)
         /\ n = name[active] => UNCHANGED Spec0!vars
         /\ EmptyElsewhere'
<1> DEFINE r == dataset_set_name(s0, active, n)
           m == name[active]
<1>1. Sound(s0) /\ s0.active = active /\ s0.datasets = datasets /\ s0.name = name
  BY DEF IInv, s0
<1>2. /\ active \in datasets /\ m \in Names /\ name \in [Ds -> Names] /\ datasets \subseteq Ds
      /\ \A d \in datasets : name[d] = m => d = active
  BY <1>1 DEF Sound, Good, Sessions, Unique
<1>3. /\ Good(r) /\ r.active = active
      /\ r.datasets = (Others(s0, n) \ {active}) \cup {active}
      /\ r.name = [name EXCEPT ![active] = n]
  BY <1>1, SetsName DEF Sound
<1>4. r.datasets = {d \in datasets : name[d] # n} \cup {active}
  BY <1>1, <1>3 DEF Others
<1>5. Sound(r)
  <2>1. \A d \in r.datasets : r.name[d] = Unnamed => d = active
    BY <1>1, <1>2, <1>3, <1>4 DEF Sound
  <2> QED
    BY <1>3, <2>1 DEF Sound
<1>6. Becomes(r) /\ body' = Keep(body, r)
  BY DEF Renamed
<1> HIDE DEF r
<1>7. /\ Stored' = [k \in Names |-> Stored'[k]]
      /\ \A d \in r.datasets : Stored'[r.name[d]] = Held(body[d])
      /\ \A k \in Names : (\A d \in r.datasets : r.name[d] # k) => Stored'[k] = NULL
      /\ name'[active'] = n
      /\ EmptyElsewhere'
  <2>1. r.name[r.active] = n
    BY <1>2, <1>3
  <2> QED
    BY <1>5, <1>6, <2>1, Changing
<1>8. Stored'[n] = Stored[m]
  <2>1. active \in r.datasets /\ r.name[active] = n
    BY <1>2, <1>3, <1>4
  <2> QED
    BY <1>2, <1>7, <2>1, Storing
<1>9. n # m => Stored'[m] = NULL
  BY <1>2, <1>3, <1>4, <1>7
<1>10. \A k \in Names \ {n, m} : Stored'[k] = Stored[k]
  <2> SUFFICES ASSUME NEW k \in Names \ {n, m} PROVE Stored'[k] = Stored[k]
    OBVIOUS
  <2>1. CASE \E d \in datasets : name[d] = k
    <3>1. PICK d \in datasets : name[d] = k
      BY <2>1
    <3>2. d \in r.datasets /\ r.name[d] = k
      BY <1>2, <1>3, <1>4, <3>1
    <3> QED
      BY <1>7, <3>1, <3>2, Storing
  <2>2. CASE \A d \in datasets : name[d] # k
    <3>1. \A d \in r.datasets : r.name[d] # k
      BY <1>2, <1>3, <1>4, <2>2
    <3> QED
      BY <1>7, <2>2, <3>1, Storing
  <2> QED
    BY <2>1, <2>2
<1>11. Stored' = [Stored EXCEPT ![m] = NULL, ![n] = Stored[m]]
  BY <1>2, <1>7, <1>8, <1>9, <1>10, Storing
<1>12. Spec0!Rename(n)
  BY <1>7, <1>11 DEF Spec0!Rename, Stored, Shown, Names
<1>13. n = m => UNCHANGED Spec0!vars
  <2>1. n = m => Stored' = Stored
    BY <1>7, <1>8, <1>10, Storing
  <2> QED
    BY <1>7, <2>1, Stutters
<1> QED
  BY <1>7, <1>12, <1>13

(* DATASET ACTIVATE: what is executed on the way out counts as executed    *)
(* already, and an unnamed dataset goes.                                   *)
LEMMA ActivateFollows ==
  ASSUME IInv, NEW n \in Name, cmd_dataset_activate(n)
  PROVE  Spec0!Activate(n) /\ EmptyElsewhere'
<1> DEFINE b == [body EXCEPT ![active] = proc_execute(@)]
<1>1. PICK t : /\ Sound(t) /\ t.name = name
               /\ t.active \in datasets \ {active} /\ name[t.active] = n
               /\ t.datasets = IF name[active] = Unnamed THEN datasets \ {active}
                                                         ELSE datasets
               /\ Becomes(t) /\ body' = Keep(b, t)
  BY Activating
<1>2. /\ active \in datasets /\ name \in [Ds -> Names] /\ datasets \subseteq Ds
      /\ \A d, e \in datasets : name[d] = name[e] => d = e
      /\ \A d \in datasets : name[d] = Unnamed => d = active
  BY DEF IInv, s0, Sound, Good, Sessions, Unique
<1>3. \A d \in datasets : Held(b[d]) = Held(body[d])
  <2>1. Held(proc_execute(body[active])) = Held(body[active])
    BY Active, HeldExecuted
  <2>2. \A d \in datasets : b[d] = IF d = active THEN proc_execute(body[active]) ELSE body[d]
    BY <1>2 DEF IInv
  <2> QED
    BY <2>1, <2>2
<1> HIDE DEF b
<1>4. /\ Stored' = [k \in Names |-> Stored'[k]]
      /\ \A d \in t.datasets : Stored'[name[d]] = Held(b[d])
      /\ \A k \in Names : (\A d \in t.datasets : name[d] # k) => Stored'[k] = NULL
      /\ name'[active'] = n
      /\ EmptyElsewhere'
  BY <1>1, Changing
<1>5. \A k \in Names \ {Unnamed} : Stored'[k] = Stored[k]
  <2> SUFFICES ASSUME NEW k \in Names \ {Unnamed} PROVE Stored'[k] = Stored[k]
    OBVIOUS
  <2>1. CASE \E d \in datasets : name[d] = k
    <3>1. PICK d \in datasets : name[d] = k
      BY <2>1
    <3>2. d \in t.datasets
      BY <1>1, <3>1
    <3> QED
      BY <1>3, <1>4, <3>1, <3>2, Storing
  <2>2. CASE \A d \in datasets : name[d] # k
    BY <1>1, <1>4, <2>2, Storing
  <2> QED
    BY <2>1, <2>2
<1>6. Unnamed \in Names /\ Stored'[Unnamed] = NULL
  <2>1. \A d \in t.datasets : name[d] # Unnamed
    BY <1>1, <1>2
  <2> QED
    BY <1>4, <2>1 DEF Names
<1>7. Stored' = [Stored EXCEPT ![Unnamed] = NULL]
  BY <1>4, <1>5, <1>6, Storing
<1>8. Stored[n] # NULL /\ n # name[active]
  BY <1>1, <1>2, Present
<1> QED
  BY <1>4, <1>7, <1>8 DEF Spec0!Activate, Spec0!Exists, Stored, Shown, Names

(* What a new dataset of the name n changes.                               *)
LEMMA AddFollows ==
  ASSUME IInv, NEW n \in Name, name[active] # n, NEW d \in Ds \ datasets,
         Becomes(Added(d, n)), NEW b, body' = Keep(b, Added(d, n)),
         \A e \in datasets : Held(b[e]) = Held(body[e])
  PROVE  /\ Stored' = [Stored EXCEPT ![n] = Held(b[d])]
         /\ name'[active'] = name[active]
         /\ EmptyElsewhere'
<1> DEFINE a == Added(d, n)
<1>1. /\ Sound(a) /\ a.active = active /\ a.name = [name EXCEPT ![d] = n]
      /\ a.datasets = {e \in datasets : name[e] # n} \cup {d}
  BY Adding
<1>2. Becomes(a) /\ body' = Keep(b, a)
  OBVIOUS
<1>3. active \in datasets /\ name \in [Ds -> Names] /\ datasets \subseteq Ds /\ n \in Names
  BY DEF IInv, s0, Sound, Good, Sessions, Names
<1> HIDE DEF a
<1>4. /\ Stored' = [k \in Names |-> Stored'[k]]
      /\ \A e \in a.datasets : Stored'[a.name[e]] = Held(b[e])
      /\ \A k \in Names : (\A e \in a.datasets : a.name[e] # k) => Stored'[k] = NULL
      /\ name'[active'] = name[active]
      /\ EmptyElsewhere'
  <2>1. a.name[a.active] = name[active]
    BY <1>1, <1>3
  <2>2. /\ Stored' = [k \in Names |-> Stored'[k]]
        /\ \A e \in a.datasets : a.name[e] \in Names /\ Stored'[a.name[e]] = Held(b[e])
        /\ \A k \in Names : (\A e \in a.datasets : a.name[e] # k) => Stored'[k] = NULL
        /\ name'[active'] = a.name[a.active]
        /\ EmptyElsewhere'
    BY <1>1, <1>2, Changing
  <2> QED
    BY <2>1, <2>2
<1>5. Stored'[n] = Held(b[d])
  <2>1. d \in a.datasets /\ a.name[d] = n
    BY <1>1, <1>3
  <2> QED
    BY <1>4, <2>1
<1>6. \A k \in Names \ {n} : Stored'[k] = Stored[k]
  <2> SUFFICES ASSUME NEW k \in Names \ {n} PROVE Stored'[k] = Stored[k]
    OBVIOUS
  <2>1. CASE \E e \in datasets : name[e] = k
    <3>1. PICK e \in datasets : name[e] = k
      BY <2>1
    <3>2. e \in a.datasets /\ a.name[e] = k
      BY <1>1, <1>3, <3>1
    <3> QED
      BY <1>4, <3>1, <3>2, Storing
  <2>2. CASE \A e \in datasets : name[e] # k
    <3>1. \A e \in a.datasets : a.name[e] # k
      BY <1>1, <1>3, <2>2
    <3> QED
      BY <1>4, <2>2, <3>1, Storing
  <2> QED
    BY <2>1, <2>2
<1> QED
  BY <1>3, <1>4, <1>5, <1>6, Storing

(* DATASET COPY: the copy has what the active dataset counts as having.    *)
LEMMA CopyFollows ==
  ASSUME IInv, NEW n \in Name, Lookup(s0, n) # active, Copy(n)
  PROVE  Spec0!Copy(n) /\ EmptyElsewhere'
<1> DEFINE old == proc_execute(body[active])
<1>1. name[active] # n
  BY LookupOwn DEF IInv, s0, Sound
<1>2. PICK d \in Ds \ datasets :
        /\ Becomes(Added(d, n)) /\ ~ old.temporary
        /\ body' = Keep([body EXCEPT ![active] = old, ![d] = Clone(old)], Added(d, n))
  BY DEF Copy, Added
<1> DEFINE b == [body EXCEPT ![active] = old, ![d] = Clone(old)]
<1>3. active \in datasets /\ datasets \subseteq Ds /\ body \in [Ds -> Bodies]
  BY DEF IInv, s0, Sound, Good, Sessions
<1>4. Held(old) = Held(body[active]) /\ Held(Clone(old)) = Held(body[active])
  BY <1>2, Active, HeldExecuted
<1>5. body' = Keep(b, Added(d, n))
  BY <1>2
<1> HIDE DEF old
<1>6. b[d] = Clone(old) /\ \A e \in datasets : b[e] = IF e = active THEN old ELSE body[e]
  BY <1>3
<1>7. \A e \in datasets : Held(b[e]) = Held(body[e])
  BY <1>4, <1>6
<1> HIDE DEF b
<1>8. /\ Stored' = [Stored EXCEPT ![n] = Held(b[d])]
      /\ name'[active'] = name[active]
      /\ EmptyElsewhere'
  BY <1>1, <1>2, <1>5, <1>7, AddFollows
<1>9. Held(b[d]) = Stored[name[active]]
  BY <1>3, <1>4, <1>6, Storing
<1> QED
  BY <1>1, <1>8, <1>9 DEF Spec0!Copy, Stored, Shown, Names

(* DATASET DECLARE: there was nothing of that name, and what is there now  *)
(* is empty.                                                               *)
LEMMA DeclareFollows ==
  ASSUME IInv, EmptyElsewhere, NEW n \in Name, cmd_dataset_declare(n)
  PROVE  Spec0!Declare(n) /\ EmptyElsewhere'
<1>1. PICK d \in Ds \ datasets : Becomes(Added(d, n)) /\ body' = body
  BY DEF cmd_dataset_declare, Added
<1>2. active \in datasets /\ \A e \in datasets : name[e] # n
  BY FreeName DEF cmd_dataset_declare
<1>3. Added(d, n).datasets = datasets \cup {d}
  BY <1>2, Adding, ZenonT(30)
<1>4. body' = Keep(body, Added(d, n))
  BY <1>1, <1>3 DEF Keep, EmptyElsewhere, IInv
<1>5. /\ Stored' = [Stored EXCEPT ![n] = Held(body[d])]
      /\ name'[active'] = name[active]
      /\ EmptyElsewhere'
  BY <1>1, <1>2, <1>4, AddFollows
<1>6. Held(body[d]) = Held(Empty)
  BY <1>1 DEF EmptyElsewhere
<1>7. Stored[n] = NULL
  BY <1>2, Storing DEF Names
<1> QED
  BY <1>5, <1>6, <1>7, HeldEmpty DEF Spec0!Declare, Spec0!Exists, Stored, Shown, Names

(* DATASET CLOSE of the active dataset takes its name from it.             *)
LEMMA CloseActiveFollows ==
  ASSUME IInv, Renamed(Unnamed)
  PROVE  Follows /\ EmptyElsewhere' /\ (name[active] \in Name => Spec0!Close(name[active]))
<1>1. /\ Spec0!Rename(Unnamed) /\ EmptyElsewhere'
      /\ Unnamed = name[active] => UNCHANGED Spec0!vars
  BY Renaming DEF Names
<1>2. active \in datasets
  BY DEF IInv, Sound, s0
<1>3. name[active] \in Names /\ Stored[name[active]] # NULL
  BY <1>2, Storing, Present
<1>4. name[active] \in Name => Spec0!Close(name[active])
  BY <1>1, <1>3 DEF Spec0!Close, Spec0!Exists, Stored, Shown, Names
<1>5. Follows
  <2>1. name[active] \in Name => Follows
    BY <1>4 DEF Follows, Spec0!Next
  <2>2. name[active] = Unnamed => Follows
    BY <1>1 DEF Follows
  <2> QED
    BY <1>3, <2>1, <2>2 DEF Names
<1> QED
  BY <1>1, <1>4, <1>5

(* DATASET CLOSE of another one.                                           *)
LEMMA CloseFollows ==
  ASSUME IInv, NEW n \in Name, cmd_dataset_close(n)
  PROVE  Follows /\ EmptyElsewhere'
<1> DEFINE d == Lookup(s0, n)
<1>1. /\ Sound(s0) /\ s0.active = active /\ s0.datasets = datasets /\ s0.name = name
      /\ s0 \in Sessions
  BY DEF IInv, s0, Sound, Good
<1>2. d \in datasets /\ name[d] = n /\ Close(d)
  BY <1>1, Lookups DEF cmd_dataset_close
<1> HIDE DEF d
<1>3. CASE d = active
  <2>1. Renamed(Unnamed)
    BY <1>2, <1>3 DEF Close
  <2> QED
    BY <2>1, CloseActiveFollows
<1>4. CASE d # active
  <2> DEFINE s == Remove(s0, d)
  <2>1. /\ Good(s) /\ s.datasets = datasets \ {d} /\ s.active = active /\ s.name = name
    BY <1>1, <1>2, Removes DEF Sound
  <2>2. Sound(s)
    BY <1>1, <1>4, <2>1 DEF Sound
  <2>3. Becomes(s) /\ body' = Keep(body, s)
    BY <1>2, <1>4 DEF Close
  <2> HIDE DEF s
  <2>4. /\ Stored' = [k \in Names |-> Stored'[k]]
        /\ \A e \in datasets \ {d} : Stored'[name[e]] = Held(body[e])
        /\ \A k \in Names : (\A e \in datasets \ {d} : name[e] # k) => Stored'[k] = NULL
        /\ name'[active'] = name[active]
        /\ EmptyElsewhere'
    <3>1. /\ Stored' = [k \in Names |-> Stored'[k]]
          /\ \A e \in s.datasets : s.name[e] \in Names /\ Stored'[s.name[e]] = Held(body[e])
          /\ \A k \in Names : (\A e \in s.datasets : s.name[e] # k) => Stored'[k] = NULL
          /\ name'[active'] = s.name[s.active]
          /\ EmptyElsewhere'
      BY <2>2, <2>3, Changing
    <3> QED
      BY <2>1, <3>1
  <2>5. \A e \in datasets : name[e] = n => e = d
    BY <1>1, <1>2 DEF Sound, Good, Unique
  <2>6. n \in Names /\ Stored'[n] = NULL
    BY <2>4, <2>5 DEF Names
  <2>7. \A k \in Names \ {n} : Stored'[k] = Stored[k]
    <3> SUFFICES ASSUME NEW k \in Names \ {n} PROVE Stored'[k] = Stored[k]
      OBVIOUS
    <3>1. CASE \E e \in datasets : name[e] = k
      BY <1>2, <2>4, <3>1, Storing
    <3>2. CASE \A e \in datasets : name[e] # k
      BY <2>4, <3>2, Storing
    <3> QED
      BY <3>1, <3>2
  <2>8. Stored' = [Stored EXCEPT ![n] = NULL]
    BY <2>4, <2>6, <2>7, Storing
  <2>9. Stored[n] # NULL /\ n # name[active]
    <3>1. active \in datasets
      BY <1>1 DEF Sound
    <3> QED
      BY <1>2, <1>4, <2>5, <3>1, Present
  <2>10. Spec0!Close(n)
    BY <2>4, <2>8, <2>9 DEF Spec0!Close, Spec0!Exists, Stored, Shown, Names
  <2> QED
    BY <2>4, <2>10 DEF Follows, Spec0!Next
<1> QED
  BY <1>3, <1>4

(* DATASET CLOSE ALL leaves the active dataset, without a name.            *)
LEMMA CloseAllFollows ==
  ASSUME IInv, CloseAll
  PROVE  Spec0!CloseAll /\ EmptyElsewhere'
<1> DEFINE s == [s0 EXCEPT !.datasets = {active}]
           r == dataset_set_name(s, active, Unnamed)
<1>1. Sound(s0) /\ active \in datasets /\ active \in Ds /\ name \in [Ds -> Names]
  BY DEF IInv, Sound, Good, Sessions, s0
<1>2. s = [datasets |-> {active}, active |-> active, name |-> name]
  BY DEF s0
<1>3. Good(s) /\ s.active = active /\ s.datasets = {active} /\ s.name = name
  BY <1>1, <1>2 DEF Sound, Good, Sessions, Unique, s0
<1>4. Becomes(r) /\ body' = Keep(body, r)
  BY DEF CloseAll
<1> HIDE DEF s
<1>5. /\ Good(r) /\ r.active = active /\ r.datasets = {active}
      /\ r.name = [name EXCEPT ![active] = Unnamed]
  <2>1. s.active \in s.datasets /\ Unnamed \in Names
    BY <1>3 DEF Names
  <2>2. r = dataset_set_name(s, s.active, Unnamed)
    BY <1>3
  <2> HIDE DEF r
  <2>3. /\ Good(r) /\ r.active = s.active
        /\ r.datasets = (Others(s, Unnamed) \ {s.active}) \cup {s.active}
        /\ r.name = [s.name EXCEPT ![s.active] = Unnamed]
    BY <1>3, <2>1, <2>2, SetsName
  <2> QED
    BY <1>3, <2>3 DEF Others
<1> HIDE DEF r
<1>6. Sound(r)
  BY <1>5 DEF Sound
<1>7. r.name[active] = Unnamed
  BY <1>1, <1>5
<1>8. /\ Stored' = [k \in Names |-> Stored'[k]]
      /\ \A d \in r.datasets : r.name[d] \in Names /\ Stored'[r.name[d]] = Held(body[d])
      /\ \A k \in Names : (\A d \in r.datasets : r.name[d] # k) => Stored'[k] = NULL
      /\ name'[active'] = r.name[r.active]
      /\ EmptyElsewhere'
  BY <1>4, <1>6, Changing
<1>9. Stored' = [k \in Names |-> IF k = Unnamed THEN Stored[name[active]] ELSE NULL]
  BY <1>1, <1>5, <1>7, <1>8, Storing
<1> QED
  BY <1>5, <1>7, <1>8, <1>9 DEF Spec0!CloseAll, Spec0!Names, Stored, Shown, Names

(* Work on one dataset, others counting as holding what they did.          *)
LEMMA WorkPuts ==
  ASSUME IInv, IInv', EmptyElsewhere, UNCHANGED session, NEW d \in datasets,
         \A e \in datasets \ {d} : Held(body'[e]) = Held(body[e]),
         \A e \in Ds \ datasets : body'[e] = body[e]
  PROVE  /\ Stored' = [Stored EXCEPT ![name[d]] = Held(body'[d])]
         /\ name'[active'] = name[active]
         /\ Stored[name[d]] = Held(body[d]) /\ Stored[name[d]] # NULL
         /\ Held(body[d]) = Held(body'[d]) => UNCHANGED Spec0!vars
         /\ EmptyElsewhere'
<1> DEFINE c == Held(body'[d])
<1>1. /\ Good(s0) /\ s0.datasets = datasets /\ s0.name = name
      /\ d \in Ds /\ name[d] \in Names
      /\ \A e \in datasets : name[e] = name[d] => e = d
  BY DEF IInv, Sound, Good, Sessions, Unique, s0
<1>2. Stored' = Shown(s0, body')
  BY DEF Stored, Shown, Lookup, Held, Permanent, session, s0
<1>3. /\ Stored' = [k \in Names |-> Stored'[k]]
      /\ \A e \in datasets : Stored'[name[e]] = Held(body'[e])
      /\ \A k \in Names : (\A e \in datasets : name[e] # k) => Stored'[k] = NULL
  <2>1. Shown(s0, body') = [k \in Names |-> Shown(s0, body')[k]]
    BY DEF Shown
  <2>2. \A e \in datasets : name[e] \in Names
    BY <1>1 DEF Good, Sessions
  <2> QED
    BY <1>1, <1>2, <2>1, <2>2, Shows
<1> HIDE DEF c
<1>5. \A k \in Names \ {name[d]} : Stored'[k] = Stored[k]
  <2> SUFFICES ASSUME NEW k \in Names \ {name[d]} PROVE Stored'[k] = Stored[k]
    OBVIOUS
  <2>1. CASE \E e \in datasets : name[e] = k
    BY <1>3, <2>1, Storing
  <2>2. CASE \A e \in datasets : name[e] # k
    BY <1>3, <2>2, Storing
  <2> QED
    BY <2>1, <2>2
<1>6. Stored' = [Stored EXCEPT ![name[d]] = c]
  BY <1>1, <1>3, <1>5, Storing DEF c
<1>7. /\ Stored[name[d]] = Held(body[d]) /\ Stored[name[d]] # NULL
      /\ name'[active'] = name[active]
  BY Storing, Present DEF session
<1>8. Held(body[d]) = c => Stored' = Stored
  BY <1>6, <1>7, Storing
<1> QED
  BY <1>6, <1>7, <1>8, Stutters DEF EmptyElsewhere, session, c

(* The active dataset gets new contents, or counts as holding the same.    *)
LEMMA SetPuts ==
  ASSUME IInv, IInv', EmptyElsewhere, NEW b, Set(active, b)
  PROVE  /\ Spec0!Put(name[active], Held(b))
         /\ Stored[name[active]] = Held(body[active])
         /\ Held(body[active]) = Held(b) => UNCHANGED Spec0!vars
         /\ EmptyElsewhere'
<1>1. active \in datasets /\ active \in Ds /\ datasets \subseteq Ds
  BY DEF IInv, Sound, Good, Sessions, s0
<1>2. body'[active] = b /\ \A e \in Ds \ {active} : body'[e] = body[e]
  BY <1>1 DEF Set, IInv
<1>4. UNCHANGED session
  BY DEF Set
<1>5. /\ Stored' = [Stored EXCEPT ![name[active]] = Held(b)]
      /\ name'[active'] = name[active]
      /\ Stored[name[active]] = Held(body[active])
      /\ Held(body[active]) = Held(b) => UNCHANGED Spec0!vars
      /\ EmptyElsewhere'
  BY <1>1, <1>2, <1>4, WorkPuts
<1> QED
  BY <1>5 DEF Spec0!Put, Stored, Shown, Names

(* What the contents are that the commands give.                           *)
LEMMA HeldSetDict ==
  ASSUME NEW v \in 0 .. MaxVars, NEW m \in 0 .. MaxMade
  PROVE  Held(dataset_set_dict(v, m)) = [vars |-> v, made |-> m]
<1> DEFINE f == [vars |-> v, made |-> m]
<1>1. dataset_set_dict(v, m) = Holding(v, f)
  BY Filled DEF dataset_set_dict
<1>2. f # NULL /\ f.made = m /\ f.made + 0 = m
  <2>1. f \in Data
    BY DEF Data
  <2>2. m + 0 = m
    BY SessionAssumption DEF SessionAssumption
  <2> QED
    BY <2>1, <2>2, ContentsAssumption DEF ContentsAssumption
<1> HIDE DEF f
<1>3. Held(Holding(v, f)) = [vars |-> v, made |-> f.made + 0]
  BY <1>2 DEF Held, Permanent, Holding
<1> QED
  BY <1>1, <1>2, <1>3

LEMMA HeldCleared ==
  ASSUME NEW b, Orderly(b)
  PROVE  \E v \in {0, Held(b).vars} :
           Held(dataset_clear(b)) = [Spec0!EmptyContents EXCEPT !.vars = v]
<1> DEFINE v == IF b.temporary THEN b.permanent ELSE 0
<1>1. Empty = Holding(0, NULL)
  BY DEF Empty, Holding
<1>2. v \in {0, Held(b).vars}
  BY DEF Held, Permanent
<1> HIDE DEF v
<1>3. PutVars(Empty, v) = Holding(v, NULL)
  BY <1>1, WithVars
<1>4. dataset_clear(b) = Holding(v, NULL)
  BY <1>3 DEF dataset_clear, v, PutVars
<1>5. Held(Holding(v, NULL)) = [vars |-> v, made |-> NULL]
  BY DEF Held, Permanent, Holding
<1>6. [Spec0!EmptyContents EXCEPT !.vars = v] = [vars |-> v, made |-> NULL]
  BY DEF Spec0!EmptyContents
<1> QED
  BY <1>2, <1>4, <1>5, <1>6

(* Data that fit are all that the variables are.                           *)
LEMMA Fitting ==
  ASSUME NEW b, Orderly(b), b.source # NULL, Fits(b)
  PROVE  /\ b.vars \in 0 .. MaxVars /\ b.source.made \in 0 .. MaxMade
         /\ b.vars = Permanent(b)
  BY SessionAssumption DEF SessionAssumption, Orderly, Bodies, Data, Fits, Permanent

(* A step that leaves the session and the bodies as they are.              *)
LEMMA IdleFollows ==
  ASSUME EmptyElsewhere, UNCHANGED session, body' = body
  PROVE  Follows /\ EmptyElsewhere'
<1>1. Stored' = Stored /\ name'[active'] = name[active]
  BY DEF Stored, Shown, Lookup, Held, Permanent, session, s0
<1> QED
  BY <1>1, Stutters DEF Follows, EmptyElsewhere, session

(* Every one of these commands does to the active dataset what SessionSpec *)
(* says of it.                                                             *)
LEMMA LoadFollows ==
  ASSUME IInv, IInv', EmptyElsewhere, Load
  PROVE  Spec0!Load /\ EmptyElsewhere'
<1>1. PICK v \in 1 .. MaxVars : Set(active, dataset_set_dict(v, 0))
  BY DEF Load
<1>2. v \in 0 .. MaxVars /\ 0 \in 0 .. MaxMade
  BY SessionAssumption DEF SessionAssumption
<1>3. Held(dataset_set_dict(v, 0)) = [vars |-> v, made |-> 0]
  BY <1>2, HeldSetDict
<1>4. Spec0!Put(name[active], [vars |-> v, made |-> 0]) /\ EmptyElsewhere'
  BY <1>1, <1>3, SetPuts
<1> QED
  BY <1>4 DEF Spec0!Load

LEMMA NewFileFollows ==
  ASSUME IInv, IInv', EmptyElsewhere, cmd_new_file
  PROVE  Spec0!NewFile /\ EmptyElsewhere'
<1> DEFINE b == body[active]
<1>1. Orderly(b) /\ Set(active, dataset_clear(b))
  BY Active DEF cmd_new_file
<1>2. PICK v \in {0, Held(b).vars} :
        Held(dataset_clear(b)) = [Spec0!EmptyContents EXCEPT !.vars = v]
  BY <1>1, HeldCleared
<1>3. /\ Spec0!Put(name[active], [Spec0!EmptyContents EXCEPT !.vars = v])
      /\ Stored[name[active]].vars = Held(b).vars /\ EmptyElsewhere'
  BY <1>1, <1>2, SetPuts
<1> QED
  BY <1>3 DEF Spec0!NewFile, Stored, Shown, Names

(* What the active dataset shows of one of its fields.                     *)
LEMMA HeldFields ==
  ASSUME IInv, body[active].source # NULL
  PROVE  LET b == body[active] IN
         /\ Held(b) = [vars |-> Permanent(b), made |-> b.source.made + b.trns]
         /\ b.source.made \in Nat /\ b.trns \in Nat /\ b.temp_trns \in Nat
         /\ Permanent(b) \in Nat /\ b.vars \in Nat
         /\ b.source.made + b.trns # NULL
<1> DEFINE b == body[active]
<1>1. Orderly(b)
  BY Active
<1>2. /\ b.source.made \in Nat /\ b.trns \in Nat /\ b.temp_trns \in Nat
      /\ Permanent(b) \in Nat /\ b.vars \in Nat
      /\ Permanent(b) \in 0 .. MaxVars
      /\ b.source.made + b.trns \in 0 .. MaxMade
  BY <1>1, SessionAssumption DEF SessionAssumption, Orderly, Bodies, Data, Permanent
<1>3. b.source.made + b.trns # NULL
  BY <1>2, ContentsAssumption DEF ContentsAssumption
<1> QED
  BY <1>2, <1>3 DEF Held

(* NUMERIC shows unless TEMPORARY hides it.                                *)
LEMMA NumericFollows ==
  ASSUME IInv, IInv', EmptyElsewhere, cmd_numeric
  PROVE  Follows /\ EmptyElsewhere'
<1> DEFINE b == body[active]
           e == [b EXCEPT !.vars = @ + 1]
<1>1. b = [vars |-> b.vars, source |-> b.source, trns |-> b.trns, queued |-> b.queued,
           temporary |-> b.temporary, temp_trns |-> b.temp_trns, permanent |-> b.permanent]
  BY Active DEF Orderly, Bodies
<1>2. b.source # NULL /\ b.vars < MaxVars /\ Set(active, e)
  BY DEF cmd_numeric, MayWithData
<1>3. /\ Held(b) = [vars |-> Permanent(b), made |-> b.source.made + b.trns]
      /\ b.source.made + b.trns # NULL
  BY <1>2, HeldFields
<1> HIDE DEF b
<1>4. e = [vars |-> b.vars + 1, source |-> b.source, trns |-> b.trns, queued |-> b.queued,
           temporary |-> b.temporary, temp_trns |-> b.temp_trns, permanent |-> b.permanent]
  BY <1>1
<1> HIDE DEF e
<1>5. Held(e) = [vars |-> IF b.temporary THEN b.permanent ELSE b.vars + 1,
                 made |-> b.source.made + b.trns]
  BY <1>2, <1>4 DEF Held, Permanent
<1>6. /\ Spec0!Put(name[active], Held(e))
      /\ Stored[name[active]] = Held(b)
      /\ Held(b) = Held(e) => UNCHANGED Spec0!vars
      /\ EmptyElsewhere'
  BY <1>2, SetPuts DEF b
<1>7. CASE b.temporary
  BY <1>3, <1>5, <1>6, <1>7 DEF Permanent, Follows
<1>8. CASE ~ b.temporary
  <2>1. /\ Held(b) = [vars |-> b.vars, made |-> b.source.made + b.trns]
        /\ Held(e) = [vars |-> b.vars + 1, made |-> b.source.made + b.trns]
    BY <1>3, <1>5, <1>8 DEF Permanent
  <2>2. Held(e) = [Held(b) EXCEPT !.vars = @ + 1]
    BY <2>1
  <2>3. Held(b).made # NULL /\ Held(b).vars < MaxVars
    BY <1>2, <1>3, <2>1
  <2>4. Spec0!Numeric
    BY <1>6, <2>2, <2>3 DEF Spec0!Numeric, Spec0!HasData, Stored, Shown, Names
  <2> QED
    BY <1>6, <2>4 DEF Follows, Spec0!Next
<1> QED
  BY <1>7, <1>8

(* A transformation counts as executed, unless it is temporary.            *)
LEMMA TransformFollows ==
  ASSUME IInv, IInv', EmptyElsewhere, add_transformation
  PROVE  Follows /\ EmptyElsewhere'
<1> DEFINE b == body[active]
           e == [b EXCEPT !.temp_trns = @ + 1]
           f == [b EXCEPT !.trns = @ + 1]
<1>1. b = [vars |-> b.vars, source |-> b.source, trns |-> b.trns, queued |-> b.queued,
           temporary |-> b.temporary, temp_trns |-> b.temp_trns, permanent |-> b.permanent]
  BY Active DEF Orderly, Bodies
<1>2. /\ b.source # NULL /\ b.source.made + b.trns + b.temp_trns < MaxMade
      /\ Set(active, IF b.temporary THEN e ELSE f)
  BY DEF add_transformation, MayWithData
<1>3. /\ Held(b) = [vars |-> Permanent(b), made |-> b.source.made + b.trns]
      /\ b.source.made \in Nat /\ b.trns \in Nat /\ b.temp_trns \in Nat
      /\ b.source.made + b.trns # NULL
  BY <1>2, HeldFields
<1> HIDE DEF b
<1>4. CASE b.temporary
  <2>1. e = [vars |-> b.vars, source |-> b.source, trns |-> b.trns, queued |-> b.queued,
             temporary |-> b.temporary, temp_trns |-> b.temp_trns + 1,
             permanent |-> b.permanent]
    BY <1>1
  <2>2. Set(active, e)
    BY <1>2, <1>4
  <2> HIDE DEF e
  <2>3. Held(e) = Held(b)
    BY <1>4, <2>1 DEF Held, Permanent
  <2> QED
    BY <2>2, <2>3, SetPuts DEF b, Follows
<1>5. CASE ~ b.temporary
  <2>1. f = [vars |-> b.vars, source |-> b.source, trns |-> b.trns + 1, queued |-> b.queued,
             temporary |-> b.temporary, temp_trns |-> b.temp_trns, permanent |-> b.permanent]
    BY <1>1
  <2>2. Set(active, f)
    BY <1>2, <1>5
  <2> HIDE DEF f
  <2>3. Held(f) = [vars |-> Permanent(b), made |-> b.source.made + b.trns + 1]
    <3>1. Held(f) = [vars |-> Permanent(b), made |-> b.source.made + (b.trns + 1)]
      BY <1>2, <2>1 DEF Held, Permanent
    <3>2. b.source.made + (b.trns + 1) = b.source.made + b.trns + 1
      BY <1>3
    <3> QED
      BY <3>1, <3>2
  <2>4. Held(f) = [Held(b) EXCEPT !.made = @ + 1]
    BY <1>3, <2>3
  <2>5. Held(b).made # NULL /\ Held(b).made < MaxMade
    <3>1. b.source.made + b.trns < MaxMade
      BY <1>2, <1>3, SessionAssumption DEF SessionAssumption
    <3> QED
      BY <1>3, <3>1
  <2>6. /\ Spec0!Put(name[active], Held(f)) /\ Stored[name[active]] = Held(b)
        /\ EmptyElsewhere'
    BY <2>2, SetPuts DEF b
  <2>7. Spec0!Transform
    BY <2>4, <2>5, <2>6 DEF Spec0!Transform, Spec0!HasData, Stored, Shown, Names
  <2> QED
    BY <2>6, <2>7 DEF Follows, Spec0!Next
<1> QED
  BY <1>4, <1>5

(* TEMPORARY does not show.                                                *)
LEMMA TemporaryFollows ==
  ASSUME IInv, IInv', EmptyElsewhere, cmd_temporary
  PROVE  Follows /\ EmptyElsewhere'
<1> DEFINE b == body[active]
<1>1. b = [vars |-> b.vars, source |-> b.source, trns |-> b.trns, queued |-> b.queued,
           temporary |-> b.temporary, temp_trns |-> b.temp_trns, permanent |-> b.permanent]
  BY Active DEF Orderly, Bodies
<1>2. PICK q \in BOOLEAN :
        Set(active, [b EXCEPT !.temporary = TRUE, !.queued = q, !.permanent = b.vars])
  BY DEF cmd_temporary
<1>3. ~ b.temporary
  BY DEF cmd_temporary
<1> HIDE DEF b
<1> DEFINE e == [b EXCEPT !.temporary = TRUE, !.queued = q, !.permanent = b.vars]
<1>4. e = [vars |-> b.vars, source |-> b.source, trns |-> b.trns, queued |-> q,
           temporary |-> TRUE, temp_trns |-> b.temp_trns, permanent |-> b.vars]
  <2>1. e = PutTemporary(b, TRUE, q, b.vars)
    BY DEF PutTemporary
  <2> QED
    BY <1>1, <2>1, WithTemporary
<1> HIDE DEF e
<1>5. Held(e) = Held(b)
  <2>1. /\ e.temporary = TRUE /\ e.permanent = b.vars
        /\ e.source = b.source /\ e.trns = b.trns
    BY <1>4
  <2> QED
    BY <1>3, <2>1 DEF Held, Permanent
<1>6. Set(active, e)
  BY <1>2 DEF e
<1> QED
  BY <1>5, <1>6, SetPuts DEF b, Follows

(* EXECUTE does what already counts as done.                               *)
LEMMA ExecuteFollows ==
  ASSUME IInv, IInv', EmptyElsewhere, cmd_execute
  PROVE  Follows /\ EmptyElsewhere'
<1>1. body[active].source # NULL /\ Set(active, Executed(body[active]))
  BY DEF cmd_execute, MayWithData
<1>2. Held(Executed(body[active])) = Held(body[active])
  BY <1>1, Active, HeldExecuted
<1> QED
  BY <1>1, <1>2, SetPuts DEF Follows

(* MATCH FILES makes the active dataset the one it reads.                  *)
LEMMA MatchFollows ==
  ASSUME IInv, IInv', EmptyElsewhere, NEW n \in Name, cmd_match_files(n)
  PROVE  Spec0!MatchFiles(n) /\ EmptyElsewhere'
<1> DEFINE d == Lookup(s0, n)
           b == body[d]
           c == [vars |-> b.vars, made |-> b.source.made]
<1>1. /\ Sound(s0) /\ s0.active = active /\ s0.datasets = datasets /\ s0.name = name
      /\ s0 \in Sessions /\ active \in datasets /\ datasets \subseteq Ds
  BY DEF IInv, s0, Sound, Good, Sessions
<1>2. /\ d # NULL /\ b.source # NULL /\ Fits(b)
      /\ Set(active, dataset_set_dict(b.vars, b.source.made))
  BY DEF cmd_match_files, dataset_reader_open
<1>3. d \in datasets /\ name[d] = n
  BY <1>1, <1>2, Lookups
<1>4. Orderly(b) /\ (d # active => Quiet(b))
  BY <1>1, <1>3 DEF IInv
<1>5. b.vars \in 0 .. MaxVars /\ b.source.made \in 0 .. MaxMade /\ b.vars = Permanent(b)
  BY <1>2, <1>4, Fitting
<1>6. Held(dataset_set_dict(b.vars, b.source.made)) = c
  BY <1>5, HeldSetDict
<1>7. Held(b) = [vars |-> b.vars, made |-> b.source.made + b.trns]
  BY <1>2, <1>5 DEF Held
<1>8. b.trns \in Nat /\ b.source.made \in Nat /\ b.source.made + b.trns \in 0 .. MaxMade
  BY <1>2, <1>4, SessionAssumption DEF SessionAssumption, Orderly, Bodies, Data
<1>9. /\ Spec0!Put(name[active], c) /\ EmptyElsewhere'
      /\ Stored[n] = Held(b) /\ Stored[n] # NULL
  BY <1>1, <1>2, <1>3, <1>6, SetPuts, Storing, Present
<1>10. Held(b).made # NULL
  BY <1>7, <1>8, ContentsAssumption DEF ContentsAssumption
<1> HIDE DEF d, b
<1>11. CASE d = active
  <2>1. n = name[active] /\ b.source.made \in 0 .. Held(b).made
    BY <1>3, <1>7, <1>8, <1>11
  <2>2. c = [Held(b) EXCEPT !.made = b.source.made]
    BY <1>7
  <2> HIDE DEF c
  <2> QED
    BY <1>9, <1>10, <2>1, <2>2
       DEF Spec0!MatchFiles, Spec0!Exists, Spec0!HasData, Stored, Shown, Names
<1>12. CASE d # active
  <2>1. n # name[active]
    BY <1>1, <1>3, <1>12 DEF Sound, Good, Unique
  <2>2. Held(b) = c
    BY <1>4, <1>7, <1>8, <1>12 DEF Quiet
  <2> HIDE DEF c
  <2> QED
    BY <1>9, <1>10, <2>1, <2>2
       DEF Spec0!MatchFiles, Spec0!Exists, Spec0!HasData, Stored, Shown, Names
<1> QED
  BY <1>11, <1>12

(* AGGREGATE commits what it reads, and then gives the summary to the      *)
(* dataset that it names, or to none.                                      *)
LEMMA AggregateFollows ==
  ASSUME IInv, IInv', EmptyElsewhere, NEW n \in Name, cmd_aggregate(n)
  PROVE  Follows /\ EmptyElsewhere'
<1> DEFINE d == Lookup(s0, n)
           read == [body EXCEPT ![active] = Executed(@)]
<1>1. /\ Sound(s0) /\ s0.active = active /\ s0.datasets = datasets /\ s0.name = name
      /\ s0 \in Sessions
  BY DEF IInv, s0, Sound, Good
<1>2. d # NULL /\ body[active].source # NULL /\ UNCHANGED session
  BY DEF cmd_aggregate, MayWithData
<1>3. d \in datasets /\ name[d] = n
  BY <1>1, <1>2, Lookups
<1>4. active \in datasets /\ datasets \subseteq Ds /\ body \in [Ds -> Bodies]
  BY <1>1 DEF Sound, Good, Sessions, IInv
<1>5. Held(Executed(body[active])) = Held(body[active])
  BY <1>2, Active, HeldExecuted
<1>6. /\ \A e \in Ds : read[e] = IF e = active THEN Executed(body[active]) ELSE body[e]
      /\ DOMAIN read = Ds
  BY <1>4
<1>7. \/ \E v \in 1 .. MaxVars : body' = [read EXCEPT ![d] = dataset_set_dict(v, 0)]
      \/ body' = read
  BY DEF cmd_aggregate
<1> HIDE DEF d, read
<1>8. /\ \A e \in Ds \ {d} :
           body'[e] = IF e = active THEN Executed(body[active]) ELSE body[e]
      /\ \/ \E v \in 1 .. MaxVars : body'[d] = dataset_set_dict(v, 0)
         \/ body'[d] = IF d = active THEN Executed(body[active]) ELSE body[d]
  BY <1>3, <1>4, <1>6, <1>7
<1>9. /\ \A e \in datasets \ {d} : Held(body'[e]) = Held(body[e])
      /\ \A e \in Ds \ datasets : body'[e] = body[e]
  BY <1>3, <1>4, <1>5, <1>8
<1>10. /\ Stored' = [Stored EXCEPT ![n] = Held(body'[d])]
       /\ name'[active'] = name[active]
       /\ Stored[n] = Held(body[d]) /\ Stored[n] # NULL
       /\ Held(body[d]) = Held(body'[d]) => UNCHANGED Spec0!vars
       /\ EmptyElsewhere'
  BY <1>2, <1>3, <1>9, WorkPuts
<1>11. CASE \E v \in 1 .. MaxVars : body'[d] = dataset_set_dict(v, 0)
  <2>1. PICK v \in 1 .. MaxVars : body'[d] = dataset_set_dict(v, 0)
    BY <1>11
  <2>2. v \in 0 .. MaxVars /\ 0 \in 0 .. MaxMade
    BY SessionAssumption DEF SessionAssumption
  <2>3. Held(body'[d]) = [vars |-> v, made |-> 0]
    BY <2>1, <2>2, HeldSetDict
  <2>4. Spec0!Put(n, [vars |-> v, made |-> 0])
    BY <1>10, <2>3 DEF Spec0!Put, Stored, Shown, Names
  <2>5. Stored[name[active]].made # NULL
    <3>1. Stored[name[active]] = Held(body[active])
      BY <1>4, Storing
    <3> QED
      BY <1>2, <3>1, HeldFields
  <2>6. Spec0!Aggregate(n)
    BY <1>10, <2>4, <2>5
       DEF Spec0!Aggregate, Spec0!Exists, Spec0!HasData, Stored, Shown, Names
  <2> QED
    BY <1>10, <2>6 DEF Follows, Spec0!Next
<1>12. CASE body'[d] = IF d = active THEN Executed(body[active]) ELSE body[d]
  <2>1. Held(body'[d]) = Held(body[d])
    BY <1>5, <1>12
  <2> QED
    BY <1>10, <2>1 DEF Follows
<1> QED
  BY <1>8, <1>11, <1>12

LEMMA NextFollows == IInv /\ EmptyElsewhere /\ [Next]_vars => Follows /\ EmptyElsewhere'
<1> SUFFICES ASSUME IInv, EmptyElsewhere, [Next]_vars PROVE Follows /\ EmptyElsewhere'
  OBVIOUS
<1>0. IInv'
  BY NextIInv
<1>1. ASSUME NEW n \in Name, Command(n)
      PROVE  Follows /\ EmptyElsewhere'
  <2>1. CASE cmd_dataset_name(n)
    BY <2>1, Renaming DEF cmd_dataset_name, Names, Follows, Spec0!Next, Spec0!DatasetName
  <2>2. CASE cmd_dataset_activate(n)
    BY <2>2, ActivateFollows DEF Follows, Spec0!Next
  <2>3. CASE cmd_dataset_copy(n)
    <3>1. CASE Lookup(s0, n) = active
      BY <2>3, <3>1, CloseActiveFollows DEF cmd_dataset_copy
    <3>2. CASE Lookup(s0, n) # active /\ Copy(n)
      BY <3>2, CopyFollows DEF Follows, Spec0!Next
    <3>3. CASE CopyFails
      BY <3>3, IdleFollows DEF CopyFails
    <3> QED
      BY <2>3, <3>1, <3>2, <3>3 DEF cmd_dataset_copy
  <2>4. CASE cmd_dataset_declare(n)
    BY <2>4, DeclareFollows DEF Follows, Spec0!Next
  <2>5. CASE cmd_dataset_close(n)
    BY <2>5, CloseFollows
  <2>6. CASE cmd_match_files(n)
    BY <1>0, <2>6, MatchFollows DEF Follows, Spec0!Next
  <2>7. CASE MatchFails(n)
    BY <2>7, IdleFollows DEF MatchFails
  <2>8. CASE cmd_aggregate(n)
    BY <1>0, <2>8, AggregateFollows
  <2> QED
    BY <1>1, <2>1, <2>2, <2>3, <2>4, <2>5, <2>6, <2>7, <2>8 DEF Command
<1>2. CASE Close(active)
  BY <1>2, CloseActiveFollows DEF Close
<1>3. CASE CloseAll
  BY <1>3, CloseAllFollows DEF Follows, Spec0!Next
<1>4. CASE Load
  BY <1>0, <1>4, LoadFollows DEF Follows, Spec0!Next
<1>5. CASE cmd_new_file
  BY <1>0, <1>5, NewFileFollows DEF Follows, Spec0!Next
<1>6. CASE cmd_numeric
  BY <1>0, <1>6, NumericFollows
<1>7. CASE add_transformation
  BY <1>0, <1>7, TransformFollows
<1>8. CASE cmd_temporary
  BY <1>0, <1>8, TemporaryFollows
<1>9. CASE cmd_execute
  BY <1>0, <1>9, ExecuteFollows
<1>10. CASE UNCHANGED vars
  BY <1>10, IdleFollows DEF vars
<1> QED
  BY <1>1, <1>2, <1>3, <1>4, <1>5, <1>6, <1>7, <1>8, <1>9, <1>10 DEF Next

LEMMA InitFollows == Init => Spec0!Init /\ EmptyElsewhere
<1> SUFFICES ASSUME Init PROVE Spec0!Init /\ EmptyElsewhere
  OBVIOUS
<1>1. PICK d \in Ds : datasets = {d} /\ active = d
  BY DEF Init
<1>2. name = [e \in Ds |-> Unnamed] /\ body = [e \in Ds |-> Empty]
  BY DEF Init
<1>3. IInv
  BY InitIInv
<1>4. /\ Stored = [n \in Names |-> Stored[n]] /\ Stored[Unnamed] = Held(Empty)
      /\ \A n \in Names \ {Unnamed} : Stored[n] = NULL
  BY <1>1, <1>2, <1>3, Storing
<1>5. Stored = [n \in Names |-> IF n = Unnamed THEN Held(Empty) ELSE NULL]
  BY <1>4
<1>6. name[active] = Unnamed
  BY <1>1, <1>2
<1> QED
  BY <1>2, <1>5, <1>6, HeldEmpty DEF Spec0!Init, Spec0!Names, Stored, Shown, Names, EmptyElsewhere

(* The session implements SessionSpec: whatever is executed late, renamed  *)
(* by taking a dataset out and putting it back, cloned or destroyed, each  *)
(* name has the contents that the manual says the DATASET commands give it *)
(* (dataset_set_name, session_add_dataset, session_remove_dataset,         *)
(* proc_execute, dataset_clone).                                           *)
THEOREM Implements == Spec => IsSession
<1>1. Init => Spec0!Init /\ EmptyElsewhere
  BY InitFollows
<1>2. IInv /\ EmptyElsewhere /\ [Next]_vars => [Spec0!Next]_(Spec0!vars) /\ EmptyElsewhere'
  BY NextFollows DEF Follows
<1> QED
  BY <1>1, <1>2, Inductive, PTL DEF Spec, IsSession, Spec0!Spec
=============================================================================
