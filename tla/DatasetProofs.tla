--------------------------- MODULE DatasetProofs ---------------------------
(***************************************************************************)
(* Proofs about Dataset, for any data, limits, lags and lengths of chains, *)
(* and any selection of commands: the dictionary fits the data, guesses    *)
(* see the new file, and no limit is forgotten.                            *)
(***************************************************************************)
EXTENDS Dataset, SequenceTheorems, NaturalsInduction, WellFoundedInduction, TLAPS

Value == 0..NCases
Kinds == {"num", "order", "lag", "select", "filter", "limit", "fail", "mg"}
Transformation ==
  {t \in [kind : Kinds, n : Nat, seen : Seq(Value)] : t.kind = "lag" => t.n # 0}

Fields == {"source", "preinited", "dict", "permanent_dict", "permanent_trns_chain",
           "temporary_trns_chain", "temporary", "order_var", "sink", "discard_output",
           "n_lag", "lag", "proc_state", "cases_written", "ok"}

(* What holds of a dataset at any time.                                    *)
Shaped(d) ==
  /\ DOMAIN d = Fields
  /\ d.dict \in Dict
  /\ {d.temporary, d.order_var, d.discard_output, d.ok} \subseteq BOOLEAN
  /\ d.preinited \in SUBSET Names
  /\ d.n_lag \in 0..MaxLag
  /\ {d.permanent_trns_chain, d.temporary_trns_chain} \subseteq Seq(Transformation)
  /\ \A i \in DOMAIN d.temporary_trns_chain : d.temporary_trns_chain[i].kind # "mg"

(* Without a procedure there is a second dictionary after TEMPORARY only.  *)
Scoped(d) ==
  IF d.temporary
    THEN /\ d.permanent_dict \in Dict
         /\ d.permanent_dict.vars \subseteq d.dict.vars /\ d.permanent_dict.limit = 0
    ELSE d.permanent_dict = NULL /\ d.temporary_trns_chain = <<>>

(* The dictionary that the next commit or cancellation leaves behind.      *)
Lasting(d) == IF d.temporary THEN d.permanent_dict ELSE d.dict

(* Only TEMPORARY has queued a guess so far, and nothing behind it.        *)
GuessWaits(d) ==
  \A i \in DOMAIN d.permanent_trns_chain :
    d.permanent_trns_chain[i].kind = "mg" =>
      d.temporary /\ i = Len(d.permanent_trns_chain) /\ d.permanent_trns_chain[i].seen = <<>>

(* All cases of the source have the same variables.                        *)
Columns(d, names) ==
  /\ "x" \in names
  /\ d.source.cases \in Seq([names -> Value]) /\ Len(d.source.cases) <= NCases

Sourced(d) ==
  /\ d.source \in Source
  /\ \E names \in SUBSET Names :
       /\ Columns(d, names)
       /\ d.preinited \subseteq names /\ names \subseteq Lasting(d).vars

(* Between procedures.                                                     *)
Idle(d) ==
  /\ Shaped(d) /\ Scoped(d) /\ GuessWaits(d)
  /\ d.source = NULL \/ Sourced(d)
  /\ d.sink = NULL /\ d.lag = <<>> /\ ~d.discard_output /\ ~d.order_var
  /\ d.proc_state = "committed" /\ d.cases_written \in 0..NCases

(* A guess is the last of its chain and has seen these cases.              *)
Sees(chain, cases) ==
  \A i \in DOMAIN chain :
    chain[i].kind = "mg" =>
      i = Len(chain) /\ chain[i].seen = [j \in DOMAIN cases |-> cases[j]["x"]]

GuessFollows(d) == Sees(d.permanent_trns_chain, d.sink.cases)

SinkOK(d) ==
  IF d.discard_output THEN d.sink = NULL
  ELSE /\ d.sink \in Sink
       /\ d.sink.vars = d.permanent_dict.vars
       /\ d.sink.cases \in Seq([d.sink.vars -> Value])
       /\ Len(d.sink.cases) = d.cases_written
       /\ GuessFollows(d)

(* While a procedure has the dataset open.                                 *)
Busy(d) ==
  /\ Shaped(d)
  /\ d.permanent_dict \in Dict
  /\ d.permanent_dict.vars \subseteq d.dict.vars /\ "x" \in d.permanent_dict.vars
  /\ d.temporary \/ d.permanent_dict.vars = d.dict.vars
  /\ d.cases_written \in 0..NCases
  /\ d.lag \in Seq([d.dict.vars -> Value]) /\ Len(d.lag) <= d.n_lag
  /\ SinkOK(d)
  /\ \/ d.proc_state = "closed" /\ d.source = NULL
     \/ /\ d.proc_state = "open" /\ d.source \in Source
        /\ d.source.cases \in Seq([d.dict.vars -> Value])
        /\ Len(d.source.cases) + d.cases_written <= NCases

InProcedure ==
  /\ Busy(ds)
  /\ delivered \in Seq([ds.dict.vars -> Value]) /\ Len(delivered) <= ds.cases_written
  /\ ds.discard_output <=> command = "sort cases"
  /\ command = "sort cases" => ~ds.temporary

(* An assertion of dataset_reorder_vars fails between commands.            *)
Stuck == "dataset_reorder_vars" \in aborts

(* The inductive invariant of TypeOK, DictFitsData and GuessSeesTheFile.   *)
IInv ==
  /\ TypeOK /\ DictFitsData /\ GuessSeesTheFile
  /\ reading # "no" => ds.proc_state = "open"
  /\ ~Stuck => IF command = "none" THEN Idle(ds) ELSE InProcedure

-----------------------------------------------------------------------------
(* Constants, cases and numbers.                                           *)
LEMMA Numbers ==
  /\ NCases \in Nat /\ MaxLag \in Nat /\ Limits \cup {0} \subseteq Nat
  /\ Value \subseteq Nat /\ 0 \in Value /\ 1..NCases \subseteq Value
  /\ NULL \notin Dict /\ NULL \notin Source /\ NULL \notin Sink
BY DatasetAssumption DEF DatasetAssumption, Value

LEMMA LagArguments ==
  0 \in 0..MaxLag /\ 0..MaxLag \subseteq Nat /\ \A n \in 1..MaxLag : n \in 0..MaxLag /\ n # 0
BY Numbers

LEMMA CasesAre ==
  ASSUME NEW names \in SUBSET Names
  PROVE  [names -> Value] \subseteq Case /\ Seq([names -> Value]) \subseteq Seq(Case)
<1>1. [names -> Value] \subseteq Case
  BY DEF Case, Value
<1> QED
  BY <1>1

LEMMA MakesSeq ==
  ASSUME NEW S, NEW n \in Nat, NEW f \in [1..n -> S]
  PROVE  f \in Seq(S) /\ Len(f) = n
<1>1. f \in Seq(S)
  BY SeqDef
<1> QED
  BY <1>1, LenProperties

(* A set of numbers has a least one, and if it is bounded a greatest.      *)
Smaller == {p \in Nat \X Nat : p[1] < p[2]}

LEMMA Least ==
  ASSUME NEW T \in SUBSET Nat, T # {}
  PROVE  \E x \in T : \A y \in T : x <= y
<1>1. IsWellFoundedOn(Smaller, Nat)
  BY NatLessThanWellFounded DEF Smaller, OpToRel
<1>2. PICK x \in T : \A y \in T : ~ (<<y, x>> \in Smaller)
  BY <1>1, WFMin
<1>3. ASSUME NEW y \in T PROVE x <= y
  <2>1. <<y, x>> \in Nat \X Nat /\ x \in Nat /\ y \in Nat
    OBVIOUS
  <2>2. ~ (y < x)
    BY <1>2, <2>1 DEF Smaller
  <2> QED
    BY <2>1, <2>2
<1> QED
  BY <1>3

LEMMA Greatest ==
  ASSUME NEW n \in Nat, NEW T \in SUBSET (0..n), T # {}
  PROVE  Max(T) \in T
<1> DEFINE Below == {k \in 0..n : n - k \in T}
<1>1. Below \in SUBSET Nat /\ Below # {}
  <2>1. PICK t \in T : TRUE
    OBVIOUS
  <2>2. n - t \in 0..n /\ n - (n - t) = t
    BY <2>1
  <2> QED
    BY <2>2
<1>2. PICK k \in Below : \A y \in Below : k <= y
  BY <1>1, Least
<1>3. \A y \in T : n - k >= y
  <2> TAKE y \in T
  <2>1. n - y \in Below
    BY DEF Below
  <2>2. k <= n - y /\ k \in 0..n /\ y \in 0..n
    BY <1>2, <2>1
  <2> QED
    BY <2>2
<1>4. \E x \in T : \A y \in T : x >= y
  BY <1>2, <1>3
<1> QED
  BY <1>4 DEF Max

-----------------------------------------------------------------------------
(* Executing a chain: no transformation changes its kind or the "x" of the *)
(* case.  If none stops the case, every guess has seen it; if one does, a  *)
(* guess at the end of the chain has not.                                  *)
LEMMA ResultIs ==
  ASSUME NEW t \in Transformation, NEW c
  PROVE  t.kind = "mg" => Result(t, c) = "continue"
BY DEF Transformation, Result

LEMMA CountedIs ==
  ASSUME NEW t \in Transformation, NEW c, c["x"] \in Value
  PROVE  /\ Counted(t, c) \in Transformation /\ Counted(t, c).kind = t.kind
         /\ t.kind = "mg" => Counted(t, c).seen = Append(t.seen, c["x"])
<1>1. t = [kind |-> t.kind, n |-> t.n, seen |-> t.seen] /\ t.n \in Nat /\ t.seen \in Seq(Value)
      /\ t.kind \in Kinds /\ (t.kind = "lag" => t.n # 0)
  BY DEF Transformation
<1>2. CASE t.kind = "limit" /\ t.n > 0
  <2>1. Counted(t, c) = [kind |-> t.kind, n |-> t.n - 1, seen |-> t.seen]
    BY <1>1, <1>2 DEF Counted
  <2>2. t.n - 1 \in Nat
    BY <1>1, <1>2
  <2> QED
    BY <1>1, <1>2, <2>1, <2>2 DEF Transformation
<1>3. CASE t.kind = "mg"
  <2>1. Counted(t, c) = [kind |-> t.kind, n |-> t.n, seen |-> Append(t.seen, c["x"])]
    BY <1>1, <1>3 DEF Counted
  <2>2. Append(t.seen, c["x"]) \in Seq(Value)
    BY <1>1
  <2> QED
    BY <1>1, <1>3, <2>1, <2>2 DEF Transformation
<1>4. CASE ~(t.kind = "limit" /\ t.n > 0) /\ t.kind # "mg"
  BY <1>4 DEF Counted
<1> QED
  BY <1>2, <1>3, <1>4

LEMMA StopsAt ==
  ASSUME NEW chain \in Seq(Transformation), NEW c
  PROVE  \/ \A i \in DOMAIN chain : Result(chain[i], c) = "continue"
         \/ \E i \in Reached(chain, c) : Result(chain[i], c) # "continue"
<1> DEFINE T == {i \in DOMAIN chain : Result(chain[i], c) # "continue"}
<1>1. CASE T = {}
  BY <1>1
<1>2. CASE T # {}
  <2>0. DOMAIN chain = 1..Len(chain) /\ Len(chain) \in Nat
    OBVIOUS
  <2>1. T \in SUBSET Nat
    BY <2>0
  <2> HIDE DEF T
  <2>2. PICK i \in T : \A j \in T : i <= j
    BY <1>2, <2>1, Least
  <2> USE DEF T
  <2>3. \A j \in 1 .. i - 1 : Result(chain[j], c) = "continue"
    <3> TAKE j \in 1 .. i - 1
    <3>1. j \in DOMAIN chain /\ ~(i <= j)
      BY <2>0, <2>2
    <3> QED
      BY <2>2, <3>1
  <2> QED
    BY <2>2, <2>3 DEF Reached
<1> QED
  BY <1>1, <1>2

LEMMA Computes ==
  ASSUME NEW names, "x" \in names, NEW c \in [names -> Value],
         NEW chain \in Seq(Transformation), NEW case_nr \in Value,
         NEW lag \in Seq([names -> Value]), NEW v \in names
  PROVE  /\ Computed(chain, c, v, case_nr, lag) \in Value
         /\ v = "x" => Computed(chain, c, v, case_nr, lag) = c["x"]
<1> DEFINE setters == {i \in Reached(chain, c) : chain[i].kind = v}
           last == chain[Max(setters)]
<1>1. CASE v \notin {"num", "order", "lag"} \/ setters = {}
  BY <1>1 DEF Computed
<1>2. CASE v \in {"num", "order"} /\ setters # {}
  BY <1>2 DEF Computed
<1>3. CASE v = "lag" /\ setters # {}
  <2>1. Len(chain) \in Nat /\ DOMAIN chain = 1..Len(chain)
    OBVIOUS
  <2>2. setters \in SUBSET (0..Len(chain))
    BY <2>1 DEF Reached
  <2> HIDE DEF setters
  <2>3. Max(setters) \in setters
    BY <1>3, <2>1, <2>2, Greatest
  <2> USE DEF setters
  <2>4. Max(setters) \in DOMAIN chain /\ last.kind = "lag"
    BY <1>3, <2>3 DEF Reached
  <2>5. last.n \in Nat /\ last.n # 0
    BY <2>4 DEF Transformation
  <2>6. Written(lag, last.n) \in Value
    <3>1. CASE last.n <= Len(lag)
      <4> HIDE DEF last
      <4>1. last.n \in DOMAIN lag
        BY <2>5, <3>1
      <4>2. lag[last.n] \in [names -> Value]
        BY <4>1
      <4> QED
        BY <3>1, <4>2 DEF Written
    <3>2. CASE ~(last.n <= Len(lag))
      BY <3>2, Numbers DEF Written
    <3> QED
      BY <3>1, <3>2
  <2>7. Computed(chain, c, v, case_nr, lag) = Written(lag, last.n)
    BY <1>3 DEF Computed
  <2> QED
    BY <1>3, <2>6, <2>7
<1> QED
  BY <1>1, <1>2, <1>3

Executed(names, chain, case_nr, c, lag, r) ==
  /\ r.case \in [names -> Value] /\ r.case["x"] = c["x"]
  /\ r.chain \in Seq(Transformation) /\ Len(r.chain) = Len(chain)
  /\ \A i \in DOMAIN chain :
       /\ r.chain[i].kind = chain[i].kind
       /\ chain[i].kind = "mg" /\ r.result = "continue" =>
            r.chain[i].seen = Append(chain[i].seen, c["x"])
       /\ chain[i].kind = "mg" /\ i = Len(chain) /\ r.result # "continue" =>
            r.chain[i] = chain[i]

LEMMA Executes ==
  ASSUME NEW names, "x" \in names, NEW c \in [names -> Value],
         NEW chain \in Seq(Transformation), NEW case_nr \in Value,
         NEW lag \in Seq([names -> Value])
  PROVE  Executed(names, chain, case_nr, c, lag, trns_chain_execute(chain, case_nr, c, lag))
<1> SUFFICES ASSUME NEW r, r = trns_chain_execute(chain, case_nr, c, lag)
             PROVE  Executed(names, chain, case_nr, c, lag, r)
  BY Zenon
<1> DEFINE stops == {i \in Reached(chain, c) : Result(chain[i], c) # "continue"}
<1>0. Len(chain) \in Nat /\ DOMAIN chain = 1..Len(chain) /\ Reached(chain, c) \subseteq DOMAIN chain
      /\ \A i \in DOMAIN chain : chain[i] \in Transformation
  BY DEF Reached
<1>1. /\ r.case = [v \in names |-> Computed(chain, c, v, case_nr, lag)]
      /\ r.result = IF stops = {} THEN "continue" ELSE Result(chain[Max(stops)], c)
      /\ r.chain = [i \in DOMAIN chain |->
                      IF i \in Reached(chain, c) THEN Counted(chain[i], c) ELSE chain[i]]
  BY DEF trns_chain_execute
<1>2. r.case \in [names -> Value] /\ r.case["x"] = c["x"]
  <2>1. \A v \in names : /\ Computed(chain, c, v, case_nr, lag) \in Value
                         /\ v = "x" => Computed(chain, c, v, case_nr, lag) = c["x"]
    BY Computes
  <2> QED
    BY <1>1, <2>1
<1>3. \A i \in DOMAIN chain : /\ Counted(chain[i], c) \in Transformation
                              /\ Counted(chain[i], c).kind = chain[i].kind
                              /\ chain[i].kind = "mg" =>
                                   Counted(chain[i], c).seen = Append(chain[i].seen, c["x"])
  BY <1>0, CountedIs
<1>4. r.chain \in [1..Len(chain) -> Transformation]
  <2>1. \A i \in DOMAIN chain :
          (IF i \in Reached(chain, c) THEN Counted(chain[i], c) ELSE chain[i]) \in Transformation
    BY <1>0, <1>3
  <2> QED
    BY <1>0, <1>1, <2>1
<1>5. r.chain \in Seq(Transformation) /\ Len(r.chain) = Len(chain)
  BY <1>0, <1>4, MakesSeq
<1>6. r.result = "continue" => \A i \in DOMAIN chain : i \in Reached(chain, c)
  <2> SUFFICES ASSUME r.result = "continue"
               PROVE  \A i \in DOMAIN chain : i \in Reached(chain, c)
    OBVIOUS
  <2>1. stops = {}
    <3> SUFFICES ASSUME stops # {} PROVE FALSE
      OBVIOUS
    <3>1. stops \in SUBSET (0..Len(chain))
      BY <1>0
    <3> HIDE DEF stops
    <3>2. Max(stops) \in stops
      BY <1>0, <3>1, Greatest
    <3> USE DEF stops
    <3> QED
      BY <1>1, <3>2
  <2>2. \A i \in DOMAIN chain : Result(chain[i], c) = "continue"
    BY <2>1, StopsAt
  <2> QED
    BY <1>0, <2>2 DEF Reached
<1>7. r.result # "continue" =>
        \A i \in DOMAIN chain : chain[i].kind = "mg" /\ i = Len(chain) => i \notin Reached(chain, c)
  <2> SUFFICES ASSUME r.result # "continue", NEW i \in DOMAIN chain, chain[i].kind = "mg",
                      i = Len(chain)
               PROVE  i \notin Reached(chain, c)
    OBVIOUS
  <2>1. PICK s \in Reached(chain, c) : Result(chain[s], c) # "continue"
    BY <1>1
  <2>2. s # i
    BY <1>0, <2>1, ResultIs
  <2>3. s \in 1 .. i - 1
    BY <1>0, <2>2
  <2> QED
    BY <2>1, <2>3 DEF Reached
<1> QED
  BY <1>1, <1>2, <1>3, <1>5, <1>6, <1>7 DEF Executed

-----------------------------------------------------------------------------
(* Queueing and cancelling.  What e keeps of d.                            *)
SameData(d, e) ==
  \A f \in {"source", "preinited", "order_var", "sink", "discard_output", "n_lag", "lag",
            "proc_state", "cases_written", "ok"} : e[f] = d[f]

Kept(d, e) ==
  SameData(d, e) /\ e.dict = d.dict /\ e.permanent_dict = d.permanent_dict
    /\ e.temporary = d.temporary

(* Shape, scopes and waiting guess, which every command keeps.             *)
Wellformed(d) == Shaped(d) /\ Scoped(d) /\ GuessWaits(d)

LEMMA TrnsIs ==
  ASSUME NEW kind \in Kinds, NEW n \in Nat, kind = "lag" => n # 0
  PROVE  /\ Trns(kind, n) \in Transformation
         /\ Trns(kind, n).kind = kind /\ Trns(kind, n).n = n /\ Trns(kind, n).seen = <<>>
BY DEF Trns, Transformation

LEMMA DictIs ==
  ASSUME NEW dict \in Dict
  PROVE  /\ dict.vars \in SUBSET Names /\ dict.limit \in Limits \cup {0}
         /\ [dict EXCEPT !.limit = 0] \in Dict
         /\ [dict EXCEPT !.limit = 0].limit = 0
         /\ [dict EXCEPT !.limit = 0].vars = dict.vars
         /\ \A b \in BOOLEAN : /\ [dict EXCEPT !.unknown = b] \in Dict
                              /\ [dict EXCEPT !.unknown = b].vars = dict.vars
                              /\ [dict EXCEPT !.unknown = b].limit = dict.limit
                              /\ [dict EXCEPT !.filter = b] \in Dict
                              /\ [dict EXCEPT !.filter = b].vars = dict.vars
                              /\ [dict EXCEPT !.filter = b].limit = dict.limit
         /\ \A n \in Limits : /\ [dict EXCEPT !.limit = n] \in Dict
                             /\ [dict EXCEPT !.limit = n].vars = dict.vars
                             /\ [dict EXCEPT !.limit = n].limit = n
         /\ \A names \in SUBSET Names : /\ [dict EXCEPT !.vars = names] \in Dict
                                       /\ [dict EXCEPT !.vars = names].vars = names
                                       /\ [dict EXCEPT !.vars = names].limit = dict.limit
BY DEF Dict

LEMMA EmptyIs ==
  EmptyDict \in Dict /\ EmptyDict.vars = {} /\ EmptyDict.limit = 0
BY DEF EmptyDict, Dict

LEMMA Appends ==
  ASSUME NEW chain \in Seq(Transformation), NEW t \in Transformation
  PROVE  /\ Append(chain, t) \in Seq(Transformation)
         /\ DOMAIN Append(chain, t) = 1 .. Len(chain) + 1 /\ DOMAIN chain = 1..Len(chain)
         /\ Len(Append(chain, t)) = Len(chain) + 1 /\ Len(chain) \in Nat
         /\ \A i \in DOMAIN chain : Append(chain, t)[i] = chain[i]
         /\ Append(chain, t)[Len(chain) + 1] = t
OBVIOUS

LEMMA Adds ==
  ASSUME NEW d, Shaped(d), Scoped(d), NEW t \in Transformation, t.kind # "mg"
  PROVE  /\ Shaped(add_transformation(d, t)) /\ Scoped(add_transformation(d, t))
         /\ GuessWaits(d) => GuessWaits(add_transformation(d, t))
         /\ Kept(d, add_transformation(d, t))
<1> DEFINE e == add_transformation(d, t)
           p == d.permanent_trns_chain
           q == d.temporary_trns_chain
<1>1. p \in Seq(Transformation) /\ q \in Seq(Transformation)
  BY DEF Shaped
<1>2. CASE d.temporary
  <2>1. e = [d EXCEPT !.temporary_trns_chain = Append(q, t)]
    BY <1>2 DEF add_transformation
  <2> HIDE DEF e, q
  <2>2. DOMAIN e = Fields /\ Kept(d, e) /\ e.permanent_trns_chain = p
        /\ e.temporary_trns_chain = Append(q, t)
    BY <2>1 DEF Shaped, Fields, Kept, SameData
  <2>3. \A i \in DOMAIN Append(q, t) : Append(q, t)[i].kind # "mg"
    BY <1>1, Appends DEF Shaped, q
  <2>4. Shaped(e)
    BY <1>1, <2>2, <2>3, Appends DEF Shaped, Kept, SameData
  <2>5. Scoped(e)
    BY <1>2, <2>2 DEF Scoped, Kept
  <2>6. GuessWaits(d) => GuessWaits(e)
    BY <2>2 DEF GuessWaits, Kept
  <2> QED
    BY <2>2, <2>4, <2>5, <2>6 DEF e
<1>3. CASE ~d.temporary
  <2>1. e = [d EXCEPT !.permanent_trns_chain = Append(p, t)]
    BY <1>3 DEF add_transformation
  <2> HIDE DEF e, p
  <2>2. DOMAIN e = Fields /\ Kept(d, e) /\ e.temporary_trns_chain = q
        /\ e.permanent_trns_chain = Append(p, t)
    BY <2>1 DEF Shaped, Fields, Kept, SameData
  <2>4. Shaped(e)
    BY <1>1, <2>2, Appends DEF Shaped, Kept, SameData
  <2>5. Scoped(e)
    BY <1>3, <2>2 DEF Scoped, Kept
  <2>6. ASSUME GuessWaits(d) PROVE GuessWaits(e)
    <3>1. \A i \in DOMAIN p : p[i].kind # "mg"
      BY <1>3, <2>6 DEF GuessWaits, p
    <3>2. \A i \in DOMAIN Append(p, t) : Append(p, t)[i].kind # "mg"
      BY <1>1, <3>1, Appends
    <3> QED
      BY <2>2, <3>2 DEF GuessWaits
  <2> QED
    BY <2>2, <2>4, <2>5, <2>6 DEF e
<1> QED
  BY <1>2, <1>3, Zenon DEF Shaped

(* A dataset that differs in its dictionary at most.                       *)
LEMMA Redescribes ==
  ASSUME NEW d, Shaped(d), NEW dict \in Dict
  PROVE  /\ Shaped([d EXCEPT !.dict = dict]) /\ SameData(d, [d EXCEPT !.dict = dict])
         /\ [d EXCEPT !.dict = dict].dict = dict
         /\ GuessWaits(d) => GuessWaits([d EXCEPT !.dict = dict])
         /\ d.permanent_dict = [d EXCEPT !.dict = dict].permanent_dict
         /\ d.temporary = [d EXCEPT !.dict = dict].temporary
         /\ d.permanent_trns_chain = [d EXCEPT !.dict = dict].permanent_trns_chain
         /\ d.temporary_trns_chain = [d EXCEPT !.dict = dict].temporary_trns_chain
<1> DEFINE e == [d EXCEPT !.dict = dict]
<1>1. DOMAIN e = Fields /\ e.dict = dict /\ \A f \in Fields \ {"dict"} : e[f] = d[f]
  BY DEF Shaped, Fields
<1> HIDE DEF e
<1>2. SameData(d, e)
  BY <1>1 DEF SameData, Fields
<1>3. /\ e.permanent_dict = d.permanent_dict /\ e.temporary = d.temporary
      /\ e.permanent_trns_chain = d.permanent_trns_chain
      /\ e.temporary_trns_chain = d.temporary_trns_chain
  BY <1>1 DEF Fields
<1>4. Shaped(e)
  BY <1>1, <1>2, <1>3 DEF Shaped, SameData
<1>5. GuessWaits(d) => GuessWaits(e)
  BY <1>3 DEF GuessWaits
<1> QED
  BY <1>1, <1>2, <1>3, <1>4, <1>5 DEF e

LEMMA Limited ==
  ASSUME NEW d, Shaped(d), Scoped(d)
  PROVE  /\ Shaped(add_case_limit_trns(d)) /\ Scoped(add_case_limit_trns(d))
         /\ GuessWaits(d) => GuessWaits(add_case_limit_trns(d))
         /\ SameData(d, add_case_limit_trns(d))
         /\ add_case_limit_trns(d).dict.vars = d.dict.vars
         /\ add_case_limit_trns(d).dict.limit = 0
         /\ add_case_limit_trns(d).permanent_dict = d.permanent_dict
         /\ add_case_limit_trns(d).temporary = d.temporary
<1> DEFINE e == add_case_limit_trns(d)
           t == Trns("limit", d.dict.limit)
           a == add_transformation(d, t)
<1>0. d.dict \in Dict /\ d.dict.limit \in Nat
  BY DictIs, Numbers DEF Shaped
<1>1. CASE d.dict.limit = 0
  BY <1>1 DEF add_case_limit_trns, SameData
<1>2. CASE d.dict.limit # 0
  <2>1. t \in Transformation /\ t.kind # "mg"
    BY <1>0, TrnsIs DEF Kinds
  <2>2. Shaped(a) /\ Scoped(a) /\ (GuessWaits(d) => GuessWaits(a)) /\ Kept(d, a)
    BY <2>1, Adds
  <2>3. e = [a EXCEPT !.dict.limit = 0]
    BY <1>2 DEF add_case_limit_trns
  <2> HIDE DEF e, a
  <2>4. a.dict = d.dict /\ a.permanent_dict = d.permanent_dict /\ a.temporary = d.temporary
        /\ SameData(d, a)
    BY <2>2 DEF Kept
  <2>5. e = [a EXCEPT !.dict = [d.dict EXCEPT !.limit = 0]]
    BY <2>3, <2>4
  <2>6. [d.dict EXCEPT !.limit = 0] \in Dict /\ [d.dict EXCEPT !.limit = 0].vars = d.dict.vars
        /\ [d.dict EXCEPT !.limit = 0].limit = 0
    BY <1>0, DictIs
  <2>7. /\ Shaped(e) /\ SameData(a, e) /\ e.dict = [d.dict EXCEPT !.limit = 0]
        /\ (GuessWaits(a) => GuessWaits(e)) /\ e.permanent_dict = a.permanent_dict
        /\ e.temporary = a.temporary /\ e.temporary_trns_chain = a.temporary_trns_chain
    BY <2>2, <2>5, <2>6, Redescribes
  <2>8. Scoped(e)
    BY <2>2, <2>4, <2>6, <2>7 DEF Scoped
  <2>9. SameData(d, e)
    BY <2>4, <2>7 DEF SameData
  <2> QED
    BY <2>2, <2>4, <2>6, <2>7, <2>8, <2>9 DEF e
<1> QED
  BY <1>1, <1>2

(* The guess goes to the end of the chain.                                 *)
GuessLast(d) ==
  \A i \in DOMAIN d.permanent_trns_chain :
    d.permanent_trns_chain[i].kind = "mg" =>
      i = Len(d.permanent_trns_chain) /\ d.permanent_trns_chain[i].seen = <<>>

LEMMA Guesses ==
  ASSUME NEW d, Shaped(d), Scoped(d), ~d.temporary
  PROVE  LET e == add_measurement_level_trns(d)
         IN /\ DOMAIN e = Fields /\ \A f \in Fields \ {"permanent_trns_chain"} : e[f] = d[f]
            /\ e.permanent_trns_chain \in Seq(Transformation)
            /\ GuessWaits(d) => GuessLast(e)
<1> DEFINE e == add_measurement_level_trns(d)
           p == d.permanent_trns_chain
           a == Append(p, Trns("mg", 0))
<1>1. p \in Seq(Transformation) /\ DOMAIN d = Fields
  BY DEF Shaped
<1>2. Trns("mg", 0) \in Transformation /\ Trns("mg", 0).kind = "mg" /\ Trns("mg", 0).seen = <<>>
  BY TrnsIs DEF Kinds
<1>3. GuessWaits(d) => \A i \in DOMAIN p : p[i].kind # "mg"
  BY DEF GuessWaits
<1>4. CASE ~d.dict.unknown
  <2>1. e = d
    BY <1>4 DEF add_measurement_level_trns
  <2> QED
    BY <1>1, <1>3, <2>1 DEF GuessLast
<1>5. CASE d.dict.unknown
  <2>1. e = [d EXCEPT !.permanent_trns_chain = a]
    BY <1>5 DEF add_measurement_level_trns, add_transformation
  <2>2. /\ DOMAIN a = 1 .. Len(p) + 1 /\ DOMAIN p = 1..Len(p) /\ Len(a) = Len(p) + 1
        /\ Len(p) \in Nat /\ (\A i \in DOMAIN p : a[i] = p[i]) /\ a[Len(p) + 1] = Trns("mg", 0)
        /\ a \in Seq(Transformation)
    BY <1>1, <1>2, Appends
  <2> HIDE DEF e, a, p
  <2>3. /\ e.permanent_trns_chain = a /\ DOMAIN e = Fields
        /\ \A f \in Fields \ {"permanent_trns_chain"} : e[f] = d[f]
    BY <1>1, <2>1 DEF Fields
  <2>4. \A i \in DOMAIN a : i \in DOMAIN p \/ i = Len(p) + 1
    BY <2>2
  <2>5. GuessWaits(d) => \A i \in DOMAIN a : a[i].kind = "mg" => i = Len(p) + 1
    BY <1>3, <2>2, <2>4
  <2>6. GuessWaits(d) => GuessLast(e)
    BY <1>2, <2>2, <2>3, <2>5 DEF GuessLast
  <2> QED
    BY <2>2, <2>3, <2>6 DEF e
<1> QED
  BY <1>4, <1>5

LEMMA StartsTemporary ==
  ASSUME NEW d, Wellformed(d)
  PROVE  /\ Wellformed(proc_start_temporary_transformations(d))
         /\ SameData(d, proc_start_temporary_transformations(d))
         /\ proc_start_temporary_transformations(d).temporary
         /\ proc_start_temporary_transformations(d).dict.vars = d.dict.vars
         /\ Lasting(proc_start_temporary_transformations(d)).vars = Lasting(d).vars
<1> DEFINE e == proc_start_temporary_transformations(d)
           l == add_case_limit_trns(d)
           m == add_measurement_level_trns(l)
<1>1. /\ Shaped(l) /\ Scoped(l) /\ GuessWaits(l) /\ SameData(d, l)
      /\ l.dict.vars = d.dict.vars /\ l.dict.limit = 0
      /\ l.permanent_dict = d.permanent_dict /\ l.temporary = d.temporary
  BY Limited DEF Wellformed
<1>2. CASE d.temporary
  BY <1>2 DEF proc_start_temporary_transformations, SameData, Wellformed, Lasting
<1>3. CASE ~d.temporary
  <2>1. e = [m EXCEPT !.permanent_dict = l.dict, !.temporary = TRUE]
    BY <1>3 DEF proc_start_temporary_transformations
  <2> HIDE DEF l
  <2>3. l.temporary_trns_chain = <<>>
    BY <1>1, <1>3 DEF Scoped
  <2>5. /\ DOMAIN m = Fields /\ \A f \in Fields \ {"permanent_trns_chain"} : m[f] = l[f]
        /\ m.permanent_trns_chain \in Seq(Transformation) /\ GuessLast(m)
    BY <1>1, <1>3, Guesses
  <2> HIDE DEF m, e
  <2>7. /\ DOMAIN e = Fields /\ e.permanent_dict = l.dict /\ e.temporary = TRUE
        /\ e.permanent_trns_chain = m.permanent_trns_chain
        /\ \A f \in Fields \ {"permanent_dict", "temporary", "permanent_trns_chain"} : e[f] = l[f]
    BY <2>1, <2>5 DEF Fields
  <2>8. SameData(l, e) /\ e.dict = l.dict /\ e.temporary_trns_chain = <<>>
    BY <2>3, <2>7 DEF SameData, Fields
  <2>9. SameData(d, e)
    BY <1>1, <2>8 DEF SameData
  <2>10. Shaped(e)
    <3>1. {e.temporary, e.order_var, e.discard_output, e.ok} \subseteq BOOLEAN
      BY <1>1, <2>7, <2>8 DEF Shaped, SameData
    <3>2. \A i \in DOMAIN <<>> : <<>>[i].kind # "mg"
      OBVIOUS
    <3>3. <<>> \in Seq(Transformation)
      OBVIOUS
    <3> QED
      BY <1>1, <2>5, <2>7, <2>8, <3>1, <3>2, <3>3 DEF Shaped, SameData
  <2>11. Scoped(e)
    BY <1>1, <2>7, <2>8 DEF Scoped, Shaped
  <2>12. GuessWaits(e)
    BY <2>5, <2>7 DEF GuessWaits, GuessLast
  <2>13. Lasting(e).vars = Lasting(d).vars
    BY <1>1, <1>3, <2>7 DEF Lasting
  <2> QED
    BY <1>1, <2>7, <2>8, <2>9, <2>10, <2>11, <2>12, <2>13 DEF Wellformed, e
<1> QED
  BY <1>2, <1>3

LEMMA Cancels ==
  ASSUME NEW d, Shaped(d), d.temporary => d.permanent_dict \in Dict
  PROVE  /\ Shaped(proc_cancel_temporary_transformations(d))
         /\ SameData(d, proc_cancel_temporary_transformations(d))
         /\ ~proc_cancel_temporary_transformations(d).temporary
         /\ d.temporary \/ d.temporary_trns_chain = <<>> =>
              proc_cancel_temporary_transformations(d).temporary_trns_chain = <<>>
         /\ proc_cancel_temporary_transformations(d).dict = Lasting(d)
         /\ proc_cancel_temporary_transformations(d).permanent_dict
              = IF d.temporary THEN NULL ELSE d.permanent_dict
<1> DEFINE e == proc_cancel_temporary_transformations(d)
<1>1. CASE ~d.temporary
  BY <1>1 DEF proc_cancel_temporary_transformations, SameData, Lasting
<1>2. CASE d.temporary
  <2>1. e = [d EXCEPT !.temporary_trns_chain = <<>>, !.dict = d.permanent_dict,
                      !.permanent_dict = NULL, !.temporary = FALSE]
    BY <1>2 DEF proc_cancel_temporary_transformations
  <2> HIDE DEF e
  <2>2. /\ DOMAIN e = Fields /\ e.temporary_trns_chain = <<>> /\ e.dict = d.permanent_dict
        /\ e.permanent_dict = NULL /\ e.temporary = FALSE
        /\ \A f \in Fields \ {"temporary_trns_chain", "dict", "permanent_dict", "temporary"} :
             e[f] = d[f]
    BY <2>1 DEF Shaped, Fields
  <2>3. SameData(d, e) /\ e.permanent_trns_chain = d.permanent_trns_chain
    BY <2>2 DEF SameData, Fields
  <2>4. Shaped(e)
    <3>1. {e.temporary, e.order_var, e.discard_output, e.ok} \subseteq BOOLEAN
      BY <2>2, <2>3 DEF Shaped, SameData
    <3>2. <<>> \in Seq(Transformation) /\ \A i \in DOMAIN <<>> : <<>>[i].kind # "mg"
      OBVIOUS
    <3> QED
      BY <1>2, <2>2, <2>3, <3>1, <3>2 DEF Shaped, SameData
  <2> QED
    BY <1>2, <2>2, <2>3, <2>4 DEF e, Lasting
<1> QED
  BY <1>1, <1>2

LEMMA CancelsAll ==
  ASSUME NEW d, Shaped(d), d.temporary => d.permanent_dict \in Dict
  PROVE  /\ Shaped(proc_cancel_all_transformations(d))
         /\ SameData(d, proc_cancel_all_transformations(d))
         /\ ~proc_cancel_all_transformations(d).temporary
         /\ proc_cancel_all_transformations(d).permanent_trns_chain = <<>>
         /\ proc_cancel_all_transformations(d).temporary_trns_chain = <<>>
         /\ proc_cancel_all_transformations(d).dict.vars = Lasting(d).vars
         /\ proc_cancel_all_transformations(d).permanent_dict
              = IF d.temporary THEN NULL ELSE d.permanent_dict
<1> DEFINE e == proc_cancel_all_transformations(d)
           p == proc_cancel_temporary_transformations(d)
           guessed == \E i \in DOMAIN p.permanent_trns_chain :
                        p.permanent_trns_chain[i].kind = "mg"
           unknown == p.dict.unknown /\ ~guessed
<1>1. /\ Shaped(p) /\ SameData(d, p) /\ ~p.temporary /\ p.dict = Lasting(d)
      /\ p.permanent_dict = IF d.temporary THEN NULL ELSE d.permanent_dict
  BY Cancels
<1>2. e = [p EXCEPT !.permanent_trns_chain = <<>>, !.temporary_trns_chain = <<>>,
                    !.dict.unknown = @ /\ ~guessed]
  BY DEF proc_cancel_all_transformations
<1> HIDE DEF e, p
<1>3. e = [p EXCEPT !.permanent_trns_chain = <<>>, !.temporary_trns_chain = <<>>,
                    !.dict = [p.dict EXCEPT !.unknown = unknown]]
  BY <1>2
<1> HIDE DEF guessed
<1>4. [p.dict EXCEPT !.unknown = unknown] \in Dict
      /\ [p.dict EXCEPT !.unknown = unknown].vars = p.dict.vars
  <2>1. p.dict \in Dict /\ unknown \in BOOLEAN
    BY <1>1 DEF Shaped
  <2> QED
    BY <2>1, DictIs
<1> HIDE DEF unknown
<1>5. /\ DOMAIN e = Fields /\ e.temporary_trns_chain = <<>> /\ e.permanent_trns_chain = <<>>
      /\ e.dict = [p.dict EXCEPT !.unknown = unknown]
      /\ \A f \in Fields \ {"temporary_trns_chain", "dict", "permanent_trns_chain"} : e[f] = p[f]
  BY <1>1, <1>3 DEF Shaped, Fields
<1>6. SameData(p, e) /\ e.temporary = p.temporary /\ e.permanent_dict = p.permanent_dict
  BY <1>5 DEF SameData, Fields
<1>7. Shaped(e)
  <2>1. {e.temporary, e.order_var, e.discard_output, e.ok} \subseteq BOOLEAN
    BY <1>1, <1>6 DEF Shaped, SameData
  <2>2. <<>> \in Seq(Transformation) /\ \A i \in DOMAIN <<>> : <<>>[i].kind # "mg"
    OBVIOUS
  <2> QED
    BY <1>1, <1>4, <1>5, <1>6, <2>1, <2>2 DEF Shaped, SameData
<1>8. SameData(d, e)
  BY <1>1, <1>6 DEF SameData
<1> QED
  BY <1>1, <1>4, <1>5, <1>6, <1>7, <1>8 DEF e

(* The guess that TEMPORARY queued is the only one, and it is taken back.  *)
LEMMA MakesPermanent ==
  ASSUME NEW d, Wellformed(d)
  PROVE  /\ Wellformed(proc_make_temporary_transformations_permanent(d))
         /\ SameData(d, proc_make_temporary_transformations_permanent(d))
         /\ ~proc_make_temporary_transformations_permanent(d).temporary
         /\ proc_make_temporary_transformations_permanent(d).dict = d.dict
<1> DEFINE e == proc_make_temporary_transformations_permanent(d)
           p == d.permanent_trns_chain
           q == d.temporary_trns_chain
           k == cancel_measurement_level_trns(p)
<1>1. CASE ~d.temporary
  BY <1>1 DEF proc_make_temporary_transformations_permanent, SameData
<1>2. CASE d.temporary
  <2>1. e = [d EXCEPT !.permanent_trns_chain = k \o q, !.temporary_trns_chain = <<>>,
                      !.temporary = FALSE, !.permanent_dict = NULL]
    BY <1>2 DEF proc_make_temporary_transformations_permanent
  <2>2. p \in Seq(Transformation) /\ q \in Seq(Transformation)
        /\ \A i \in DOMAIN q : q[i].kind # "mg"
    BY DEF Wellformed, Shaped
  <2>3. \A i \in DOMAIN p : p[i].kind = "mg" => i = Len(p)
    BY DEF Wellformed, GuessWaits
  <2>4. k \in Seq(Transformation) /\ \A i \in DOMAIN k : k[i].kind # "mg"
    <3>0. Len(p) \in Nat /\ DOMAIN p = 1..Len(p) /\ (p # <<>> => Len(p) > 0)
      BY <2>2
    <3>1. CASE p # <<>> /\ p[Len(p)].kind = "mg"
      <4>1. k = SubSeq(p, 1, Len(p) - 1)
        BY <3>1 DEF cancel_measurement_level_trns, Last, Front
      <4> HIDE DEF k, p
      <4>2. /\ k \in Seq(Transformation) /\ DOMAIN k = 1 .. Len(p) - 1
            /\ \A i \in 1 .. Len(p) - 1 : k[i] = p[i]
        <5> DEFINE n == Len(p) - 1
        <5>1. n \in Nat /\ \A i \in 1..n : p[i] \in Transformation
          BY <2>2, <3>0, <3>1
        <5> HIDE DEF n
        <5>2. /\ SubSeq(p, 1, n) \in Seq(Transformation)
              /\ Len(SubSeq(p, 1, n)) = IF 1 <= n THEN n - 1 + 1 ELSE 0
              /\ \A i \in 1 .. n - 1 + 1 : SubSeq(p, 1, n)[i] = p[1 + i - 1]
          BY <5>1, SubSeqProperties
        <5>3. Len(SubSeq(p, 1, n)) = n /\ \A i \in 1..n : SubSeq(p, 1, n)[i] = p[i]
          BY <5>1, <5>2
        <5>4. DOMAIN SubSeq(p, 1, n) = 1..n
          BY <5>2, <5>3, LenProperties
        <5>5. k = SubSeq(p, 1, n) /\ n = Len(p) - 1
          BY <4>1 DEF n
        <5>6. k \in Seq(Transformation) /\ DOMAIN k = 1..n /\ \A i \in 1..n : k[i] = p[i]
          BY <5>2, <5>3, <5>4, <5>5
        <5> QED
          BY <5>5, <5>6
      <4>3. \A i \in 1 .. Len(p) - 1 : i \in DOMAIN p /\ i # Len(p)
        <5> DEFINE n == Len(p)
        <5>1. n \in Nat /\ DOMAIN p = 1..n
          BY <3>0
        <5> HIDE DEF n
        <5>2. \A i \in 1 .. n - 1 : i \in DOMAIN p /\ i # n
          BY <5>1
        <5> QED
          BY <5>2 DEF n
      <4> QED
        BY <2>3, <4>2, <4>3
    <3>2. CASE ~(p # <<>> /\ p[Len(p)].kind = "mg")
      <4>1. k = p
        BY <3>2 DEF cancel_measurement_level_trns, Last
      <4> HIDE DEF k, p
      <4> QED
        BY <2>2, <2>3, <3>0, <3>2, <4>1
    <3> QED
      BY <3>1, <3>2
  <2> HIDE DEF k, q, e
  <2>5. k \o q \in Seq(Transformation) /\ \A i \in DOMAIN (k \o q) : (k \o q)[i].kind # "mg"
    <3>1. /\ k \o q \in Seq(Transformation) /\ Len(k \o q) = Len(k) + Len(q)
          /\ Len(k) \in Nat /\ Len(q) \in Nat
          /\ DOMAIN k = 1..Len(k) /\ DOMAIN q = 1..Len(q) /\ DOMAIN (k \o q) = 1..Len(k) + Len(q)
          /\ \A i \in 1 .. Len(k) + Len(q) :
               (k \o q)[i] = IF i <= Len(k) THEN k[i] ELSE q[i - Len(k)]
      BY <2>2, <2>4, ConcatProperties, LenProperties
    <3>2. \A i \in 1 .. Len(k) + Len(q) :
            IF i <= Len(k) THEN i \in DOMAIN k ELSE i - Len(k) \in DOMAIN q
      BY <3>1
    <3> QED
      BY <2>2, <2>4, <3>1, <3>2
  <2>6. /\ DOMAIN e = Fields /\ e.temporary_trns_chain = <<>> /\ e.permanent_trns_chain = k \o q
        /\ e.permanent_dict = NULL /\ e.temporary = FALSE
        /\ \A f \in Fields \ {"temporary_trns_chain", "permanent_trns_chain", "permanent_dict",
                             "temporary"} : e[f] = d[f]
    BY <2>1 DEF Wellformed, Shaped, Fields
  <2>7. SameData(d, e) /\ e.dict = d.dict
    BY <2>6 DEF SameData, Fields
  <2>8. Shaped(e)
    <3>1. {e.temporary, e.order_var, e.discard_output, e.ok} \subseteq BOOLEAN
      BY <2>6, <2>7 DEF Wellformed, Shaped, SameData
    <3>2. <<>> \in Seq(Transformation) /\ \A i \in DOMAIN <<>> : <<>>[i].kind # "mg"
      OBVIOUS
    <3> QED
      BY <2>5, <2>6, <2>7, <3>1, <3>2 DEF Wellformed, Shaped, SameData
  <2>9. Scoped(e) /\ GuessWaits(e)
    BY <2>5, <2>6 DEF Scoped, GuessWaits
  <2> QED
    BY <2>6, <2>7, <2>8, <2>9 DEF e, Wellformed
<1> QED
  BY <1>1, <1>2

LEMMA Filters ==
  ASSUME NEW d, Wellformed(d)
  PROVE  /\ Wellformed(add_filter_trns(d)) /\ SameData(d, add_filter_trns(d))
         /\ add_filter_trns(d).dict.vars = d.dict.vars
         /\ Lasting(add_filter_trns(d)).vars = Lasting(d).vars
<1> DEFINE s == proc_start_temporary_transformations(d)
           t == Trns("filter", 0)
           e == add_transformation(s, t)
<1>1. /\ Wellformed(s) /\ SameData(d, s) /\ s.dict.vars = d.dict.vars
      /\ Lasting(s).vars = Lasting(d).vars
  BY StartsTemporary
<1>2. t \in Transformation /\ t.kind # "mg"
  BY TrnsIs DEF Kinds
<1>3. Wellformed(e) /\ Kept(s, e)
  BY <1>1, <1>2, Adds DEF Wellformed
<1>4. SameData(d, e) /\ e.dict.vars = d.dict.vars /\ Lasting(e).vars = Lasting(d).vars
  BY <1>1, <1>3 DEF Kept, SameData, Lasting
<1>5. CASE d.dict.filter
  BY <1>3, <1>4, <1>5 DEF add_filter_trns
<1>6. CASE ~d.dict.filter
  BY <1>6 DEF add_filter_trns, SameData
<1> QED
  BY <1>5, <1>6

LEMMA Orders ==
  ASSUME NEW d, Wellformed(d)
  PROVE  /\ Wellformed(add_permanent_ordering_transformation(d))
         /\ \A f \in {"source", "preinited", "sink", "discard_output", "n_lag", "lag",
                     "proc_state", "cases_written", "ok", "temporary"} :
              add_permanent_ordering_transformation(d)[f] = d[f]
         /\ add_permanent_ordering_transformation(d).dict.vars = d.dict.vars \cup {"order"}
         /\ Lasting(add_permanent_ordering_transformation(d)).vars
              = Lasting(d).vars \cup {"order"}
<1> DEFINE e == add_permanent_ordering_transformation(d)
           dict == [d.dict EXCEPT !.vars = @ \cup {"order"}, !.unknown = TRUE]
           q == <<Trns("order", 0)>> \o d.temporary_trns_chain
<1>0. \A x \in Dict : /\ [x EXCEPT !.vars = @ \cup {"order"}, !.unknown = TRUE] \in Dict
                      /\ [x EXCEPT !.vars = @ \cup {"order"}, !.unknown = TRUE].vars
                           = x.vars \cup {"order"}
                      /\ [x EXCEPT !.vars = @ \cup {"order"}, !.unknown = TRUE].limit = x.limit
  BY DEF Dict, Names
<1>1. d.dict \in Dict /\ DOMAIN d = Fields
  BY DEF Wellformed, Shaped
<1>2. dict \in Dict /\ dict.vars = d.dict.vars \cup {"order"}
  BY <1>0, <1>1
<1> HIDE DEF e, q
<1>3. CASE ~d.temporary
  <2>1. d.permanent_dict = NULL
    BY <1>3 DEF Wellformed, Scoped
  <2>2. e = [d EXCEPT !.dict.vars = @ \cup {"order"}, !.dict.unknown = TRUE, !.order_var = TRUE]
    BY <2>1 DEF e, add_permanent_ordering_transformation
  <2>3. e = [d EXCEPT !.dict = dict, !.order_var = TRUE]
    BY <2>2, <1>1 DEF Fields
  <2> HIDE DEF dict
  <2>4. /\ DOMAIN e = Fields /\ e.dict = dict /\ e.order_var = TRUE
        /\ \A f \in Fields \ {"dict", "order_var"} : e[f] = d[f]
    BY <1>1, <2>3 DEF Fields
  <2>5. /\ e.permanent_dict = d.permanent_dict /\ e.temporary = d.temporary /\ e.ok = d.ok
        /\ e.permanent_trns_chain = d.permanent_trns_chain /\ e.n_lag = d.n_lag
        /\ e.temporary_trns_chain = d.temporary_trns_chain /\ e.preinited = d.preinited
        /\ e.discard_output = d.discard_output
    BY <2>4 DEF Fields
  <2>6. Shaped(e)
    <3>1. {e.temporary, e.order_var, e.discard_output, e.ok} \subseteq BOOLEAN
      BY <2>4, <2>5 DEF Wellformed, Shaped
    <3> QED
      BY <1>2, <2>4, <2>5, <3>1 DEF Wellformed, Shaped
  <2>7. Scoped(e) /\ GuessWaits(e)
    BY <1>3, <2>5 DEF Wellformed, Scoped, GuessWaits
  <2> QED
    BY <1>2, <1>3, <2>4, <2>5, <2>6, <2>7 DEF Wellformed, Lasting, Fields, e
<1>4. CASE d.temporary
  <2> DEFINE pd == [d.permanent_dict EXCEPT !.vars = @ \cup {"order"}, !.unknown = TRUE]
  <2>1. d.permanent_dict \in Dict /\ d.permanent_dict # NULL
    BY <1>4, Numbers DEF Wellformed, Scoped
  <2>2. e = [d EXCEPT !.dict.vars = @ \cup {"order"}, !.dict.unknown = TRUE, !.order_var = TRUE,
                      !.permanent_dict.vars = @ \cup {"order"}, !.permanent_dict.unknown = TRUE,
                      !.temporary_trns_chain = q]
    BY <1>1, <2>1 DEF e, q, add_permanent_ordering_transformation, Fields
  <2>3. e = [d EXCEPT !.dict = dict, !.order_var = TRUE, !.permanent_dict = pd,
                      !.temporary_trns_chain = q]
    BY <2>2, <1>1 DEF Fields
  <2>a. pd \in Dict /\ pd.vars = d.permanent_dict.vars \cup {"order"}
        /\ pd.limit = d.permanent_dict.limit
    BY <1>0, <2>1
  <2> HIDE DEF dict, pd
  <2>4. /\ DOMAIN e = Fields /\ e.dict = dict /\ e.order_var = TRUE /\ e.permanent_dict = pd
        /\ e.temporary_trns_chain = q
        /\ \A f \in Fields \ {"dict", "order_var", "permanent_dict", "temporary_trns_chain"} :
             e[f] = d[f]
    BY <1>1, <2>3 DEF Fields
  <2>5. /\ e.temporary = d.temporary /\ e.ok = d.ok
        /\ e.permanent_trns_chain = d.permanent_trns_chain /\ e.n_lag = d.n_lag
        /\ e.preinited = d.preinited /\ e.discard_output = d.discard_output
    BY <2>4 DEF Fields
  <2>b. q \in Seq(Transformation) /\ \A i \in DOMAIN q : q[i].kind # "mg"
    <3> DEFINE a == <<Trns("order", 0)>>
               b == d.temporary_trns_chain
    <3>1. b \in Seq(Transformation) /\ \A i \in DOMAIN b : b[i].kind # "mg"
      BY DEF Wellformed, Shaped
    <3>2. a \in Seq(Transformation) /\ Len(a) = 1 /\ a[1].kind # "mg"
      BY TrnsIs DEF Kinds
    <3> HIDE DEF a, b
    <3>3. /\ a \o b \in Seq(Transformation) /\ Len(a \o b) = Len(a) + Len(b)
          /\ \A i \in 1 .. Len(a) + Len(b) :
               (a \o b)[i] = IF i <= Len(a) THEN a[i] ELSE b[i - Len(a)]
      BY <3>1, <3>2, ConcatProperties
    <3>4. DOMAIN (a \o b) = 1..Len(a \o b) /\ DOMAIN b = 1..Len(b) /\ Len(b) \in Nat
      BY <3>1, <3>3, LenProperties
    <3> DEFINE m == Len(b)
    <3>6. m \in Nat /\ DOMAIN b = 1..m /\ DOMAIN (a \o b) = 1 .. 1 + m
          /\ \A i \in 1 .. 1 + m : (a \o b)[i] = IF i <= 1 THEN a[i] ELSE b[i - 1]
      BY <3>2, <3>3, <3>4
    <3> HIDE DEF m
    <3>7. \A i \in 1 .. 1 + m : i = 1 \/ (~(i <= 1) /\ i - 1 \in DOMAIN b)
      BY <3>6
    <3>8. \A i \in 1 .. 1 + m : (a \o b)[i].kind # "mg"
      <4> TAKE i \in 1 .. 1 + m
      <4>1. CASE i = 1
        BY <3>2, <3>6, <4>1
      <4>2. CASE ~(i <= 1) /\ i - 1 \in DOMAIN b
        <5>1. (a \o b)[i] = b[i - 1]
          BY <3>6, <4>2
        <5> QED
          BY <3>1, <4>2, <5>1
      <4> QED
        BY <3>7, <4>1, <4>2
    <3> QED
      BY <3>3, <3>6, <3>8 DEF a, b, q
  <2>6. Shaped(e)
    <3>1. {e.temporary, e.order_var, e.discard_output, e.ok} \subseteq BOOLEAN
      BY <2>4, <2>5 DEF Wellformed, Shaped
    <3> QED
      BY <1>2, <2>4, <2>5, <2>b, <3>1 DEF Wellformed, Shaped
  <2>7. Scoped(e) /\ GuessWaits(e)
    <3>1. GuessWaits(e)
      BY <2>5 DEF Wellformed, GuessWaits
    <3>2. d.permanent_dict.vars \subseteq d.dict.vars /\ d.permanent_dict.limit = 0
      BY <1>4 DEF Wellformed, Scoped
    <3> QED
      BY <1>2, <1>4, <2>4, <2>5, <2>a, <3>1, <3>2 DEF Scoped
  <2> QED
    BY <1>2, <1>4, <2>4, <2>5, <2>6, <2>7, <2>a DEF Wellformed, Lasting, Fields, e
<1> QED
  BY <1>3, <1>4

(* Every case of the source gets the columns that the dictionary has.      *)
LEMMA Translates ==
  ASSUME NEW d, Shaped(d), d.source \in Source,
         NEW names \in SUBSET Names, Columns(d, names), names \subseteq d.dict.vars,
         d.preinited \subseteq names
  PROVE  LET e == caseinit_translate_casereader_to_init_vars(d)
         IN /\ DOMAIN e = Fields /\ \A f \in Fields \ {"source"} : e[f] = d[f]
            /\ e.source \in Source
            /\ e.source.cases \in Seq([d.dict.vars -> Value])
            /\ Len(e.source.cases) = Len(d.source.cases)
            /\ e.source.tainted = d.source.tainted /\ e.source.fails = d.source.fails
<1> DEFINE e == caseinit_translate_casereader_to_init_vars(d)
           old == d.source.cases
           new == [i \in DOMAIN old |->
                     [v \in d.dict.vars |-> IF v \in d.preinited THEN old[i][v] ELSE 0]]
           source == [d.source EXCEPT !.cases = new]
<1>1. e = [d EXCEPT !.source = source]
  BY DEF caseinit_translate_casereader_to_init_vars, Shaped, Fields
<1>2. old \in Seq([names -> Value])
  BY DEF Columns
<1>3. d.dict.vars \in SUBSET Names
  BY DictIs DEF Shaped
<1> HIDE DEF old
<1>4. new \in Seq([d.dict.vars -> Value]) /\ Len(new) = Len(old)
  <2>1. DOMAIN old = 1..Len(old) /\ Len(old) \in Nat
        /\ \A i \in DOMAIN old : old[i] \in [names -> Value]
    BY <1>2
  <2>2. \A i \in DOMAIN old : new[i] \in [d.dict.vars -> Value]
    BY <2>1, Numbers
  <2>3. new \in [1..Len(old) -> [d.dict.vars -> Value]]
    BY <2>1, <2>2
  <2> HIDE DEF new
  <2> QED
    BY <2>1, <2>3, MakesSeq
<1>5. new \in Seq(Case)
  BY <1>3, <1>4, CasesAre
<1> HIDE DEF new
<1>6. source \in Source /\ source.cases = new /\ source.tainted = d.source.tainted
      /\ source.fails = d.source.fails
  BY <1>5 DEF Source
<1> HIDE DEF source, e
<1>7. DOMAIN e = Fields /\ e.source = source /\ \A f \in Fields \ {"source"} : e[f] = d[f]
  BY <1>1 DEF Shaped, Fields
<1> QED
  BY <1>4, <1>6, <1>7 DEF e, old

-----------------------------------------------------------------------------
(* Opening a procedure.                                                    *)
LEMMA Opens ==
  ASSUME NEW d, Shaped(d), Scoped(d), Sourced(d), d.discard_output \/ GuessWaits(d),
         NEW filter \in BOOLEAN, filter => ~d.discard_output
  PROVE  LET e == proc_open_filtering(d, filter)
         IN /\ Busy(e) /\ e.cases_written = 0 /\ e.proc_state = "open"
            /\ e.discard_output = d.discard_output
            /\ ~filter => e.temporary = d.temporary
<1> DEFINE e == proc_open_filtering(d, filter)
           s == caseinit_translate_casereader_to_init_vars(d)
           i == add_case_limit_trns(s)
           f == IF filter THEN add_filter_trns(i) ELSE i
           m == IF f.temporary THEN f ELSE add_measurement_level_trns(f)
           pd == IF m.permanent_dict = NULL THEN m.dict ELSE m.permanent_dict
           sink == IF d.discard_output THEN NULL ELSE [cases |-> <<>>, vars |-> pd.vars]
(* The source is extended to the dictionary in use. *)
<1>1. PICK names \in SUBSET Names : Columns(d, names) /\ d.preinited \subseteq names
                                    /\ names \subseteq Lasting(d).vars
  BY DEF Sourced
<1>2. Lasting(d).vars \subseteq d.dict.vars /\ "x" \in Lasting(d).vars
  BY <1>1 DEF Lasting, Scoped, Columns
<1>3. /\ DOMAIN s = Fields /\ \A g \in Fields \ {"source"} : s[g] = d[g]
      /\ s.source \in Source /\ s.source.cases \in Seq([d.dict.vars -> Value])
      /\ Len(s.source.cases) = Len(d.source.cases)
  BY <1>1, <1>2, Translates DEF Sourced
<1> HIDE DEF s
<1>4. /\ s.dict = d.dict /\ s.permanent_dict = d.permanent_dict /\ s.temporary = d.temporary
      /\ s.permanent_trns_chain = d.permanent_trns_chain /\ s.n_lag = d.n_lag
      /\ s.temporary_trns_chain = d.temporary_trns_chain /\ s.preinited = d.preinited
      /\ s.order_var = d.order_var /\ s.discard_output = d.discard_output /\ s.ok = d.ok
  BY <1>3 DEF Fields
<1>5. Shaped(s)
  BY <1>3, <1>4 DEF Shaped
<1>6. Scoped(s) /\ (GuessWaits(d) => GuessWaits(s))
  BY <1>4 DEF Scoped, GuessWaits
(* The limit is queued, and the filter. *)
<1>7. /\ Shaped(i) /\ Scoped(i) /\ (GuessWaits(d) => GuessWaits(i)) /\ SameData(s, i)
      /\ i.dict.vars = s.dict.vars /\ i.temporary = s.temporary
      /\ i.permanent_dict = s.permanent_dict
  BY <1>5, <1>6, Limited
<1> HIDE DEF i
<1>8. /\ Shaped(f) /\ Scoped(f) /\ (d.discard_output \/ GuessWaits(f)) /\ SameData(i, f)
      /\ f.dict.vars = i.dict.vars /\ Lasting(f).vars = Lasting(i).vars
      /\ ~filter => f.temporary = i.temporary
  <2>1. CASE filter
    <3>1. Wellformed(i)
      BY <1>7, <2>1 DEF Wellformed
    <3>2. /\ Wellformed(add_filter_trns(i)) /\ SameData(i, add_filter_trns(i))
          /\ add_filter_trns(i).dict.vars = i.dict.vars
          /\ Lasting(add_filter_trns(i)).vars = Lasting(i).vars
      BY <3>1, Filters
    <3>3. f = add_filter_trns(i)
      BY <2>1
    <3> HIDE DEF f
    <3> QED
      BY <2>1, <3>2, <3>3 DEF Wellformed
  <2>2. CASE ~filter
    BY <1>7, <2>2 DEF SameData
  <2> QED
    BY <2>1, <2>2
<1> HIDE DEF f
(* The guess is queued. *)
<1>9. /\ DOMAIN m = Fields /\ \A g \in Fields \ {"permanent_trns_chain"} : m[g] = f[g]
      /\ m.permanent_trns_chain \in Seq(Transformation)
      /\ d.discard_output \/ GuessLast(m)
  <2>1. CASE f.temporary
    <3>1. m = f
      BY <2>1
    <3> HIDE DEF m
    <3>2. GuessWaits(f) => GuessLast(m)
      BY <2>1, <3>1 DEF GuessWaits, GuessLast
    <3> QED
      BY <1>8, <3>1, <3>2 DEF Shaped
  <2>2. CASE ~f.temporary
    <3>1. m = add_measurement_level_trns(f)
      BY <2>2
    <3> HIDE DEF m
    <3> QED
      BY <1>8, <2>2, <3>1, Guesses
  <2> QED
    BY <2>1, <2>2
<1> HIDE DEF m
<1>10. /\ m.dict = f.dict /\ m.permanent_dict = f.permanent_dict /\ m.temporary = f.temporary
       /\ m.temporary_trns_chain = f.temporary_trns_chain /\ m.preinited = f.preinited
       /\ m.order_var = f.order_var /\ m.discard_output = f.discard_output /\ m.ok = f.ok
       /\ m.n_lag = f.n_lag /\ m.source = f.source
  BY <1>9 DEF Fields
<1>11. /\ m.source = s.source /\ m.discard_output = d.discard_output
       /\ m.dict.vars = d.dict.vars
  BY <1>4, <1>7, <1>8, <1>10 DEF SameData
<1>12. /\ pd \in Dict /\ pd.vars = Lasting(d).vars
       /\ m.temporary \/ pd.vars = m.dict.vars
  <2>1. Lasting(f).vars = Lasting(d).vars
    BY <1>4, <1>7, <1>8 DEF Lasting
  <2>2. CASE f.temporary
    <3>1. f.permanent_dict \in Dict /\ f.permanent_dict # NULL
      BY <1>8, <2>2, Numbers DEF Scoped
    <3> QED
      BY <1>10, <2>1, <2>2, <3>1 DEF Lasting
  <2>3. CASE ~f.temporary
    <3>1. f.permanent_dict = NULL /\ f.dict \in Dict
      BY <1>8, <2>3 DEF Scoped, Shaped
    <3> QED
      BY <1>10, <2>1, <2>3, <3>1 DEF Lasting
  <2> QED
    BY <2>2, <2>3
<1> HIDE DEF pd
<1>13. e = [m EXCEPT !.permanent_dict = pd, !.sink = sink, !.lag = <<>>, !.proc_state = "open",
                     !.cases_written = 0, !.ok = TRUE]
  BY DEF pd, m, f, i, s, proc_open_filtering
<1> HIDE DEF e, sink
<1>14. /\ DOMAIN e = Fields /\ e.permanent_dict = pd /\ e.sink = sink /\ e.lag = <<>>
       /\ e.proc_state = "open" /\ e.cases_written = 0 /\ e.ok = TRUE
       /\ \A g \in Fields \ {"permanent_dict", "sink", "lag", "proc_state", "cases_written", "ok"} :
            e[g] = m[g]
  BY <1>9, <1>13 DEF Fields
<1>15. /\ e.dict = m.dict /\ e.temporary = m.temporary /\ e.source = m.source
       /\ e.temporary_trns_chain = m.temporary_trns_chain /\ e.preinited = m.preinited
       /\ e.permanent_trns_chain = m.permanent_trns_chain
       /\ e.order_var = m.order_var /\ e.discard_output = m.discard_output /\ e.n_lag = m.n_lag
  BY <1>14 DEF Fields
<1>16. Shaped(e)
  <2>1. {e.temporary, e.order_var, e.discard_output, e.ok} \subseteq BOOLEAN
    BY <1>8, <1>10, <1>14, <1>15 DEF Shaped
  <2> QED
    BY <1>8, <1>9, <1>10, <1>14, <1>15, <2>1 DEF Shaped
<1>17. SinkOK(e)
  <2>1. CASE d.discard_output
    BY <1>11, <1>14, <1>15, <2>1 DEF SinkOK, sink
  <2>2. CASE ~d.discard_output
    <3>1. e.sink = [cases |-> <<>>, vars |-> pd.vars] /\ pd.vars \in SUBSET Names
      BY <1>12, <1>14, <2>2, DictIs DEF sink
    <3>2. e.sink \in Sink /\ e.sink.vars = pd.vars /\ e.sink.cases = <<>>
      BY <3>1 DEF Sink
    <3>3. GuessLast(e)
      BY <1>9, <1>15, <2>2 DEF GuessLast
    <3>4. GuessFollows(e)
      BY <3>2, <3>3 DEF GuessFollows, Sees, GuessLast
    <3> QED
      BY <1>11, <1>14, <1>15, <2>2, <3>2, <3>4 DEF SinkOK
  <2> QED
    BY <2>1, <2>2
<1>18. Busy(e)
  <2>1. e.source \in Source /\ e.source.cases \in Seq([e.dict.vars -> Value])
        /\ Len(e.source.cases) + e.cases_written <= NCases
    <3>1. Len(s.source.cases) \in Nat /\ Len(s.source.cases) <= NCases
      BY <1>1, <1>3 DEF Columns
    <3> QED
      BY <1>3, <1>11, <1>14, <1>15, <3>1
  <2>2. e.lag \in Seq([e.dict.vars -> Value]) /\ Len(e.lag) <= e.n_lag
        /\ e.cases_written \in 0..NCases
    BY <1>14, <1>16, Numbers DEF Shaped
  <2>3. /\ e.permanent_dict \in Dict /\ e.permanent_dict.vars \subseteq e.dict.vars
        /\ "x" \in e.permanent_dict.vars /\ (e.temporary \/ e.permanent_dict.vars = e.dict.vars)
    BY <1>2, <1>11, <1>12, <1>14, <1>15
  <2> QED
    BY <1>14, <1>16, <1>17, <2>1, <2>2, <2>3 DEF Busy
<1> QED
  BY <1>4, <1>7, <1>8, <1>10, <1>11, <1>14, <1>15, <1>18 DEF e

-----------------------------------------------------------------------------
(* Reading a case.                                                         *)
LEMMA PushesLag ==
  ASSUME NEW d, Busy(d), NEW c \in [d.dict.vars -> Value]
  PROVE  PushLag(d, c) \in Seq([d.dict.vars -> Value]) /\ Len(PushLag(d, c)) <= d.n_lag
<1> DEFINE S == [d.dict.vars -> Value]
           n == IF Len(d.lag) < d.n_lag THEN Len(d.lag) ELSE d.n_lag - 1
           l == d.lag
<1>1. l \in Seq(S) /\ Len(l) <= d.n_lag /\ d.n_lag \in Nat
  BY Numbers DEF Busy, Shaped
<1>2. CASE d.n_lag = 0
  BY <1>1, <1>2 DEF PushLag
<1>3. CASE d.n_lag # 0
  <2>1. PushLag(d, c) = <<c>> \o SubSeq(l, 1, n)
    BY <1>3 DEF PushLag
  <2>2. Len(l) \in Nat /\ n \in Nat /\ n <= Len(l) /\ n + 1 <= d.n_lag
    BY <1>1, <1>3
  <2> HIDE DEF n, l, S
  <2>3. \A i \in 1..n : l[i] \in S
    BY <1>1, <2>2
  <2>4. SubSeq(l, 1, n) \in Seq(S) /\ Len(SubSeq(l, 1, n)) = IF 1 <= n THEN n - 1 + 1 ELSE 0
    BY <2>2, <2>3, SubSeqProperties
  <2>5. Len(SubSeq(l, 1, n)) = n
    BY <2>2, <2>4
  <2>6. <<c>> \in Seq(S) /\ Len(<<c>>) = 1
    BY DEF S
  <2>7. <<c>> \o SubSeq(l, 1, n) \in Seq(S) /\ Len(<<c>> \o SubSeq(l, 1, n)) = 1 + n
    BY <2>4, <2>5, <2>6, ConcatProperties
  <2> QED
    BY <2>1, <2>2, <2>7 DEF S
<1> QED
  BY <1>2, <1>3

(* The guesses of two chains that differ by what a case did to the first.  *)
LEMMA GuessSees ==
  ASSUME NEW p \in Seq(Transformation), NEW q \in Seq(Transformation), Len(q) = Len(p),
         NEW s \in Seq(Case), NEW c \in Case, Sees(p, s),
         \A i \in DOMAIN p :
           q[i].kind = p[i].kind /\ (p[i].kind = "mg" => q[i].seen = Append(p[i].seen, c["x"]))
  PROVE  Sees(q, Append(s, c))
<1> SUFFICES ASSUME NEW i \in DOMAIN q, q[i].kind = "mg"
             PROVE  i = Len(q) /\ q[i].seen = [j \in DOMAIN Append(s, c) |-> Append(s, c)[j]["x"]]
  BY DEF Sees
<1> DEFINE seen == [j \in DOMAIN s |-> s[j]["x"]]
           now == [j \in DOMAIN Append(s, c) |-> Append(s, c)[j]["x"]]
<1>1. DOMAIN p = 1..Len(p) /\ DOMAIN q = 1..Len(q)
  OBVIOUS
<1>2. i = Len(p) /\ q[i].seen = Append(seen, c["x"])
  BY <1>1 DEF Sees
<1>3. /\ DOMAIN s = 1..Len(s) /\ Len(s) \in Nat /\ DOMAIN Append(s, c) = 1 .. Len(s) + 1
      /\ \A j \in 1 .. Len(s) + 1 : Append(s, c)[j] = IF j <= Len(s) THEN s[j] ELSE c
  OBVIOUS
<1> DEFINE n == Len(s)
           X == {seen[j] : j \in 1..n} \cup {c["x"]}
<1>4. n \in Nat /\ DOMAIN s = 1..n /\ DOMAIN now = 1 .. n + 1
      /\ \A j \in 1 .. n + 1 : now[j] = IF j <= n THEN s[j]["x"] ELSE c["x"]
  BY <1>3
<1>5. seen \in [1..n -> X] /\ seen \in Seq(X) /\ Len(seen) = n
  <2>1. seen \in [1..n -> X]
    BY <1>4
  <2> HIDE DEF seen, X, n
  <2> QED
    BY <1>4, <2>1, MakesSeq
<1>6. \A j \in 1..n : seen[j] = s[j]["x"]
  BY <1>4
<1>7. now = [j \in 1 .. n + 1 |-> now[j]]
  BY <1>4
<1> HIDE DEF seen, now, X, n
<1>8. Append(seen, c["x"]) = [j \in 1 .. n + 1 |-> IF j <= n THEN seen[j] ELSE c["x"]]
  BY <1>4, <1>5
<1>9. \A j \in 1 .. n + 1 : now[j] = IF j <= n THEN seen[j] ELSE c["x"]
  BY <1>4, <1>6
<1> QED
  BY <1>2, <1>7, <1>8, <1>9 DEF now

LEMMA ReadsOne ==
  ASSUME NEW d, Busy(d), d.proc_state = "open", d.source.cases # <<>>
  PROVE  LET r == proc_casereader_read(d)
         IN /\ Busy(r.ds) /\ r.ds.proc_state = "open"
            /\ r.ds.dict = d.dict /\ r.ds.temporary = d.temporary
            /\ r.ds.discard_output = d.discard_output
            /\ r.case \in [d.dict.vars -> Value]
            /\ r.ds.cases_written \in {d.cases_written, d.cases_written + 1}
            /\ r.result = "continue" => r.ds.cases_written = d.cases_written + 1
<1> DEFINE S == [d.dict.vars -> Value]
           n == d.cases_written + 1
           c == Head(d.source.cases)
           p == trns_chain_execute(d.permanent_trns_chain, n, c, d.lag)
           ordered == IF d.sink # NULL /\ d.order_var
                        THEN [p.case EXCEPT !["order"] = n] ELSE p.case
           lag == PushLag(d, p.case)
           t == trns_chain_execute(d.temporary_trns_chain, n, ordered, lag)
           read == [d EXCEPT !.source.cases = Tail(@), !.permanent_trns_chain = p.chain,
                             !.ok = p.result # "error"]
           row == [v \in d.sink.vars |-> ordered[v]]
           fine == t.result # "error"
           sink == IF d.sink = NULL THEN NULL
                   ELSE [d.sink EXCEPT !.cases = Append(d.sink.cases, row)]
           w == [read EXCEPT
                   !.lag = lag,
                   !.cases_written = n,
                   !.sink = sink,
                   !.temporary_trns_chain = t.chain,
                   !.ok = fine]
           r == proc_casereader_read(d)
           source == [d.source EXCEPT !.cases = Tail(d.source.cases)]
<1>0. r = IF p.result # "continue" THEN [ds |-> read, result |-> p.result, case |-> p.case]
          ELSE [ds |-> w, result |-> t.result, case |-> t.case]
  BY DEF proc_casereader_read
<1> HIDE DEF r, w
(* The case, its number and the chains. *)
<1>1. /\ d.source \in Source /\ d.source.cases \in Seq(S)
      /\ Len(d.source.cases) + d.cases_written <= NCases /\ d.cases_written \in Nat
  BY Numbers DEF Busy
<1>2. /\ c \in S /\ Tail(d.source.cases) \in Seq(S)
      /\ Len(Tail(d.source.cases)) + n <= NCases /\ n \in Nat /\ Len(Tail(d.source.cases)) \in Nat
  <2>1. Len(d.source.cases) \in Nat /\ Len(Tail(d.source.cases)) = Len(d.source.cases) - 1
        /\ c \in S /\ Tail(d.source.cases) \in Seq(S)
    BY <1>1, HeadTailProperties
  <2> QED
    BY <1>1, <2>1, Numbers
<1>3. n \in Value
  BY <1>2, Numbers DEF Value
<1>4. /\ DOMAIN d = Fields /\ d.permanent_trns_chain \in Seq(Transformation)
      /\ d.temporary_trns_chain \in Seq(Transformation)
      /\ \A i \in DOMAIN d.temporary_trns_chain : d.temporary_trns_chain[i].kind # "mg"
      /\ d.dict.vars \in SUBSET Names /\ "x" \in d.dict.vars /\ d.lag \in Seq(S)
  BY DictIs DEF Busy, Shaped
<1> HIDE DEF c, n
<1>5. /\ p.case \in S /\ p.case["x"] = c["x"]
      /\ p.chain \in Seq(Transformation) /\ Len(p.chain) = Len(d.permanent_trns_chain)
      /\ \A i \in DOMAIN d.permanent_trns_chain :
           /\ p.chain[i].kind = d.permanent_trns_chain[i].kind
           /\ d.permanent_trns_chain[i].kind = "mg" /\ p.result = "continue" =>
                p.chain[i].seen = Append(d.permanent_trns_chain[i].seen, c["x"])
           /\ d.permanent_trns_chain[i].kind = "mg" /\ i = Len(d.permanent_trns_chain)
                /\ p.result # "continue" => p.chain[i] = d.permanent_trns_chain[i]
  <2>1. n \in Value /\ c \in [d.dict.vars -> Value] /\ d.lag \in Seq([d.dict.vars -> Value])
    BY <1>2, <1>3, <1>4
  <2>2. Executed(d.dict.vars, d.permanent_trns_chain, n, c, d.lag, p)
    BY <1>4, <2>1, Executes
  <2> HIDE DEF p
  <2> QED
    BY <2>2 DEF Executed
<1> HIDE DEF p
<1> HIDE DEF read
<1>6. source \in Source /\ source.cases = Tail(d.source.cases)
  <2>1. Tail(d.source.cases) \in Seq(Case)
    BY <1>2, <1>4, CasesAre
  <2> HIDE DEF S
  <2> QED
    BY <1>1, <2>1 DEF Source
<1> HIDE DEF source
<1>8. /\ DOMAIN read = Fields /\ read.source = source /\ read.permanent_trns_chain = p.chain
      /\ read.ok \in BOOLEAN
      /\ \A f \in Fields \ {"source", "permanent_trns_chain", "ok"} : read[f] = d[f]
  BY <1>4 DEF Fields, read, source
<1> HIDE DEF read
(* A case that the permanent transformations stop. *)
<1>9. ASSUME p.result # "continue"
      PROVE  /\ Busy(read) /\ read.proc_state = "open" /\ read.dict = d.dict
             /\ read.temporary = d.temporary /\ read.discard_output = d.discard_output
             /\ read.cases_written = d.cases_written
  <2>1. /\ read.dict = d.dict /\ read.permanent_dict = d.permanent_dict
        /\ read.temporary = d.temporary /\ read.sink = d.sink /\ read.lag = d.lag
        /\ read.temporary_trns_chain = d.temporary_trns_chain /\ read.preinited = d.preinited
        /\ read.order_var = d.order_var /\ read.discard_output = d.discard_output
        /\ read.n_lag = d.n_lag /\ read.cases_written = d.cases_written
        /\ read.proc_state = d.proc_state
    BY <1>8 DEF Fields
  <2>2. Shaped(read)
    <3>1. {read.temporary, read.order_var, read.discard_output, read.ok} \subseteq BOOLEAN
      BY <1>8, <2>1 DEF Busy, Shaped
    <3> QED
      BY <1>5, <1>8, <2>1, <3>1 DEF Busy, Shaped
  <2>3. SinkOK(read)
    <3>1. DOMAIN p.chain = DOMAIN d.permanent_trns_chain
      BY <1>4, <1>5, LenProperties
    <3>2. ASSUME GuessFollows(d) PROVE GuessFollows(read)
      <4>1. SUFFICES ASSUME NEW i \in DOMAIN d.permanent_trns_chain, p.chain[i].kind = "mg"
                     PROVE  /\ i = Len(p.chain)
                            /\ p.chain[i].seen =
                                 [j \in DOMAIN d.sink.cases |-> d.sink.cases[j]["x"]]
        BY <1>8, <2>1, <3>1 DEF GuessFollows, Sees
      <4>2. d.permanent_trns_chain[i].kind = "mg"
        BY <1>5, <4>1
      <4>3. /\ i = Len(d.permanent_trns_chain)
            /\ d.permanent_trns_chain[i].seen
                 = [j \in DOMAIN d.sink.cases |-> d.sink.cases[j]["x"]]
        BY <3>2, <4>2 DEF GuessFollows, Sees
      <4> QED
        BY <1>5, <1>9, <4>2, <4>3
    <3> QED
      BY <2>1, <3>2 DEF Busy, SinkOK
  <2>4. read.source \in Source /\ read.source.cases \in Seq(S)
        /\ Len(read.source.cases) + read.cases_written <= NCases
    <3>1. Len(Tail(d.source.cases)) + d.cases_written <= NCases
      BY <1>1, <1>2, Numbers DEF n
    <3> QED
      BY <1>2, <1>6, <1>8, <2>1, <3>1
  <2> QED
    BY <2>1, <2>2, <2>3, <2>4 DEF Busy
(* A case that gets into the sink. *)
<1>10. /\ ordered \in S /\ ordered["x"] = c["x"]
  <2>1. CASE d.sink # NULL /\ d.order_var
    <3>1. ordered = [p.case EXCEPT !["order"] = n] /\ "order" # "x"
      BY <2>1
    <3> HIDE DEF ordered
    <3> QED
      BY <1>3, <1>4, <1>5, <3>1
  <2>2. CASE ~(d.sink # NULL /\ d.order_var)
    BY <1>5, <2>2
  <2> QED
    BY <2>1, <2>2
<1>11. lag \in Seq(S) /\ Len(lag) <= d.n_lag
  BY <1>5, PushesLag
<1> HIDE DEF ordered, lag
<1>12. /\ t.case \in S /\ t.chain \in Seq(Transformation)
       /\ Len(t.chain) = Len(d.temporary_trns_chain)
       /\ \A i \in DOMAIN d.temporary_trns_chain :
            t.chain[i].kind = d.temporary_trns_chain[i].kind
  <2>1. ordered \in [d.dict.vars -> Value] /\ lag \in Seq([d.dict.vars -> Value])
    BY <1>10, <1>11
  <2>2. Executed(d.dict.vars, d.temporary_trns_chain, n, ordered, lag, t)
    BY <1>3, <1>4, <2>1, Executes
  <2> HIDE DEF t
  <2> QED
    BY <2>2 DEF Executed
<1> HIDE DEF t, sink
<1>13. /\ DOMAIN w = Fields /\ w.source = source /\ w.permanent_trns_chain = p.chain
       /\ w.ok \in BOOLEAN /\ w.lag = lag /\ w.cases_written = n /\ w.sink = sink
       /\ w.temporary_trns_chain = t.chain
       /\ \A f \in Fields \ {"source", "permanent_trns_chain", "ok", "lag", "cases_written", "sink",
                            "temporary_trns_chain"} : w[f] = d[f]
  <2>1. /\ DOMAIN w = Fields /\ w.source = read.source
        /\ w.permanent_trns_chain = read.permanent_trns_chain
        /\ w.lag = lag /\ w.cases_written = n /\ w.temporary_trns_chain = t.chain
        /\ \A f \in Fields \ {"ok", "lag", "cases_written", "sink", "temporary_trns_chain"} :
             w[f] = read[f]
    BY <1>8 DEF Fields, w
  <2>2. w.ok \in BOOLEAN
    BY <1>8 DEF Fields, w
  <2>4. w.sink = sink
    BY <1>8 DEF Fields, w
  <2> QED
    BY <1>8, <2>1, <2>2, <2>4
<1>14. ASSUME p.result = "continue"
       PROVE  /\ Busy(w) /\ w.proc_state = "open" /\ w.dict = d.dict
              /\ w.temporary = d.temporary /\ w.discard_output = d.discard_output
              /\ w.cases_written = n
  <2>1. /\ w.dict = d.dict /\ w.permanent_dict = d.permanent_dict
        /\ w.temporary = d.temporary /\ w.preinited = d.preinited
        /\ w.order_var = d.order_var /\ w.discard_output = d.discard_output
        /\ w.n_lag = d.n_lag /\ w.proc_state = d.proc_state
    BY <1>13 DEF Fields
  <2>2. Shaped(w)
    <3>1. {w.temporary, w.order_var, w.discard_output, w.ok} \subseteq BOOLEAN
      BY <1>13, <2>1 DEF Busy, Shaped
    <3>2. DOMAIN t.chain = DOMAIN d.temporary_trns_chain
      BY <1>4, <1>12, LenProperties
    <3>3. \A i \in DOMAIN t.chain : t.chain[i].kind # "mg"
      BY <1>4, <1>12, <3>2
    <3> QED
      BY <1>5, <1>12, <1>13, <2>1, <3>1, <3>3 DEF Busy, Shaped
  <2>3. SinkOK(w)
    <3>1. CASE d.discard_output
      BY <1>13, <2>1, <3>1 DEF Busy, SinkOK, sink
    <3>2. CASE ~d.discard_output
      <4>1. /\ d.sink \in Sink /\ d.sink.vars = d.permanent_dict.vars
            /\ d.sink.cases \in Seq([d.sink.vars -> Value])
            /\ Len(d.sink.cases) = d.cases_written /\ GuessFollows(d)
            /\ d.sink.vars \in SUBSET Names /\ d.sink.vars \subseteq d.dict.vars
            /\ "x" \in d.sink.vars
        BY <3>2, DictIs DEF Busy, SinkOK
      <4>2. row \in [d.sink.vars -> Value] /\ row["x"] = c["x"]
        BY <1>10, <4>1
      <4> HIDE DEF row
      <4>3. /\ Append(d.sink.cases, row) \in Seq([d.sink.vars -> Value])
            /\ Len(Append(d.sink.cases, row)) = n
        BY <1>1, <4>1, <4>2 DEF n
      <4>4. d.sink.cases \in Seq(Case) /\ row \in Case /\ Append(d.sink.cases, row) \in Seq(Case)
        BY <4>1, <4>2, <4>3, CasesAre
      <4>5. sink = [d.sink EXCEPT !.cases = Append(d.sink.cases, row)]
        BY <4>1, Numbers DEF sink
      <4>6. sink \in Sink /\ sink.vars = d.sink.vars /\ sink.cases = Append(d.sink.cases, row)
        BY <4>1, <4>4, <4>5 DEF Sink
      <4>7. GuessFollows(w)
        <5> DEFINE q == d.permanent_trns_chain
                   s == d.sink.cases
        <5>1. q \in Seq(Transformation) /\ p.chain \in Seq(Transformation) /\ Len(p.chain) = Len(q)
          BY <1>4, <1>5
        <5>2. Sees(q, s)
          BY <4>1 DEF GuessFollows
        <5>3. \A i \in DOMAIN q :
                /\ p.chain[i].kind = q[i].kind
                /\ q[i].kind = "mg" => p.chain[i].seen = Append(q[i].seen, row["x"])
          BY <1>5, <1>14, <4>2
        <5>4. s \in Seq(Case)
          BY <4>4
        <5> HIDE DEF q, s
        <5>5. Sees(p.chain, Append(s, row))
          BY <4>4, <5>1, <5>2, <5>3, <5>4, GuessSees
        <5> QED
          BY <1>13, <4>6, <5>5 DEF GuessFollows, s
      <4> QED
        BY <1>13, <2>1, <3>2, <4>1, <4>3, <4>6, <4>7 DEF SinkOK
    <3> QED
      BY <3>1, <3>2 DEF Busy, Shaped
  <2>4. w.source \in Source /\ w.source.cases \in Seq(S)
        /\ Len(w.source.cases) + w.cases_written <= NCases /\ w.cases_written \in 0..NCases
    BY <1>2, <1>3, <1>6, <1>13 DEF Value
  <2> QED
    BY <1>11, <1>13, <2>1, <2>2, <2>3, <2>4 DEF Busy
<1>15. CASE p.result # "continue"
  BY <1>5, <1>0, <1>9, <1>15 DEF r
<1>16. CASE p.result = "continue"
  BY <1>0, <1>12, <1>14, <1>16 DEF r, n
<1> QED
  BY <1>15, <1>16

-----------------------------------------------------------------------------
(* The end of a procedure, and what its command does then.                 *)
LEMMA ReadsToTheEnd ==
  ASSUME NEW d, Busy(d), d.proc_state = "open", NEW tainted \in BOOLEAN
  PROVE  LET e == [d EXCEPT !.source.tainted = tainted]
         IN /\ Busy(e) /\ e.proc_state = "open"
            /\ \A f \in Fields \ {"source"} : e[f] = d[f]
<1> DEFINE source == [d.source EXCEPT !.tainted = tainted]
           e == [d EXCEPT !.source = source]
<1>1. [d EXCEPT !.source.tainted = tainted] = e
  BY DEF Busy, Shaped, Fields
<1>2. source \in Source /\ source.cases = d.source.cases
  BY DEF Busy, Source
<1> HIDE DEF source
<1>3. DOMAIN e = Fields /\ e.source = source /\ \A f \in Fields \ {"source"} : e[f] = d[f]
  BY DEF Busy, Shaped, Fields
<1> HIDE DEF e
<1>4. /\ e.dict = d.dict /\ e.permanent_dict = d.permanent_dict /\ e.temporary = d.temporary
      /\ e.permanent_trns_chain = d.permanent_trns_chain /\ e.preinited = d.preinited
      /\ e.temporary_trns_chain = d.temporary_trns_chain /\ e.order_var = d.order_var
      /\ e.sink = d.sink /\ e.discard_output = d.discard_output /\ e.n_lag = d.n_lag
      /\ e.lag = d.lag /\ e.proc_state = d.proc_state /\ e.cases_written = d.cases_written
      /\ e.ok = d.ok
  BY <1>3 DEF Fields
<1>5. Shaped(e)
  BY <1>3, <1>4 DEF Busy, Shaped
<1>6. SinkOK(e)
  BY <1>4 DEF Busy, SinkOK, GuessFollows
<1>7. Busy(e)
  BY <1>2, <1>3, <1>4, <1>5, <1>6 DEF Busy
<1> QED
  BY <1>1, <1>3, <1>4, <1>7

LEMMA Closes ==
  ASSUME NEW d, Busy(d), d.proc_state = "open"
  PROVE  LET e == proc_casereader_destroy(d)
         IN /\ Busy(e) /\ e.proc_state = "closed"
            /\ \A f \in {"dict", "temporary", "discard_output", "cases_written"} : e[f] = d[f]
<1> DEFINE ok == d.ok /\ ~d.source.tainted
           e == proc_casereader_destroy(d)
<1>1. /\ e.source = NULL /\ e.preinited = d.dict.vars /\ e.proc_state = "closed" /\ e.ok = ok
      /\ DOMAIN e = Fields
      /\ \A f \in Fields \ {"source", "preinited", "proc_state", "ok"} : e[f] = d[f]
  BY DEF proc_casereader_destroy, dataset_set_source, Busy, Shaped, Fields
<1>2. ok \in BOOLEAN
  BY DEF Busy, Shaped, Source
<1> HIDE DEF e, ok
<1>3. /\ e.dict = d.dict /\ e.permanent_dict = d.permanent_dict /\ e.temporary = d.temporary
      /\ e.permanent_trns_chain = d.permanent_trns_chain
      /\ e.temporary_trns_chain = d.temporary_trns_chain /\ e.order_var = d.order_var
      /\ e.sink = d.sink /\ e.discard_output = d.discard_output /\ e.n_lag = d.n_lag
      /\ e.lag = d.lag /\ e.cases_written = d.cases_written
  BY <1>1 DEF Fields
<1>4. Shaped(e)
  <2>1. d.dict.vars \in SUBSET Names
    BY DictIs DEF Busy, Shaped
  <2>2. {e.temporary, e.order_var, e.discard_output, e.ok} \subseteq BOOLEAN
    BY <1>1, <1>2, <1>3 DEF Busy, Shaped
  <2> QED
    BY <1>1, <1>3, <2>1, <2>2 DEF Busy, Shaped
<1>5. SinkOK(e)
  BY <1>3 DEF Busy, SinkOK, GuessFollows
<1>6. Busy(e)
  BY <1>1, <1>3, <1>4, <1>5 DEF Busy
<1> QED
  BY <1>1, <1>3, <1>6 DEF e


(* A dataset with nothing pending and no procedure.                        *)
Settled(d) ==
  /\ Shaped(d) /\ ~d.temporary /\ d.permanent_dict = NULL
  /\ d.permanent_trns_chain = <<>> /\ d.temporary_trns_chain = <<>>
  /\ d.sink = NULL /\ d.lag = <<>> /\ ~d.discard_output /\ ~d.order_var
  /\ d.proc_state = "committed" /\ d.cases_written \in 0..NCases

LEMMA SettledIsIdle ==
  ASSUME NEW d, Settled(d), d.source = NULL \/ Sourced(d)
  PROVE  Idle(d)
BY DEF Settled, Idle, Scoped, GuessWaits

LEMMA Commits ==
  ASSUME NEW d, Busy(d), d.proc_state = "closed"
  PROVE  LET e == proc_commit(d)
         IN /\ Settled(e) /\ e.dict.vars = d.permanent_dict.vars
            /\ IF d.discard_output THEN e.source = NULL
               ELSE Sourced(e) /\ ~e.source.tainted
<1> DEFINE s == [d EXCEPT !.proc_state = "committed"]
           c == proc_cancel_all_transformations(s)
           e == proc_commit(d)
           source == IF d.discard_output \/ d.sink = NULL THEN NULL
                     ELSE [cases |-> d.sink.cases, fails |-> FALSE, tainted |-> FALSE]
<1>1. /\ DOMAIN s = Fields /\ s.proc_state = "committed"
      /\ \A f \in Fields \ {"proc_state"} : s[f] = d[f]
  BY DEF Busy, Shaped, Fields
<1> HIDE DEF s
<1>2. /\ s.dict = d.dict /\ s.permanent_dict = d.permanent_dict /\ s.temporary = d.temporary
      /\ s.permanent_trns_chain = d.permanent_trns_chain /\ s.preinited = d.preinited
      /\ s.temporary_trns_chain = d.temporary_trns_chain /\ s.order_var = d.order_var
      /\ s.sink = d.sink /\ s.discard_output = d.discard_output /\ s.n_lag = d.n_lag
      /\ s.cases_written = d.cases_written /\ s.ok = d.ok
  BY <1>1 DEF Fields
<1>3. Shaped(s)
  BY <1>1, <1>2 DEF Busy, Shaped
<1>4. s.permanent_dict \in Dict /\ Lasting(s).vars = d.permanent_dict.vars
  BY <1>2 DEF Busy, Lasting
<1>5. /\ Shaped(c) /\ SameData(s, c) /\ ~c.temporary /\ c.permanent_trns_chain = <<>>
      /\ c.temporary_trns_chain = <<>> /\ c.dict.vars = d.permanent_dict.vars
  BY <1>3, <1>4, CancelsAll
<1> HIDE DEF c
<1>6. e = [c EXCEPT !.lag = <<>>, !.source = source, !.discard_output = FALSE, !.sink = NULL,
                    !.preinited = c.dict.vars, !.permanent_dict = NULL, !.order_var = FALSE]
  BY DEF proc_commit, c, s
<1> HIDE DEF source, e
<1>7. /\ DOMAIN e = Fields /\ e.lag = <<>> /\ e.source = source /\ e.discard_output = FALSE
      /\ e.sink = NULL /\ e.preinited = c.dict.vars /\ e.permanent_dict = NULL
      /\ e.order_var = FALSE
      /\ \A f \in Fields \ {"lag", "source", "discard_output", "sink", "preinited",
                            "permanent_dict", "order_var"} : e[f] = c[f]
  BY <1>5, <1>6 DEF Shaped, Fields
<1>8. /\ e.dict = c.dict /\ e.temporary = c.temporary /\ e.n_lag = c.n_lag
      /\ e.permanent_trns_chain = c.permanent_trns_chain /\ e.ok = c.ok
      /\ e.temporary_trns_chain = c.temporary_trns_chain /\ e.proc_state = c.proc_state
      /\ e.cases_written = c.cases_written
  BY <1>7 DEF Fields
<1>9. c.dict.vars \in SUBSET Names
  BY <1>5, DictIs DEF Shaped
<1>10. Settled(e)
  <2>1. {e.temporary, e.order_var, e.discard_output, e.ok} \subseteq BOOLEAN
    BY <1>5, <1>7, <1>8 DEF Shaped
  <2>2. Shaped(e)
    BY <1>5, <1>7, <1>8, <1>9, <2>1 DEF Shaped
  <2>3. e.proc_state = "committed" /\ e.cases_written \in 0..NCases
    BY <1>1, <1>2, <1>5, <1>8 DEF SameData, Busy
  <2> QED
    BY <1>5, <1>7, <1>8, <2>2, <2>3 DEF Settled
<1>11. CASE d.discard_output
  BY <1>5, <1>7, <1>8, <1>10, <1>11 DEF source, e
<1>12. CASE ~d.discard_output
  <2>1. /\ d.sink \in Sink /\ d.sink # NULL /\ d.sink.vars = d.permanent_dict.vars
        /\ d.sink.cases \in Seq([d.sink.vars -> Value]) /\ Len(d.sink.cases) = d.cases_written
    BY <1>12, Numbers DEF Busy, SinkOK
  <2>2. e.source = [cases |-> d.sink.cases, fails |-> FALSE, tainted |-> FALSE]
    BY <1>7, <1>12, <2>1 DEF source
  <2>3. e.source \in Source /\ e.source.cases = d.sink.cases /\ ~e.source.tainted
    BY <2>1, <2>2 DEF Source, Sink
  <2>4. Columns(e, c.dict.vars)
    BY <1>5, <2>1, <2>3 DEF Columns, Busy
  <2>5. Lasting(e).vars = c.dict.vars
    BY <1>5, <1>8 DEF Lasting
  <2>6. Sourced(e)
    BY <1>7, <1>9, <2>3, <2>4, <2>5 DEF Sourced
  <2> QED
    BY <1>5, <1>8, <1>10, <1>12, <2>3, <2>6 DEF e
<1> QED
  BY <1>11, <1>12

(* A source whose cases have the columns of the dictionary.                *)
LEMMA Supplies ==
  ASSUME NEW d, Settled(d), NEW source \in Source, "x" \in d.dict.vars,
         source.cases \in Seq([d.dict.vars -> Value]), Len(source.cases) <= NCases
  PROVE  LET e == dataset_set_source(d, source)
         IN Settled(e) /\ Sourced(e) /\ e.source = source
<1> DEFINE e == dataset_set_source(d, source)
<1>1. /\ DOMAIN e = Fields /\ e.source = source /\ e.preinited = d.dict.vars
      /\ \A f \in Fields \ {"source", "preinited"} : e[f] = d[f]
  BY DEF dataset_set_source, Settled, Shaped, Fields
<1> HIDE DEF e
<1>2. /\ e.dict = d.dict /\ e.permanent_dict = d.permanent_dict /\ e.temporary = d.temporary
      /\ e.permanent_trns_chain = d.permanent_trns_chain
      /\ e.temporary_trns_chain = d.temporary_trns_chain /\ e.order_var = d.order_var
      /\ e.sink = d.sink /\ e.discard_output = d.discard_output /\ e.n_lag = d.n_lag
      /\ e.lag = d.lag /\ e.proc_state = d.proc_state /\ e.cases_written = d.cases_written
      /\ e.ok = d.ok
  BY <1>1 DEF Fields
<1>3. d.dict.vars \in SUBSET Names
  BY DictIs DEF Settled, Shaped
<1>4. Shaped(e)
  BY <1>1, <1>2, <1>3 DEF Settled, Shaped
<1>5. Settled(e)
  BY <1>2, <1>4 DEF Settled
<1>6. Sourced(e)
  <2>1. Lasting(e).vars = d.dict.vars
    BY <1>2 DEF Lasting, Settled
  <2> QED
    BY <1>1, <1>3, <2>1 DEF Sourced, Columns
<1> QED
  BY <1>1, <1>5, <1>6 DEF e


LEMMA Projects ==
  ASSUME NEW names, NEW rest \in SUBSET names, NEW cases \in Seq([names -> Value])
  PROVE  Project(cases, rest) \in Seq([rest -> Value]) /\ Len(Project(cases, rest)) = Len(cases)
<1> DEFINE new == [i \in DOMAIN cases |-> [v \in rest |-> cases[i][v]]]
<1>1. DOMAIN cases = 1..Len(cases) /\ Len(cases) \in Nat
      /\ \A i \in DOMAIN cases : cases[i] \in [names -> Value]
  OBVIOUS
<1>2. \A i \in DOMAIN cases : new[i] \in [rest -> Value]
  BY <1>1
<1>3. new \in [1..Len(cases) -> [rest -> Value]]
  BY <1>1, <1>2
<1>4. Project(cases, rest) = new
  BY DEF Project
<1> HIDE DEF new
<1> QED
  BY <1>1, <1>3, <1>4, MakesSeq

LEMMA Deletes ==
  ASSUME NEW d, Settled(d), Sourced(d), NEW names, "x" \notin names
  PROVE  LET e == dataset_delete_vars(d, names)
         IN Settled(e) /\ Sourced(e) /\ e.source.tainted = d.source.tainted
<1> DEFINE rest == d.dict.vars \ names
           s == caseinit_translate_casereader_to_init_vars(d)
           e == dataset_delete_vars(d, names)
           source == [s.source EXCEPT !.cases = Project(s.source.cases, rest)]
           dict == [d.dict EXCEPT !.vars = rest]
<1>1. PICK old \in SUBSET Names : Columns(d, old) /\ d.preinited \subseteq old
                                  /\ old \subseteq Lasting(d).vars
  BY DEF Sourced
<1>2. old \subseteq d.dict.vars /\ "x" \in old /\ d.dict \in Dict /\ d.dict.vars \in SUBSET Names
      /\ d.source \in Source /\ Shaped(d)
  BY <1>1, DictIs DEF Lasting, Columns, Settled, Shaped, Sourced
<1>3. /\ DOMAIN s = Fields /\ \A f \in Fields \ {"source"} : s[f] = d[f]
      /\ s.source \in Source /\ s.source.cases \in Seq([d.dict.vars -> Value])
      /\ Len(s.source.cases) = Len(d.source.cases) /\ s.source.tainted = d.source.tainted
  BY <1>1, <1>2, Translates
<1> HIDE DEF s
<1>4. rest \in SUBSET Names /\ "x" \in rest /\ rest \in SUBSET d.dict.vars
  BY <1>1, <1>2
<1>5. dict \in Dict /\ dict.vars = rest
  BY <1>2, <1>4, DictIs
<1>6. /\ Project(s.source.cases, rest) \in Seq([rest -> Value])
      /\ Len(Project(s.source.cases, rest)) = Len(d.source.cases)
  <2> HIDE DEF rest
  <2>1. s.source.cases \in Seq([d.dict.vars -> Value])
    BY <1>3
  <2> QED
    BY <1>3, <1>4, <2>1, Projects, Zenon
<1>7. Project(s.source.cases, rest) \in Seq(Case)
  BY <1>4, <1>6, CasesAre
<1>8. source \in Source /\ source.cases = Project(s.source.cases, rest)
      /\ source.tainted = d.source.tainted
  BY <1>3, <1>7 DEF Source
<1>9. s.dict = d.dict
  BY <1>3 DEF Fields
<1>10. e = [s EXCEPT !.dict = dict, !.preinited = rest, !.source = source]
  BY <1>3, <1>9 DEF dataset_delete_vars, s, Fields
<1> HIDE DEF e, rest, source, dict
<1>11. /\ DOMAIN e = Fields /\ e.dict = dict /\ e.preinited = rest /\ e.source = source
       /\ \A f \in Fields \ {"source", "preinited", "dict"} : e[f] = d[f]
  BY <1>3, <1>10 DEF Fields
<1>12. /\ e.permanent_dict = d.permanent_dict /\ e.temporary = d.temporary
       /\ e.permanent_trns_chain = d.permanent_trns_chain
       /\ e.temporary_trns_chain = d.temporary_trns_chain /\ e.order_var = d.order_var
       /\ e.sink = d.sink /\ e.discard_output = d.discard_output /\ e.n_lag = d.n_lag
       /\ e.lag = d.lag /\ e.proc_state = d.proc_state /\ e.cases_written = d.cases_written
       /\ e.ok = d.ok
  BY <1>11 DEF Fields
<1>13. Settled(e)
  <2>1. Shaped(e)
    BY <1>2, <1>4, <1>5, <1>11, <1>12 DEF Shaped
  <2> QED
    BY <1>12, <2>1 DEF Settled
<1>14. Sourced(e)
  <2>1. Lasting(e).vars = rest
    BY <1>5, <1>11, <1>12 DEF Lasting, Settled
  <2>2. Columns(e, rest)
    BY <1>1, <1>4, <1>6, <1>8, <1>11 DEF Columns
  <2> QED
    BY <1>4, <1>8, <1>11, <2>1, <2>2 DEF Sourced
<1> QED
  BY <1>8, <1>11, <1>13, <1>14 DEF e

LEMMA Clears ==
  ASSUME NEW d, Idle(d)
  PROVE  Settled(dataset_clear(d)) /\ dataset_clear(d).source = NULL
<1> DEFINE s == [d EXCEPT !.dict = EmptyDict, !.n_lag = 0, !.source = NULL]
           e == proc_cancel_all_transformations(s)
<1>1. /\ DOMAIN s = Fields /\ s.dict = EmptyDict /\ s.n_lag = 0 /\ s.source = NULL
      /\ \A f \in Fields \ {"dict", "n_lag", "source"} : s[f] = d[f]
  BY DEF Idle, Shaped, Fields
<1> HIDE DEF s
<1>2. /\ s.permanent_dict = d.permanent_dict /\ s.temporary = d.temporary
      /\ s.permanent_trns_chain = d.permanent_trns_chain /\ s.preinited = d.preinited
      /\ s.temporary_trns_chain = d.temporary_trns_chain /\ s.order_var = d.order_var
      /\ s.sink = d.sink /\ s.discard_output = d.discard_output
      /\ s.cases_written = d.cases_written /\ s.ok = d.ok
      /\ s.lag = d.lag /\ s.proc_state = d.proc_state
  BY <1>1 DEF Fields
<1>3. Shaped(s)
  BY <1>1, <1>2, EmptyIs, Numbers DEF Idle, Shaped
<1>4. /\ s.temporary => s.permanent_dict \in Dict
      /\ ~s.temporary => s.permanent_dict = NULL
  BY <1>2 DEF Idle, Scoped
<1>5. /\ Shaped(e) /\ SameData(s, e) /\ ~e.temporary /\ e.permanent_trns_chain = <<>>
      /\ e.temporary_trns_chain = <<>>
      /\ e.permanent_dict = IF s.temporary THEN NULL ELSE s.permanent_dict
  BY <1>3, <1>4, CancelsAll
<1>6. dataset_clear(d) = e
  BY DEF dataset_clear, s
<1> HIDE DEF e
<1>7. Settled(e) /\ e.source = NULL
  BY <1>1, <1>2, <1>4, <1>5 DEF Settled, SameData, Idle
<1> QED
  BY <1>6, <1>7

LEMMA EndsCommand ==
  ASSUME NEW d, Settled(d), d.source = NULL \/ Sourced(d)
  PROVE  LET e == dataset_end_of_command(d)
         IN Settled(e) /\ Idle(e)
<1>1. Idle(d)
  BY SettledIsIdle
<1>2. CASE d.source # NULL /\ d.source.tainted
  <2>1. Settled(dataset_clear(d)) /\ dataset_clear(d).source = NULL
    BY <1>1, Clears
  <2> QED
    BY <1>2, <2>1, SettledIsIdle DEF dataset_end_of_command
<1>3. CASE ~(d.source # NULL /\ d.source.tainted)
  BY <1>1, <1>3 DEF dataset_end_of_command
<1> QED
  BY <1>2, <1>3


-----------------------------------------------------------------------------
(* What a command makes of the dataset between procedures.                 *)
LEMMA KeepsIdle ==
  ASSUME NEW d, Idle(d), NEW e, Wellformed(e), Lasting(d).vars \subseteq Lasting(e).vars,
         \A f \in {"source", "preinited", "sink", "lag", "discard_output", "order_var",
                   "proc_state", "cases_written"} : e[f] = d[f]
  PROVE  Idle(e)
<1>1. /\ e.source = d.source /\ e.preinited = d.preinited /\ e.sink = d.sink /\ e.lag = d.lag
      /\ e.discard_output = d.discard_output /\ e.order_var = d.order_var
      /\ e.proc_state = d.proc_state /\ e.cases_written = d.cases_written
  OBVIOUS
<1>2. Sourced(d) => Sourced(e)
  <2> SUFFICES ASSUME Sourced(d) PROVE Sourced(e)
    OBVIOUS
  <2>1. PICK names \in SUBSET Names :
          Columns(d, names) /\ d.preinited \subseteq names /\ names \subseteq Lasting(d).vars
    BY DEF Sourced
  <2>2. Columns(e, names) /\ e.preinited \subseteq names /\ names \subseteq Lasting(e).vars
    BY <1>1, <2>1 DEF Columns
  <2> QED
    BY <1>1, <2>2 DEF Sourced
<1> QED
  BY <1>1, <1>2 DEF Idle, Wellformed

LEMMA IdleIs ==
  ASSUME NEW d, Idle(d)
  PROVE  /\ Wellformed(d) /\ d.dict \in Dict /\ d.dict.vars \in SUBSET Names
         /\ d.permanent_dict \in Dict \cup {NULL}
         /\ d.temporary => d.permanent_dict \in Dict
         /\ ~d.temporary => d.permanent_dict = NULL
         /\ Lasting(d) \in Dict /\ Lasting(d).vars \subseteq d.dict.vars
BY DictIs DEF Idle, Wellformed, Shaped, Scoped, Lasting

(* Another dictionary with at least the same variables.                    *)
LEMMA RedescribesIdle ==
  ASSUME NEW d, Idle(d), NEW dict \in Dict, d.dict.vars \subseteq dict.vars
  PROVE  Idle([d EXCEPT !.dict = dict])
<1> DEFINE e == [d EXCEPT !.dict = dict]
<1>1. Shaped(d) /\ Scoped(d) /\ GuessWaits(d)
  BY DEF Idle
<1>2. /\ Shaped(e) /\ SameData(d, e) /\ e.dict = dict /\ (GuessWaits(d) => GuessWaits(e))
      /\ e.permanent_dict = d.permanent_dict /\ e.temporary = d.temporary
      /\ e.temporary_trns_chain = d.temporary_trns_chain
  BY <1>1, Redescribes
<1> HIDE DEF e
<1>3. Scoped(e)
  BY <1>1, <1>2 DEF Scoped
<1>4. Lasting(d).vars \subseteq Lasting(e).vars
  BY <1>2 DEF Lasting
<1>5. Idle(e)
  BY <1>1, <1>2, <1>3, <1>4, KeepsIdle DEF Wellformed, SameData
<1> QED
  BY <1>5 DEF e

LEMMA Loads ==
  ASSUME NEW d, Idle(d), NEW fails \in BOOLEAN, NEW tainted \in BOOLEAN
  PROVE  Idle(dataset_end_of_command(
                dataset_set_source(
                  dataset_set_dict(d, [EmptyDict EXCEPT !.vars = {"x"}, !.unknown = TRUE]),
                  [cases |-> [i \in 1..NCases |-> [v \in {"x"} |-> i]],
                   fails |-> fails, tainted |-> tainted])))
<1> DEFINE dict == [EmptyDict EXCEPT !.vars = {"x"}, !.unknown = TRUE]
           cases == [i \in 1..NCases |-> [v \in {"x"} |-> i]]
           source == [cases |-> cases, fails |-> fails, tainted |-> tainted]
           c == dataset_clear(d)
           s == dataset_set_dict(d, dict)
<1>1. Settled(c) /\ c.source = NULL
  BY Clears
<1>2. dict \in Dict /\ dict.vars = {"x"}
  BY DEF Dict, EmptyDict, Names
<1> HIDE DEF c, dict
<1>3. Settled(s) /\ s.dict.vars = {"x"}
  <2> DEFINE e == [c EXCEPT !.dict = dict]
  <2>1. Shaped(c)
    BY <1>1 DEF Settled
  <2>2. /\ Shaped(e) /\ SameData(c, e) /\ e.dict = dict
        /\ e.permanent_dict = c.permanent_dict /\ e.temporary = c.temporary
        /\ e.temporary_trns_chain = c.temporary_trns_chain
        /\ e.permanent_trns_chain = c.permanent_trns_chain
    BY <1>2, <2>1, Redescribes
  <2>3. s = e
    BY DEF dataset_set_dict, c
  <2> HIDE DEF e
  <2> QED
    BY <1>1, <1>2, <2>2, <2>3 DEF Settled, SameData
<1> HIDE DEF s
<1>4. /\ cases \in Seq([{"x"} -> Value]) /\ Len(cases) = NCases
  <2>1. \A i \in 1..NCases : [v \in {"x"} |-> i] \in [{"x"} -> Value]
    BY Numbers
  <2>2. cases \in [1..NCases -> [{"x"} -> Value]]
    BY <2>1
  <2> HIDE DEF cases
  <2> QED
    BY <2>2, Numbers, MakesSeq
<1>5. cases \in Seq(Case)
  <2>1. {"x"} \in SUBSET Names
    BY DEF Names
  <2> QED
    BY <1>4, <2>1, CasesAre
<1> HIDE DEF cases
<1>6. source \in Source /\ source.cases = cases
  BY <1>5 DEF Source
<1> HIDE DEF source
<1>7. Settled(dataset_set_source(s, source)) /\ Sourced(dataset_set_source(s, source))
  <2>1. source.cases \in Seq([s.dict.vars -> Value]) /\ Len(source.cases) <= NCases
        /\ "x" \in s.dict.vars
    BY <1>3, <1>4, <1>6, Numbers
  <2> QED
    BY <1>3, <1>6, <2>1, Supplies
<1> HIDE DEF s
<1>8. Idle(dataset_end_of_command(dataset_set_source(s, source)))
  BY <1>7, EndsCommand
<1> QED
  BY <1>8 DEF s, dict, source, cases

LEMMA Transforms ==
  ASSUME NEW d, Idle(d), NEW dict \in Dict, d.dict.vars \subseteq dict.vars,
         NEW n \in 0..MaxLag, NEW t \in Transformation, t.kind # "mg"
  PROVE  Idle(add_transformation([d EXCEPT !.dict = dict, !.n_lag = n], t))
<1> DEFINE e == [d EXCEPT !.dict = dict]
           s == [e EXCEPT !.n_lag = n]
           a == add_transformation(s, t)
<1>1. Idle(e) /\ e.dict = dict
  BY RedescribesIdle DEF Idle, Shaped, Fields
<1>2. [d EXCEPT !.dict = dict, !.n_lag = n] = s
  OBVIOUS
<1> HIDE DEF e
<1>3. DOMAIN s = Fields /\ s.n_lag = n /\ \A f \in Fields \ {"n_lag"} : s[f] = e[f]
  BY <1>1 DEF Idle, Shaped, Fields
<1> HIDE DEF s
<1>4. /\ s.dict = e.dict /\ s.permanent_dict = e.permanent_dict /\ s.temporary = e.temporary
      /\ s.permanent_trns_chain = e.permanent_trns_chain /\ s.preinited = e.preinited
      /\ s.temporary_trns_chain = e.temporary_trns_chain /\ s.order_var = e.order_var
      /\ s.sink = e.sink /\ s.discard_output = e.discard_output /\ s.source = e.source
      /\ s.cases_written = e.cases_written /\ s.ok = e.ok
      /\ s.lag = e.lag /\ s.proc_state = e.proc_state
  BY <1>3 DEF Fields
<1>5. Shaped(s) /\ Scoped(s) /\ GuessWaits(s)
  <2>1. Shaped(s)
    BY <1>1, <1>3, <1>4 DEF Idle, Shaped
  <2> QED
    BY <1>1, <1>4, <2>1 DEF Idle, Scoped, GuessWaits
<1>6. /\ Shaped(a) /\ Scoped(a) /\ GuessWaits(a) /\ Kept(s, a)
  BY <1>5, Adds
<1> HIDE DEF a
<1>7. /\ Wellformed(a) /\ Lasting(a) = Lasting(e)
      /\ \A f \in {"source", "preinited", "sink", "lag", "discard_output", "order_var",
                   "proc_state", "cases_written"} : a[f] = e[f]
  BY <1>4, <1>6 DEF Wellformed, Kept, SameData, Lasting
<1>8. Idle(a)
  BY <1>1, <1>7, KeepsIdle
<1> QED
  BY <1>2, <1>8 DEF a


LEMMA GoesTemporary ==
  ASSUME NEW d, Idle(d)
  PROVE  Idle(proc_start_temporary_transformations(d))
<1> DEFINE e == proc_start_temporary_transformations(d)
<1>1. Wellformed(e) /\ SameData(d, e) /\ Lasting(e).vars = Lasting(d).vars
  BY IdleIs, StartsTemporary
<1> HIDE DEF e
<1>2. Idle(e)
  BY <1>1, KeepsIdle DEF SameData
<1> QED
  BY <1>2 DEF e

(* What is left of Idle when the source follows a temporary dictionary.    *)
Loose(d) ==
  /\ Shaped(d) /\ Scoped(d)
  /\ \/ d.source = NULL
     \/ /\ d.source \in Source
        /\ \E names \in SUBSET Names :
             Columns(d, names) /\ d.preinited \subseteq names /\ names \subseteq d.dict.vars
  /\ d.sink = NULL /\ d.lag = <<>>
  /\ d.proc_state = "committed" /\ d.cases_written \in 0..NCases

LEMMA IdleIsLoose ==
  ASSUME NEW d, Idle(d)
  PROVE  Loose(d)
<1>1. Lasting(d).vars \subseteq d.dict.vars
  BY IdleIs
<1>2. Sourced(d) => \E names \in SUBSET Names :
        Columns(d, names) /\ d.preinited \subseteq names /\ names \subseteq d.dict.vars
  <2> SUFFICES ASSUME Sourced(d)
               PROVE  \E names \in SUBSET Names :
                        /\ Columns(d, names) /\ d.preinited \subseteq names
                        /\ names \subseteq d.dict.vars
    OBVIOUS
  <2>1. PICK names \in SUBSET Names :
          Columns(d, names) /\ d.preinited \subseteq names /\ names \subseteq Lasting(d).vars
    BY DEF Sourced
  <2>2. names \subseteq d.dict.vars
    BY <1>1, <2>1
  <2> QED
    BY <2>1, <2>2
<1>3. Sourced(d) => d.source \in Source
  BY DEF Sourced
<1> QED
  BY <1>2, <1>3 DEF Idle, Loose

LEMMA Reorders ==
  ASSUME NEW d, Idle(d), d.source # NULL
  PROVE  LET e == caseinit_translate_casereader_to_init_vars(proc_execute_trivially(d))
         IN Loose(e) /\ (~d.temporary => Idle(e))
<1> DEFINE s == proc_execute_trivially(d)
           e == caseinit_translate_casereader_to_init_vars(s)
           dict == [d.dict EXCEPT !.limit = 0]
<1>1. dict \in Dict /\ dict.vars = d.dict.vars /\ dict.vars \in SUBSET Names
  BY IdleIs, DictIs
<1>2. s = [d EXCEPT !.n_lag = 0, !.discard_output = FALSE, !.dict = dict]
  BY DEF proc_execute_trivially
<1> HIDE DEF s, dict
<1>3. /\ DOMAIN s = Fields /\ s.n_lag = 0 /\ s.discard_output = FALSE /\ s.dict = dict
      /\ \A f \in Fields \ {"n_lag", "discard_output", "dict"} : s[f] = d[f]
  BY <1>2 DEF Idle, Shaped, Fields
<1>4. /\ s.permanent_dict = d.permanent_dict /\ s.temporary = d.temporary
      /\ s.permanent_trns_chain = d.permanent_trns_chain /\ s.preinited = d.preinited
      /\ s.temporary_trns_chain = d.temporary_trns_chain /\ s.order_var = d.order_var
      /\ s.sink = d.sink /\ s.source = d.source
      /\ s.cases_written = d.cases_written /\ s.ok = d.ok
      /\ s.lag = d.lag /\ s.proc_state = d.proc_state
  BY <1>3 DEF Fields
<1>5. Shaped(s)
  <2>1. {s.temporary, s.order_var, s.discard_output, s.ok} \subseteq BOOLEAN
    BY <1>3, <1>4 DEF Idle, Shaped
  <2> QED
    BY <1>1, <1>3, <1>4, <2>1, Numbers DEF Idle, Shaped
<1>6. Scoped(s)
  BY <1>1, <1>3, <1>4 DEF Idle, Scoped
<1>7. PICK names \in SUBSET Names :
        Columns(d, names) /\ d.preinited \subseteq names /\ names \subseteq d.dict.vars
  BY IdleIsLoose DEF Loose
<1>8. Columns(s, names) /\ s.preinited \subseteq names /\ names \subseteq s.dict.vars
      /\ s.source \in Source
  BY <1>1, <1>3, <1>4, <1>7 DEF Columns, Idle, Sourced
<1>9. /\ DOMAIN e = Fields /\ \A f \in Fields \ {"source"} : e[f] = s[f]
      /\ e.source \in Source
      /\ e.source.cases \in Seq([s.dict.vars -> Value])
      /\ Len(e.source.cases) = Len(s.source.cases)
  BY <1>5, <1>8, Translates
<1> HIDE DEF e
<1>10. /\ e.permanent_dict = s.permanent_dict /\ e.temporary = s.temporary /\ e.dict = s.dict
       /\ e.permanent_trns_chain = s.permanent_trns_chain /\ e.preinited = s.preinited
       /\ e.temporary_trns_chain = s.temporary_trns_chain /\ e.order_var = s.order_var
       /\ e.sink = s.sink /\ e.discard_output = s.discard_output /\ e.n_lag = s.n_lag
       /\ e.cases_written = s.cases_written /\ e.ok = s.ok
       /\ e.lag = s.lag /\ e.proc_state = s.proc_state
  BY <1>9 DEF Fields
<1>11. Shaped(e)
  BY <1>5, <1>9, <1>10 DEF Shaped
<1>12. Scoped(e)
  BY <1>6, <1>10 DEF Scoped
<1>13. Columns(e, dict.vars) /\ e.preinited \subseteq dict.vars /\ e.dict = dict
  <2>1. "x" \in dict.vars
    BY <1>3, <1>8 DEF Columns
  <2> QED
    BY <1>3, <1>8, <1>9, <1>10, <2>1 DEF Columns
<1>14. Loose(e)
  BY <1>1, <1>4, <1>9, <1>10, <1>11, <1>12, <1>13 DEF Loose, Idle
<1>15. ASSUME ~d.temporary PROVE Idle(e)
  <2>1. Lasting(e) = dict
    BY <1>4, <1>10, <1>13, <1>15 DEF Lasting
  <2>2. Sourced(e)
    BY <1>1, <1>9, <1>13, <2>1 DEF Sourced
  <2>3. GuessWaits(e)
    BY <1>4, <1>10 DEF GuessWaits, Idle
  <2> QED
    BY <1>3, <1>4, <1>10, <1>11, <1>12, <2>2, <2>3 DEF Idle
<1> QED
  BY <1>14, <1>15 DEF e, s


LEMMA SourcedStays ==
  ASSUME NEW d, Sourced(d), NEW e, e.source = d.source, e.preinited = d.preinited,
         Lasting(d).vars \subseteq Lasting(e).vars
  PROVE  Sourced(e)
<1>1. PICK names \in SUBSET Names :
        Columns(d, names) /\ d.preinited \subseteq names /\ names \subseteq Lasting(d).vars
  BY DEF Sourced
<1>2. Columns(e, names) /\ e.preinited \subseteq names /\ names \subseteq Lasting(e).vars
  BY <1>1 DEF Columns
<1> QED
  BY <1>2 DEF Sourced

Started(name, e) ==
  /\ Busy(e) /\ e.cases_written = 0 /\ e.proc_state = "open"
  /\ e.discard_output <=> name = "sort cases"
  /\ name = "sort cases" => ~e.temporary

LEMMA Starts ==
  ASSUME Idle(ds), ds.source # NULL, NEW name \in Procedures \cup {"sort variables"}
  PROVE  Started(name, Opened(name))
<1>1. Shaped(ds) /\ Scoped(ds) /\ GuessWaits(ds) /\ Wellformed(ds) /\ Sourced(ds)
      /\ ds.discard_output = FALSE
  BY IdleIs DEF Idle, Shaped
<1>2. CASE name \in {"statistics", "sort variables"}
  <2>1. Opened(name) = proc_open_filtering(ds, TRUE)
    BY <1>2 DEF Opened
  <2> QED
    BY <1>1, <1>2, <2>1, Opens DEF Started
<1>3. CASE name = "save unselected"
  <2>1. Opened(name) = proc_open_filtering(ds, FALSE)
    BY <1>3 DEF Opened
  <2> QED
    BY <1>1, <1>3, <2>1, Opens DEF Started
<1>4. CASE name = "sort cases"
  <2> DEFINE c == proc_cancel_temporary_transformations(ds)
             s == [c EXCEPT !.discard_output = TRUE]
  <2>1. /\ Shaped(c) /\ SameData(ds, c) /\ ~c.temporary /\ c.temporary_trns_chain = <<>>
        /\ c.dict = Lasting(ds) /\ c.permanent_dict = NULL
    BY <1>1, Cancels DEF Scoped
  <2>2. Opened(name) = proc_open_filtering(s, FALSE)
    BY <1>4 DEF Opened
  <2> HIDE DEF c
  <2>3. /\ DOMAIN s = Fields /\ s.discard_output = TRUE
        /\ \A f \in Fields \ {"discard_output"} : s[f] = c[f]
    BY <2>1 DEF Shaped, Fields
  <2> HIDE DEF s
  <2>4. /\ s.permanent_dict = c.permanent_dict /\ s.temporary = c.temporary /\ s.dict = c.dict
        /\ s.permanent_trns_chain = c.permanent_trns_chain /\ s.preinited = c.preinited
        /\ s.temporary_trns_chain = c.temporary_trns_chain /\ s.order_var = c.order_var
        /\ s.source = c.source /\ s.ok = c.ok /\ s.n_lag = c.n_lag
    BY <2>3 DEF Fields
  <2>5. Shaped(s)
    <3>1. {s.temporary, s.order_var, s.discard_output, s.ok} \subseteq BOOLEAN
      BY <2>1, <2>3, <2>4 DEF Shaped
    <3> QED
      BY <2>1, <2>3, <2>4, <3>1 DEF Shaped
  <2>6. Scoped(s)
    BY <2>1, <2>4 DEF Scoped
  <2>7. Sourced(s)
    <3>1. Lasting(s) = Lasting(ds)
      BY <2>1, <2>4 DEF Lasting
    <3>2. s.source = ds.source /\ s.preinited = ds.preinited
      BY <2>1, <2>4 DEF SameData
    <3> QED
      BY <1>1, <3>1, <3>2, SourcedStays
  <2> QED
    <3>1. LET e == proc_open_filtering(s, FALSE)
          IN /\ Busy(e) /\ e.cases_written = 0 /\ e.proc_state = "open"
             /\ e.discard_output = s.discard_output /\ e.temporary = s.temporary
      BY <2>3, <2>5, <2>6, <2>7, Opens
    <3> QED
      BY <1>4, <2>1, <2>2, <2>3, <2>4, <3>1 DEF Started
<1>5. CASE name = "z scores"
  <2> DEFINE s == proc_make_temporary_transformations_permanent(ds)
  <2>1. Wellformed(s) /\ SameData(ds, s) /\ ~s.temporary /\ s.dict = ds.dict
    BY <1>1, MakesPermanent
  <2>2. Opened(name) = proc_open_filtering(s, FALSE)
    BY <1>5 DEF Opened
  <2> HIDE DEF s
  <2>3. Sourced(s)
    <3>1. Lasting(ds).vars \subseteq Lasting(s).vars
      BY <2>1, IdleIs DEF Lasting
    <3>2. s.source = ds.source /\ s.preinited = ds.preinited
      BY <2>1 DEF SameData
    <3> QED
      BY <1>1, <3>1, <3>2, SourcedStays
  <2>4. s.discard_output = FALSE
    BY <1>1, <2>1 DEF SameData
  <2> QED
    BY <1>5, <2>1, <2>2, <2>3, <2>4, Opens DEF Started, Wellformed
<1>6. CASE name = "rank"
  <2> DEFINE s == add_permanent_ordering_transformation(ds)
  <2>1. /\ Wellformed(s) /\ s.source = ds.source /\ s.preinited = ds.preinited
        /\ s.discard_output = ds.discard_output
        /\ Lasting(s).vars = Lasting(ds).vars \cup {"order"}
    BY <1>1, Orders
  <2>2. Opened(name) = proc_open_filtering(s, TRUE)
    BY <1>6 DEF Opened
  <2> HIDE DEF s
  <2>3. Sourced(s)
    BY <1>1, <2>1, SourcedStays
  <2> QED
    <3>1. Shaped(s) /\ Scoped(s) /\ GuessWaits(s) /\ s.discard_output = FALSE
      BY <1>1, <2>1 DEF Wellformed
    <3>2. LET e == proc_open_filtering(s, TRUE)
          IN /\ Busy(e) /\ e.cases_written = 0 /\ e.proc_state = "open"
             /\ e.discard_output = s.discard_output
      BY <2>3, <3>1, Opens
    <3> QED
      BY <1>6, <2>2, <3>1, <3>2 DEF Started
<1> QED
  BY <1>2, <1>3, <1>4, <1>5, <1>6 DEF Procedures

-----------------------------------------------------------------------------
(* The invariant.                                                          *)
DatasetOK(d) ==
  /\ d.dict \in Dict /\ d.permanent_dict \in Dict \cup {NULL}
  /\ d.temporary => d.permanent_dict # NULL
  /\ (d.proc_state = "open") => d.source # NULL
  /\ (d.proc_state = "closed") => d.source = NULL
  /\ (d.sink # NULL) => d.proc_state # "committed"
  /\ d.source # NULL => d.source \in Source /\ Len(d.source.cases) <= NCases
  /\ d.n_lag \in 0..MaxLag /\ Len(d.lag) <= d.n_lag
  /\ d.cases_written \in 0..NCases /\ d.ok \in BOOLEAN

LEMMA LooseIsOK ==
  ASSUME NEW d, Loose(d)
  PROVE  /\ DatasetOK(d)
         /\ d.source # NULL =>
              \A i \in DOMAIN d.source.cases :
                /\ d.preinited \subseteq DOMAIN d.source.cases[i]
                /\ DOMAIN d.source.cases[i] \subseteq d.dict.vars
<1>1. DatasetOK(d)
  <2>1. d.permanent_dict \in Dict \cup {NULL} /\ (d.temporary => d.permanent_dict # NULL)
    BY Numbers DEF Loose, Scoped
  <2>2. Len(d.lag) = 0 /\ d.n_lag \in 0..MaxLag
    BY DEF Loose, Shaped
  <2>3. Len(d.lag) <= d.n_lag
    BY <2>2, Numbers
  <2>4. d.source # NULL => d.source \in Source /\ Len(d.source.cases) <= NCases
    BY DEF Loose, Columns
  <2> QED
    BY <2>1, <2>2, <2>3, <2>4 DEF Loose, Shaped, DatasetOK
<1>2. ASSUME d.source # NULL, NEW i \in DOMAIN d.source.cases
      PROVE  /\ d.preinited \subseteq DOMAIN d.source.cases[i]
             /\ DOMAIN d.source.cases[i] \subseteq d.dict.vars
  <2>1. PICK names \in SUBSET Names :
          Columns(d, names) /\ d.preinited \subseteq names /\ names \subseteq d.dict.vars
    BY <1>2 DEF Loose
  <2>2. d.source.cases[i] \in [names -> Value]
    BY <1>2, <2>1 DEF Columns
  <2> QED
    BY <2>1, <2>2
<1> QED
  BY <1>1, <1>2

LEMMA BusyIsOK ==
  ASSUME NEW d, Busy(d)
  PROVE  DatasetOK(d) /\ d.proc_state \in {"open", "closed"}
<1>1. d.permanent_dict \in Dict /\ d.permanent_dict # NULL /\ d.n_lag \in 0..MaxLag
      /\ d.cases_written \in 0..NCases /\ d.ok \in BOOLEAN /\ d.dict \in Dict
      /\ Len(d.lag) <= d.n_lag
  BY Numbers DEF Busy, Shaped
<1>2. CASE d.proc_state = "closed" /\ d.source = NULL
  BY <1>1, <1>2 DEF DatasetOK
<1>3. CASE /\ d.proc_state = "open" /\ d.source \in Source
           /\ Len(d.source.cases) + d.cases_written <= NCases
  <2>1. Len(d.source.cases) \in Nat /\ d.source # NULL
    BY <1>3, Numbers DEF Source
  <2>2. Len(d.source.cases) <= NCases
    BY <1>1, <1>3, <2>1, Numbers
  <2> QED
    BY <1>1, <1>3, <2>1, <2>2 DEF DatasetOK
<1> QED
  BY <1>2, <1>3 DEF Busy


Aborts == {"case_num_rw", "dataset_reorder_vars"}

LEMMA Rests ==
  ASSUME Loose(ds'), command' = "none", reading' = "no", aborts' \subseteq Aborts,
         delivered' \in Seq(Case), Len(delivered') <= NCases, Stuck' \/ Idle(ds')
  PROVE  IInv'
<1>1. DatasetOK(ds') /\ ds'.proc_state = "committed" /\ ds'.sink = NULL
  BY LooseIsOK DEF Loose
<1>2. TypeOK'
  BY <1>1 DEF TypeOK, DatasetOK, Aborts
<1>3. DictFitsData'
  BY LooseIsOK DEF DictFitsData
<1>4. GuessSeesTheFile'
  BY <1>1 DEF GuessSeesTheFile
<1> QED
  BY <1>2, <1>3, <1>4 DEF IInv

LEMMA Works ==
  ASSUME InProcedure', command' # "none", reading' # "no" => ds'.proc_state = "open",
         aborts' \subseteq Aborts
  PROVE  IInv'
<1>1. Busy(ds') /\ DatasetOK(ds') /\ ds'.proc_state \in {"open", "closed"}
  BY BusyIsOK DEF InProcedure
<1>2. delivered' \in Seq(Case) /\ Len(delivered') <= NCases
  <2>1. ds'.dict.vars \in SUBSET Names
    BY <1>1, DictIs DEF DatasetOK
  <2>2. delivered' \in Seq(Case)
    BY <2>1, CasesAre DEF InProcedure
  <2>3. Len(delivered') \in Nat
    BY <2>2
  <2>4. Len(delivered') <= ds'.cases_written
    BY DEF InProcedure
  <2>5. ds'.cases_written \in 0..NCases
    BY <1>1 DEF DatasetOK
  <2> QED
    BY <2>2, <2>3, <2>4, <2>5, Numbers
<1>3. TypeOK'
  BY <1>1, <1>2 DEF TypeOK, DatasetOK, Aborts
<1>4. DictFitsData'
  BY <1>1 DEF DictFitsData
<1>5. GuessSeesTheFile'
  <2>1. CASE ds'.discard_output
    BY <1>1, <2>1 DEF Busy, SinkOK, GuessSeesTheFile
  <2>2. CASE ~ds'.discard_output
    BY <1>1, <2>2 DEF Busy, SinkOK, GuessFollows, Sees, GuessSeesTheFile
  <2> QED
    BY <2>1, <2>2
<1> QED
  BY <1>3, <1>4, <1>5 DEF IInv

LEMMA InitIInv == Init => IInv
<1> SUFFICES ASSUME Init PROVE IInv
  OBVIOUS
<1>1. ds = [source |-> NULL, preinited |-> {}, dict |-> EmptyDict,
            permanent_dict |-> NULL, permanent_trns_chain |-> <<>>,
            temporary_trns_chain |-> <<>>, temporary |-> FALSE,
            order_var |-> FALSE, sink |-> NULL, discard_output |-> FALSE,
            n_lag |-> 0, lag |-> <<>>, proc_state |-> "committed",
            cases_written |-> 0, ok |-> TRUE]
  BY DEF Init
<1>2. /\ DOMAIN ds = Fields /\ ds.source = NULL /\ ds.preinited = {} /\ ds.dict = EmptyDict
      /\ ds.permanent_dict = NULL /\ ds.permanent_trns_chain = <<>>
      /\ ds.temporary_trns_chain = <<>> /\ ds.temporary = FALSE /\ ds.order_var = FALSE
      /\ ds.sink = NULL /\ ds.discard_output = FALSE /\ ds.n_lag = 0 /\ ds.lag = <<>>
      /\ ds.proc_state = "committed" /\ ds.cases_written = 0 /\ ds.ok = TRUE
  BY <1>1 DEF Fields
<1>3. Shaped(ds)
  <2>1. {ds.temporary, ds.order_var, ds.discard_output, ds.ok} \subseteq BOOLEAN
    BY <1>2
  <2>2. <<>> \in Seq(Transformation) /\ DOMAIN <<>> = {} /\ 0 \in 0..MaxLag
    BY Numbers
  <2> QED
    BY <1>2, <2>1, <2>2, EmptyIs DEF Shaped
<1>4. Settled(ds)
  BY <1>2, <1>3, Numbers DEF Settled
<1>5. Idle(ds) /\ Loose(ds)
  BY <1>2, <1>4, SettledIsIdle, IdleIsLoose
<1>6. DatasetOK(ds)
  BY <1>5, LooseIsOK
<1>7. TypeOK /\ DictFitsData /\ GuessSeesTheFile
  BY <1>2, <1>6, Numbers DEF TypeOK, DatasetOK, DictFitsData, GuessSeesTheFile, Init
<1> QED
  BY <1>5, <1>7 DEF IInv, Init

(* A command that leaves the dataset idle.                                 *)
LEMMA Between ==
  ASSUME IInv, ds.proc_state = "committed", aborts = {}
  PROVE  Idle(ds) /\ command = "none" /\ reading = "no"
BY DEF IInv, TypeOK, Stuck

LEMMA CommandKeeps ==
  ASSUME IInv, ds.proc_state = "committed", aborts = {}, Idle(ds'),
         delivered' = <<>>, UNCHANGED <<command, reading, aborts>>
  PROVE  IInv'
<1>1. command' = "none" /\ reading' = "no" /\ aborts' \subseteq Aborts
  BY Between
<1>2. delivered' \in Seq(Case) /\ Len(delivered') <= NCases
  BY Numbers
<1> QED
  BY <1>1, <1>2, IdleIsLoose, Rests

LEMMA GetKeeps ==
  ASSUME IInv, Get
  PROVE  IInv'
BY Between, Loads, CommandKeeps DEF Get, May

LEMMA NewFileKeeps ==
  ASSUME IInv, cmd_new_file
  PROVE  IInv'
BY Between, Clears, SettledIsIdle, CommandKeeps DEF cmd_new_file, May

LEMMA TransformKeeps ==
  ASSUME IInv, NEW kind \in {"num", "select", "fail", "lag"},
         NEW n \in 0..MaxLag, kind = "lag" => n # 0, Transform(kind, n)
  PROVE  IInv'
<1> DEFINE new == {kind} \cap {"num", "lag"}
           named == [ds.dict EXCEPT !.vars = ds.dict.vars \cup new]
           unknown == ds.dict.unknown \/ new \ ds.dict.vars # {}
           dict == [named EXCEPT !.unknown = unknown]
           n_lag == IF kind = "lag" /\ n > ds.n_lag THEN n ELSE ds.n_lag
           t == Trns(kind, n)
           old == [ds EXCEPT !.dict.vars = @ \cup ({kind} \cap {"num", "lag"}),
                             !.dict.unknown = @ \/ ({kind} \cap {"num", "lag"}) \ ds.dict.vars # {},
                             !.n_lag = IF kind = "lag" /\ n > @ THEN n ELSE @]
<1>1. Idle(ds) /\ Shaped(ds)
  BY Between DEF Transform, MayWithData, May, Idle
<1>2. ds.dict \in Dict /\ ds.n_lag \in 0..MaxLag /\ DOMAIN ds = Fields
  BY <1>1 DEF Shaped
<1>3. dict \in Dict /\ dict.vars = ds.dict.vars \cup new
  <2>1. ds.dict.vars \cup new \in SUBSET Names /\ unknown \in BOOLEAN
    BY <1>2, DictIs DEF Dict, Names
  <2> HIDE DEF new, unknown
  <2>2. named \in Dict /\ named.vars = ds.dict.vars \cup new
    BY <1>2, <2>1, DictIs
  <2> HIDE DEF named
  <2> QED
    BY <2>1, <2>2 DEF Dict
<1>4. n_lag \in 0..MaxLag
  BY <1>2
<1>5. t \in Transformation /\ t.kind # "mg"
  <2>1. n \in Nat /\ kind \in Kinds
    BY DEF Kinds
  <2> QED
    BY <2>1, TrnsIs
<1>6. old = [ds EXCEPT !.dict = dict, !.n_lag = n_lag]
  <2>1. old = [[ds EXCEPT !.dict = [[ds.dict EXCEPT !.vars = ds.dict.vars \cup new]
                                       EXCEPT !.unknown = unknown]]
                 EXCEPT !.n_lag = n_lag]
    BY <1>2 DEF Fields, Dict
  <2> QED
    BY <2>1
<1> HIDE DEF dict, n_lag, t, new
<1>7. Idle(add_transformation([ds EXCEPT !.dict = dict, !.n_lag = n_lag], t))
  BY <1>1, <1>3, <1>4, <1>5, Transforms
<1>8. ds' = add_transformation(old, t)
  BY DEF Transform, t
<1> HIDE DEF old
<1>9. Idle(ds')
  BY <1>6, <1>7, <1>8
<1> QED
  BY <1>9, CommandKeeps DEF Transform, MayWithData, May


LEMMA TemporaryKeeps ==
  ASSUME IInv, cmd_temporary
  PROVE  IInv'
BY Between, GoesTemporary, CommandKeeps DEF cmd_temporary, MayWithData, May

LEMMA NOfCasesKeeps ==
  ASSUME IInv, NEW n \in Limits, cmd_n_of_cases(n)
  PROVE  IInv'
<1> DEFINE dict == [ds.dict EXCEPT !.limit = n]
<1>1. Idle(ds)
  BY Between DEF cmd_n_of_cases, MayWithData, May
<1>2. dict \in Dict /\ ds.dict.vars \subseteq dict.vars
  <2>1. ds.dict \in Dict
    BY <1>1, IdleIs
  <2> QED
    BY <2>1 DEF Dict
<1>3. ds' = [ds EXCEPT !.dict = dict]
  BY DEF cmd_n_of_cases
<1> HIDE DEF dict
<1>4. Idle(ds')
  BY <1>1, <1>2, <1>3, RedescribesIdle
<1> QED
  BY <1>4, CommandKeeps DEF cmd_n_of_cases, MayWithData, May

LEMMA FilterKeeps ==
  ASSUME IInv, NEW on \in BOOLEAN, cmd_filter(on)
  PROVE  IInv'
<1> DEFINE dict == [ds.dict EXCEPT !.filter = on]
<1>1. Idle(ds)
  BY Between DEF cmd_filter, MayWithData, May
<1>2. dict \in Dict /\ ds.dict.vars \subseteq dict.vars
  <2>1. ds.dict \in Dict
    BY <1>1, IdleIs
  <2> QED
    BY <2>1 DEF Dict
<1>3. ds' = [ds EXCEPT !.dict = dict]
  BY DEF cmd_filter
<1> HIDE DEF dict
<1>4. Idle(ds')
  BY <1>1, <1>2, <1>3, RedescribesIdle
<1> QED
  BY <1>4, CommandKeeps DEF cmd_filter, MayWithData, May

LEMMA BothEmpty ==
  ASSUME NEW p \in Seq(Transformation), NEW q \in Seq(Transformation), Len(p) + Len(q) = 0
  PROVE  p = <<>> /\ q = <<>>
<1>1. Len(p) \in Nat /\ Len(q) \in Nat
  OBVIOUS
<1>2. Len(p) = 0 /\ Len(q) = 0
  BY <1>1
<1> QED
  BY <1>2

LEMMA DeleteKeeps ==
  ASSUME IInv, NEW v \in {"num", "lag"}, cmd_delete_variables(v)
  PROVE  IInv'
<1>1. Idle(ds) /\ ds.source # NULL /\ ~ds.temporary /\ Pending = 0
  BY Between DEF cmd_delete_variables, MayWithData, May
<1>2. ds.permanent_trns_chain = <<>> /\ ds.temporary_trns_chain = <<>>
  <2>1. ds.permanent_trns_chain \in Seq(Transformation)
        /\ ds.temporary_trns_chain \in Seq(Transformation)
    BY <1>1 DEF Idle, Shaped
  <2>2. Len(ds.permanent_trns_chain) + Len(ds.temporary_trns_chain) = 0
    BY <1>1 DEF Pending
  <2> QED
    BY <2>1, <2>2, BothEmpty
<1>3. Settled(ds) /\ Sourced(ds)
  BY <1>1, <1>2 DEF Idle, Settled, Scoped
<1>4. Idle(dataset_delete_vars(ds, {v}))
  BY <1>3, Deletes, SettledIsIdle
<1> QED
  BY <1>4, CommandKeeps DEF cmd_delete_variables, MayWithData, May

LEMMA SortVariablesKeeps ==
  ASSUME IInv, cmd_sort_variables
  PROVE  IInv'
<1>1. Idle(ds) /\ ds.source # NULL /\ command = "none" /\ reading = "no" /\ aborts = {}
  BY Between DEF cmd_sort_variables, MayWithData, May
<1>2. Loose(ds') /\ (~ds.temporary => Idle(ds'))
  BY <1>1, Reorders DEF cmd_sort_variables
<1>3. aborts' \subseteq Aborts /\ (ds.temporary => Stuck')
  BY <1>1 DEF cmd_sort_variables, Aborts, Stuck
<1>4. delivered' \in Seq(Case) /\ Len(delivered') <= NCases
  <2>1. delivered' = <<>>
    BY DEF cmd_sort_variables
  <2> QED
    BY <2>1, Numbers
<1> QED
  BY <1>1, <1>2, <1>3, <1>4, Rests DEF cmd_sort_variables

LEMMA NoCases ==
  ASSUME NEW S
  PROVE  <<>> \in Seq(S) /\ Len(<<>>) <= 0
BY EmptySeq, LenProperties

LEMMA OpenKeeps ==
  ASSUME IInv, NEW name \in Procedures \cup {"sort variables"}, Open(name)
  PROVE  IInv'
<1>1. Idle(ds) /\ ds.source # NULL /\ aborts = {}
  BY Between DEF Open, MayWithData, May
<1>2. Started(name, ds')
  BY <1>1, Starts DEF Open
<1>3. delivered' = <<>> /\ command' = name /\ name # "none"
  BY DEF Open, Procedures
<1>4. InProcedure'
  <2>1. <<>> \in Seq([ds'.dict.vars -> Value]) /\ Len(<<>>) <= 0
    BY NoCases
  <2>2. Busy(ds') /\ ds'.cases_written = 0
        /\ (ds'.discard_output <=> name = "sort cases") /\ (name = "sort cases" => ~ds'.temporary)
    BY <1>2 DEF Started
  <2> QED
    BY <1>3, <2>1, <2>2 DEF InProcedure
<1>5. ds'.proc_state = "open" /\ aborts' \subseteq Aborts
  BY <1>1, <1>2 DEF Started, Open
<1> QED
  BY <1>3, <1>4, <1>5, Works

(* A procedure in progress.                                                *)
LEMMA During ==
  ASSUME IInv, Running
  PROVE  InProcedure /\ aborts = {} /\ (reading # "no" => ds.proc_state = "open")
BY DEF IInv, Running, Stuck

LEMMA ReadKeeps ==
  ASSUME IInv, Read \/ Destroy
  PROVE  IInv'
<1>1. InProcedure /\ ds.proc_state = "open" /\ command # "none" /\ aborts = {}
  BY During DEF Read, Destroy, Running
<1>2. UNCHANGED <<ds, command, delivered, aborts>>
  BY DEF Read, Destroy
<1>3. InProcedure'
  BY <1>1, <1>2 DEF InProcedure
<1> QED
  BY <1>1, <1>2, <1>3, Works

LEMMA ReadCaseKeeps ==
  ASSUME IInv, ReadCase
  PROVE  IInv'
<1> DEFINE r == proc_casereader_read(ds)
<1>1. /\ Busy(ds) /\ ds.proc_state = "open" /\ aborts = {} /\ command # "none" /\ InProcedure
      /\ ds.source.cases # <<>>
  BY During DEF ReadCase, Exhausted, InProcedure, Running
<1>2. /\ Busy(r.ds) /\ r.ds.proc_state = "open"
      /\ r.ds.dict = ds.dict /\ r.ds.temporary = ds.temporary
      /\ r.ds.discard_output = ds.discard_output
      /\ r.case \in [ds.dict.vars -> Value]
      /\ r.ds.cases_written \in {ds.cases_written, ds.cases_written + 1}
      /\ r.result = "continue" => r.ds.cases_written = ds.cases_written + 1
  BY <1>1, ReadsOne
<1>3. /\ ds' = r.ds /\ command' = command /\ aborts' \subseteq Aborts
      /\ delivered' = IF r.result = "continue" THEN Append(delivered, r.case) ELSE delivered
  BY <1>1 DEF ReadCase, Aborts
<1> HIDE DEF r
<1>4. delivered' \in Seq([ds.dict.vars -> Value]) /\ Len(delivered') <= r.ds.cases_written
  <2> DEFINE S == [ds.dict.vars -> Value]
  <2>1. /\ delivered \in Seq(S) /\ Len(delivered) <= ds.cases_written /\ r.case \in S
    BY <1>1, <1>2 DEF InProcedure
  <2>2. ds.cases_written \in Nat
    BY <1>1, Numbers DEF Busy
  <2> HIDE DEF S
  <2>3. Len(delivered) \in Nat
    BY <2>1
  <2>4. CASE r.result = "continue"
    <3>1. delivered' = Append(delivered, r.case) /\ r.ds.cases_written = ds.cases_written + 1
      BY <1>2, <1>3, <2>4
    <3>2. Append(delivered, r.case) \in Seq(S)
          /\ Len(Append(delivered, r.case)) = Len(delivered) + 1
      BY <2>1
    <3>3. Len(delivered) + 1 <= ds.cases_written + 1
      BY <2>1, <2>2, <2>3
    <3> QED
      BY <3>1, <3>2, <3>3 DEF S
  <2>5. CASE r.result # "continue"
    <3>1. delivered' = delivered
      BY <1>3, <2>5
    <3>2. Len(delivered) <= ds.cases_written + 1
      BY <2>1, <2>2, <2>3
    <3> QED
      BY <1>2, <2>1, <3>1, <3>2 DEF S
  <2> QED
    BY <2>4, <2>5
<1>5. InProcedure'
  BY <1>1, <1>2, <1>3, <1>4 DEF InProcedure
<1> QED
  BY <1>1, <1>2, <1>3, <1>5, Works

LEMMA FailedIs ==
  ASSUME IInv, Running, reading # "no"
  PROVE  /\ Busy(Failed) /\ Failed.proc_state = "open"
         /\ Failed.dict = ds.dict /\ Failed.temporary = ds.temporary
         /\ Failed.discard_output = ds.discard_output /\ Failed.cases_written = ds.cases_written
<1> DEFINE tainted == ds.source.tainted \/ (ds.ok /\ ds.source.fails)
           e == [ds EXCEPT !.source.tainted = tainted]
<1>1. Busy(ds) /\ ds.proc_state = "open"
  BY During DEF InProcedure
<1>2. tainted \in BOOLEAN
  BY <1>1 DEF Busy, Shaped, Source
<1>3. Failed = e
  BY <1>1 DEF Failed, Busy, Shaped, Fields, Source
<1> HIDE DEF tainted
<1>4. Busy(e) /\ e.proc_state = "open" /\ \A f \in Fields \ {"source"} : e[f] = ds[f]
  BY <1>1, <1>2, ReadsToTheEnd
<1> HIDE DEF e
<1> QED
  BY <1>3, <1>4 DEF Fields

LEMMA ReadEndKeeps ==
  ASSUME IInv, ReadEnd
  PROVE  IInv'
<1>1. InProcedure /\ command # "none" /\ aborts = {} /\ Running /\ reading # "no"
  BY During DEF ReadEnd, Running
<1>2. UNCHANGED <<command, delivered, aborts>> /\ ds' = Failed
  BY DEF ReadEnd
<1>3. InProcedure' /\ ds'.proc_state = "open"
  BY <1>1, <1>2, FailedIs DEF InProcedure
<1> QED
  BY <1>1, <1>2, <1>3, Works

LEMMA CloseKeeps ==
  ASSUME IInv, Close
  PROVE  IInv'
<1>1. InProcedure /\ command # "none" /\ aborts = {} /\ Running /\ reading # "no"
  BY During DEF Close, Running
<1>2. UNCHANGED <<command, delivered, aborts>> /\ ds' = proc_casereader_destroy(Failed)
      /\ reading' = "no"
  BY DEF Close
<1>3. /\ Busy(ds') /\ ds'.dict = ds.dict /\ ds'.temporary = ds.temporary
      /\ ds'.discard_output = ds.discard_output /\ ds'.cases_written = ds.cases_written
  BY <1>1, <1>2, FailedIs, Closes
<1>4. InProcedure'
  BY <1>1, <1>2, <1>3 DEF InProcedure
<1> QED
  BY <1>1, <1>2, <1>4, Works

LEMMA CommitKeeps ==
  ASSUME IInv, Commit
  PROVE  IInv'
<1> DEFINE c == proc_commit(ds)
           e == Finished(c)
<1>1. /\ InProcedure /\ Busy(ds) /\ ds.proc_state = "closed" /\ aborts = {} /\ reading = "no"
  BY During DEF Commit, InProcedure
<1>2. /\ Settled(c) /\ c.dict.vars = ds.permanent_dict.vars
      /\ IF ds.discard_output THEN c.source = NULL ELSE Sourced(c) /\ ~c.source.tainted
  BY <1>1, Commits
<1> HIDE DEF c
<1>3. Settled(e) /\ (e.source = NULL \/ Sourced(e))
  <2>1. CASE command = "sort cases"
    <3> DEFINE source == [cases |-> delivered, fails |-> FALSE, tainted |-> FALSE]
    <3>1. e = dataset_set_source(c, source)
      BY <2>1 DEF Finished
    <3>2. ds.permanent_dict.vars = ds.dict.vars /\ "x" \in ds.dict.vars
          /\ ds.dict.vars \in SUBSET Names
      BY <1>1, <2>1, DictIs DEF InProcedure, Busy, Shaped
    <3>3. delivered \in Seq([c.dict.vars -> Value])
      BY <1>1, <1>2, <3>2 DEF InProcedure
    <3>4. Len(delivered) <= NCases
      BY <1>1 DEF IInv, TypeOK
    <3>5. source \in Source /\ source.cases = delivered
      BY <1>1 DEF IInv, TypeOK, Source
    <3> HIDE DEF source, e
    <3> QED
      BY <1>2, <3>1, <3>2, <3>3, <3>4, <3>5, Supplies
  <2>2. CASE command = "rank"
    <3>1. e = dataset_delete_vars(c, {"order"})
      BY <2>2 DEF Finished
    <3>2. Sourced(c)
      BY <1>1, <1>2, <2>2 DEF InProcedure
    <3> HIDE DEF e
    <3> QED
      BY <1>2, <3>1, <3>2, Deletes
  <2>3. CASE command \notin {"sort cases", "rank"}
    BY <1>2, <2>3 DEF Finished
  <2> QED
    BY <2>1, <2>2, <2>3
<1> HIDE DEF e
<1>4. Idle(dataset_end_of_command(e))
  BY <1>3, EndsCommand
<1>5. ds' = dataset_end_of_command(e)
  BY DEF Commit, e, c
<1>6. /\ command' = "none" /\ reading' = "no" /\ aborts' \subseteq Aborts
      /\ delivered' \in Seq(Case) /\ Len(delivered') <= NCases
  BY <1>1 DEF Commit, IInv, TypeOK
<1> QED
  BY <1>4, <1>5, <1>6, IdleIsLoose, Rests


LEMMA StepIInv == IInv /\ [Next]_vars => IInv'
<1> SUFFICES ASSUME IInv, [Next]_vars PROVE IInv'
  OBVIOUS
<1>1. CASE Get
  BY <1>1, GetKeeps
<1>2. CASE cmd_new_file
  BY <1>2, NewFileKeeps
<1>3. CASE cmd_temporary
  BY <1>3, TemporaryKeeps
<1>4. CASE cmd_sort_variables
  BY <1>4, SortVariablesKeeps
<1>5. CASE \E kind \in {"num", "select", "fail"} : Transform(kind, 0)
  BY <1>5, LagArguments, TransformKeeps
<1>6. CASE \E n \in 1..MaxLag : Transform("lag", n)
  BY <1>6, LagArguments, TransformKeeps
<1>7. CASE \E n \in Limits : cmd_n_of_cases(n)
  BY <1>7, NOfCasesKeeps
<1>8. CASE \E on \in BOOLEAN : cmd_filter(on)
  BY <1>8, FilterKeeps
<1>9. CASE \E v \in {"num", "lag"} : cmd_delete_variables(v)
  BY <1>9, DeleteKeeps
<1>10. CASE \E name \in Procedures : Open(name)
  BY <1>10, OpenKeeps
<1>11. CASE Open("sort variables")
  BY <1>11, OpenKeeps
<1>12. CASE Read \/ Destroy
  BY <1>12, ReadKeeps
<1>13. CASE ReadCase
  BY <1>13, ReadCaseKeeps
<1>14. CASE ReadEnd
  BY <1>14, ReadEndKeeps
<1>15. CASE Close
  BY <1>15, CloseKeeps
<1>16. CASE Commit
  BY <1>16, CommitKeeps
<1>17. CASE UNCHANGED vars
  <2>1. /\ ds' = ds /\ command' = command /\ reading' = reading /\ delivered' = delivered
        /\ aborts' = aborts
    BY <1>17 DEF vars
  <2>2. TypeOK' /\ DictFitsData' /\ GuessSeesTheFile'
    BY <2>1 DEF IInv, TypeOK, DictFitsData, GuessSeesTheFile
  <2>3. (reading # "no" => ds.proc_state = "open")'
    BY <2>1 DEF IInv
  <2>4. Stuck' = Stuck /\ InProcedure' = InProcedure
    BY <2>1 DEF Stuck, InProcedure
  <2> QED
    BY <2>1, <2>2, <2>3, <2>4 DEF IInv
<1> QED
  BY <1>1, <1>2, <1>3, <1>4, <1>5, <1>6, <1>7, <1>8, <1>9, <1>10, <1>11, <1>12, <1>13, <1>14,
     <1>15, <1>16, <1>17 DEF Next

(* The invariant of whatever the session does.                             *)
THEOREM Invariant == Spec => []IInv
BY InitIInv, StepIInv, PTL DEF Spec

(* The fields of a dataset keep their types, and a procedure has a source  *)
(* for as long as it is open (struct dataset).                             *)
THEOREM TypeCorrect == Spec => []TypeOK
<1>1. IInv => TypeOK
  BY DEF IInv
<1> QED
  BY <1>1, Invariant, PTL

(* Whichever dictionary a commit or a cancellation leaves behind, it fits  *)
(* the cases left behind (proc_commit, proc_cancel_temporary_transformations). *)
THEOREM Fits == Spec => []DictFitsData
<1>1. IInv => DictFitsData
  BY DEF IInv
<1> QED
  BY <1>1, Invariant, PTL

(* A measurement level guess sees exactly the cases of the new active file *)
(* (add_ and cancel_measurement_level_trns).                               *)
THEOREM Guessed == Spec => []GuessSeesTheFile
<1>1. IInv => GuessSeesTheFile
  BY DEF IInv
<1> QED
  BY <1>1, Invariant, PTL


-----------------------------------------------------------------------------
(* Where a limit waits, and what does not move it.                         *)
LEMMA StaysQueued ==
  ASSUME NEW chain \in Seq(Transformation), NEW t \in Transformation, NEW n
  PROVE  /\ Queued(chain, n) => Queued(Append(chain, t), n)
         /\ Queued(Append(chain, Trns("limit", n)), n)
<1>1. ASSUME Queued(chain, n) PROVE Queued(Append(chain, t), n)
  <2>1. PICK i \in DOMAIN chain : chain[i] = Trns("limit", n)
    BY <1>1 DEF Queued
  <2>2. i \in 1 .. Len(chain) + 1 /\ Append(chain, t)[i] = chain[i]
        /\ DOMAIN Append(chain, t) = 1 .. Len(chain) + 1
    BY <2>1, Appends
  <2> QED
    BY <2>1, <2>2 DEF Queued
<1>2. Queued(Append(chain, Trns("limit", n)), n)
  <2> DEFINE u == Trns("limit", n)
  <2> HIDE DEF u
  <2>1. DOMAIN Append(chain, u) = 1 .. Len(chain) + 1 /\ Append(chain, u)[Len(chain) + 1] = u
        /\ Len(chain) \in Nat
    OBVIOUS
  <2>2. Len(chain) + 1 \in 1 .. Len(chain) + 1
    BY <2>1
  <2> QED
    BY <2>1, <2>2 DEF Queued, u
<1> QED
  BY <1>1, <1>2

LEMMA AddsBehindLimit ==
  ASSUME NEW d, DOMAIN d = Fields, d.permanent_trns_chain \in Seq(Transformation),
         NEW t \in Transformation, NEW n, Waits(d, n)
  PROVE  Waits(add_transformation(d, t), n)
<1> DEFINE p == d.permanent_trns_chain
           e == add_transformation(d, t)
<1>1. CASE d.temporary
  <2>1. e.permanent_trns_chain = p
    BY <1>1 DEF add_transformation, Fields
  <2> QED
    BY <1>1, <2>1 DEF Waits
<1>2. CASE ~d.temporary
  <2>1. e.permanent_trns_chain = Append(p, t) /\ e.dict = d.dict /\ e.temporary = d.temporary
    BY <1>2 DEF add_transformation, Fields
  <2>2. Queued(p, n) => Queued(Append(p, t), n)
    BY StaysQueued
  <2> QED
    BY <2>1, <2>2 DEF Waits
<1> QED
  BY <1>1, <1>2

LEMMA TemporaryQueues ==
  ASSUME NEW d, Wellformed(d), NEW n, n # 0, Waits(d, n)
  PROVE  Waits(proc_start_temporary_transformations(d), n)
<1> DEFINE e == proc_start_temporary_transformations(d)
           l == add_case_limit_trns(d)
           m == add_measurement_level_trns(l)
           p == d.permanent_trns_chain
<1>1. CASE d.temporary
  BY <1>1 DEF proc_start_temporary_transformations
<1>2. CASE ~d.temporary
  <2>1. Shaped(l) /\ Scoped(l) /\ ~l.temporary
    BY <1>2, Limited DEF Wellformed
  <2>2. Queued(l.permanent_trns_chain, n)
    <3>1. CASE d.dict.limit = 0
      BY <1>2, <3>1 DEF Waits, add_case_limit_trns
    <3>2. CASE d.dict.limit # 0
      <4>1. l.permanent_trns_chain = Append(p, Trns("limit", d.dict.limit))
        BY <1>2, <3>2 DEF add_case_limit_trns, add_transformation, Wellformed, Shaped, Fields
      <4>2. p \in Seq(Transformation) /\ d.dict.limit \in Nat
        BY DictIs, Numbers DEF Wellformed, Shaped
      <4>3. Trns("limit", d.dict.limit) \in Transformation
        BY <4>2, TrnsIs DEF Kinds
      <4>4. Queued(p, n) \/ d.dict.limit = n
        BY DEF Waits
      <4> QED
        BY <4>1, <4>2, <4>3, <4>4, StaysQueued
    <3> QED
      BY <3>1, <3>2
  <2> HIDE DEF l
  <2>3. Queued(m.permanent_trns_chain, n)
    <3>1. m.permanent_trns_chain
            = IF l.dict.unknown THEN Append(l.permanent_trns_chain, Trns("mg", 0))
              ELSE l.permanent_trns_chain
      BY <2>1 DEF add_measurement_level_trns, add_transformation, Shaped, Fields
    <3>2. Trns("mg", 0) \in Transformation /\ l.permanent_trns_chain \in Seq(Transformation)
      BY <2>1, TrnsIs DEF Kinds, Shaped
    <3> QED
      BY <2>2, <3>1, <3>2, StaysQueued
  <2>4. e = [m EXCEPT !.permanent_dict = l.dict, !.temporary = TRUE]
    BY <1>2 DEF proc_start_temporary_transformations, l
  <2>5. DOMAIN m = Fields
    BY <2>1, Guesses
  <2> HIDE DEF m, e
  <2>6. e.permanent_trns_chain = m.permanent_trns_chain
    BY <2>4, <2>5 DEF Fields
  <2>7. Waits(e, n)
    BY <2>3, <2>6 DEF Waits
  <2> QED
    BY <2>7 DEF e
<1> QED
  BY <1>1, <1>2


(* A limit that is not applied yet waits between two commands.             *)
AskedIdle == asked # 0 => command = "none"

LEMMA AskedIdleStep == AskedIdle /\ [Next]_vars => AskedIdle'
<1> SUFFICES ASSUME AskedIdle, [Next]_vars, asked' # 0
             PROVE  command' = "none"
  BY DEF AskedIdle
<1>1. asked' = 0 \/ (asked' = asked /\ command' \in {command, "none"}) \/ command' = "none"
  BY DEF Next, vars, Get, cmd_new_file, cmd_temporary, cmd_sort_variables, Transform,
     cmd_n_of_cases, cmd_filter, cmd_delete_variables, Open, Read, ReadCase, ReadEnd,
     Destroy, Close, Commit, MayWithData, May
<1> QED
  BY <1>1 DEF AskedIdle

LEMMA LimitStep ==
  IInv /\ AskedIdle /\ LimitWaits /\ [Next]_vars => LimitWaits' \/ cmd_sort_variables
<1> SUFFICES ASSUME IInv, AskedIdle, LimitWaits, [Next]_vars, asked' # 0,
                    ~ cmd_sort_variables
             PROVE  Waits(ds', asked')
  BY DEF LimitWaits
<1>1. CASE Get \/ cmd_new_file
  BY <1>1 DEF Get, cmd_new_file
<1>2. CASE cmd_temporary
  <2>1. Idle(ds) /\ command = "none"
    BY <1>2, Between DEF cmd_temporary, MayWithData, May
  <2>2. asked' = asked /\ command' = command /\ ds' = proc_start_temporary_transformations(ds)
    BY <1>2 DEF cmd_temporary
  <2>3. Wellformed(ds) /\ Waits(ds, asked)
    BY <2>1, <2>2, IdleIs DEF LimitWaits
  <2>4. Waits(proc_start_temporary_transformations(ds), asked)
    BY <2>2, <2>3, TemporaryQueues
  <2> QED
    BY <2>1, <2>2, <2>4
<1>3. CASE \E kind \in {"num", "select", "fail", "lag"}, n \in 0..MaxLag :
             (kind = "lag" => n # 0) /\ Transform(kind, n)
  <2>1. PICK kind \in {"num", "select", "fail", "lag"}, n \in 0..MaxLag :
          (kind = "lag" => n # 0) /\ Transform(kind, n)
    BY <1>3
  <2> DEFINE d == [ds EXCEPT !.dict.vars = @ \cup ({kind} \cap {"num", "lag"}),
                             !.dict.unknown = @ \/ ({kind} \cap {"num", "lag"}) \ ds.dict.vars # {},
                             !.n_lag = IF kind = "lag" /\ n > @ THEN n ELSE @]
             t == Trns(kind, n)
             e == add_transformation(d, t)
  <2>2. Idle(ds) /\ Shaped(ds)
    BY <2>1, Between DEF Transform, MayWithData, May, Idle
  <2>3. asked' = asked /\ command' = command /\ ds' = e
    BY <2>1 DEF Transform
  <2>4. Waits(ds, asked)
    BY <2>3 DEF LimitWaits
  <2>5. /\ d.permanent_trns_chain = ds.permanent_trns_chain /\ d.temporary = ds.temporary
        /\ d.dict.limit = ds.dict.limit /\ DOMAIN d = Fields
        /\ d.temporary_trns_chain = ds.temporary_trns_chain
    BY <2>2 DEF Shaped, Fields, Dict
  <2> HIDE DEF d
  <2>6. Waits(d, asked)
    BY <2>4, <2>5 DEF Waits
  <2>7. t \in Transformation
    <3>1. n \in Nat /\ kind \in Kinds /\ (kind = "lag" => n # 0)
      BY <2>1, LagArguments DEF Kinds
    <3> QED
      BY <3>1, TrnsIs
  <2>8. d.permanent_trns_chain \in Seq(Transformation)
    BY <2>2, <2>5 DEF Shaped
  <2> HIDE DEF t
  <2>9. Waits(e, asked)
    BY <2>5, <2>6, <2>7, <2>8, AddsBehindLimit
  <2> QED
    BY <2>3, <2>4, <2>9
<1>4. CASE \E n \in Limits : cmd_n_of_cases(n)
  <2>1. PICK n \in Limits : cmd_n_of_cases(n)
    BY <1>4
  <2>2. Idle(ds) /\ Shaped(ds) /\ command = "none"
    BY <2>1, Between DEF cmd_n_of_cases, MayWithData, May, Idle
  <2>3. ds' = [ds EXCEPT !.dict.limit = n] /\ asked' = (IF ds.temporary THEN asked ELSE n)
        /\ command' = command
    BY <2>1 DEF cmd_n_of_cases
  <2>4. ds'.dict.limit = n /\ ds'.temporary = ds.temporary
        /\ ds'.permanent_trns_chain = ds.permanent_trns_chain
    BY <2>2, <2>3 DEF Shaped, Fields, Dict
  <2>5. CASE ds.temporary
    BY <2>2, <2>3, <2>4, <2>5 DEF LimitWaits, Waits
  <2>6. CASE ~ds.temporary
    BY <2>2, <2>3, <2>4, <2>6 DEF Waits
  <2> QED
    BY <2>5, <2>6
<1>5. CASE \E on \in BOOLEAN : cmd_filter(on)
  <2>1. PICK on \in BOOLEAN : cmd_filter(on)
    BY <1>5
  <2>2. Idle(ds) /\ Shaped(ds) /\ command = "none"
    BY <2>1, Between DEF cmd_filter, MayWithData, May, Idle
  <2>3. ds' = [ds EXCEPT !.dict.filter = on] /\ asked' = asked /\ command' = command
    BY <2>1 DEF cmd_filter
  <2>4. ds'.dict.limit = ds.dict.limit /\ ds'.temporary = ds.temporary
        /\ ds'.permanent_trns_chain = ds.permanent_trns_chain
    BY <2>2, <2>3 DEF Shaped, Fields, Dict
  <2> QED
    BY <2>2, <2>3, <2>4 DEF LimitWaits, Waits
<1>6. CASE \E v \in {"num", "lag"} : cmd_delete_variables(v)
  <2>1. PICK v \in {"num", "lag"} : cmd_delete_variables(v)
    BY <1>6
  <2>2. Idle(ds) /\ Shaped(ds) /\ command = "none"
    BY <2>1, Between DEF cmd_delete_variables, MayWithData, May, Idle
  <2>3. ds' = dataset_delete_vars(ds, {v}) /\ asked' = asked /\ command' = command
    BY <2>1 DEF cmd_delete_variables
  <2>4. ds'.dict.limit = ds.dict.limit /\ ds'.temporary = ds.temporary
        /\ ds'.permanent_trns_chain = ds.permanent_trns_chain
    BY <2>2, <2>3 DEF dataset_delete_vars, caseinit_translate_casereader_to_init_vars,
                      Shaped, Fields, Dict
  <2> QED
    BY <2>2, <2>3, <2>4 DEF LimitWaits, Waits
<1>7. CASE \E name \in Procedures \cup {"sort variables"} : Open(name)
  BY <1>7 DEF Open
<1>9. CASE Read \/ ReadCase \/ ReadEnd \/ Destroy \/ Close \/ Commit
  BY <1>9 DEF Read, ReadCase, ReadEnd, Destroy, Close, Commit, Running, AskedIdle
<1>10. CASE UNCHANGED vars
  BY <1>10 DEF vars, LimitWaits, Waits, Queued
<1>11. ASSUME \E kind \in {"num", "select", "fail"} : Transform(kind, 0)
       PROVE  Waits(ds', asked')
  BY <1>3, <1>11, LagArguments
<1>12. ASSUME \E n \in 1..MaxLag : Transform("lag", n)
       PROVE  Waits(ds', asked')
  BY <1>3, <1>12, LagArguments
<1> QED
  BY <1>1, <1>2, <1>4, <1>5, <1>6, <1>7, <1>9, <1>10, <1>11, <1>12 DEF Next

(* Until a procedure applies it, a limit is in the dictionary or queued,   *)
(* unless SORT VARIABLES discards it (add_case_limit_trns, proc_execute).  *)
THEOREM Remembered == Spec => LimitKept
<1>1. Init => AskedIdle
  BY DEF Init, AskedIdle
<1>2. IInv /\ AskedIdle /\ [Next]_vars
        => [LimitWaits => LimitWaits' \/ cmd_sort_variables]_vars
  BY LimitStep
<1> QED
  BY <1>1, <1>2, AskedIdleStep, Invariant, PTL DEF Spec, LimitKept
=============================================================================
