----------------------------- MODULE SortProofs -----------------------------
(***************************************************************************)
(* The sort is right whatever the number of cases, the size of memory and  *)
(* the order of the merges: the reader holds the cases written, in order   *)
(* of their keys, equal keys in order of arrival.                          *)
(*                                                                         *)
(* That every run is sorted does not follow from itself.  A run stays      *)
(* sorted because what is in the heap for it is after its last case, and   *)
(* what missed it is before (Queued).  A merge is stable because of two    *)
(* cases with equal keys, the earlier one is always in the earlier run     *)
(* (Stable), which is where replacement selection needs that a case        *)
(* misses its run only for a smaller key.                                  *)
(***************************************************************************)
EXTENDS MCSortWriter, FiniteSetTheorems, SequenceTheorems, TLAPS

Prior(a, b) == a.key = b.key => a.seq < b.seq

Control ==
  /\ sink # NULL <=> pc = "merging"
  /\ result # NULL <=> pc = "done"
  /\ outgoing # NULL => pc \in {"emit", "merge", "merging"}
  /\ pc = "emit" => outgoing # NULL
  /\ incoming # NULL => pc \in {"output", "merge", "merging", "emit", "push"}
  /\ pc = "push" => incoming # NULL
  /\ pc \in {"open", "push", "output"} /\ run = NULL => run_id = 0 /\ run_end = NULL
  /\ pc = "output" /\ incoming = NULL => run # NULL
  /\ pc \in {"merge", "merging", "result", "done"} /\ outgoing = NULL =>
       incoming = NULL /\ run = NULL /\ pqueue = {}
  /\ pc = "done" => inputs = <<>>

Numbered ==
  /\ \A i \in DOMAIN written : written[i].seq = i
  /\ idx = IF incoming = NULL THEN Len(written) ELSE Len(written) - 1
  /\ incoming # NULL => incoming.seq = Len(written)
  /\ \A r \in pqueue : r.c.seq = r.idx + 1 /\ r.idx < idx
  /\ outgoing # NULL => outgoing.c.seq = outgoing.idx + 1 /\ outgoing.idx < idx
  /\ \A a \in InInputs \cup InSink \cup InRun : a.seq <= idx
  /\ run_end # NULL => run_end.seq <= idx

(* A record r is for the run being written or for the one after it.        *)
Placed(r) ==
  /\ r.id \in {run_id, run_id + 1}
  /\ run_end = NULL => r.id = 1
  /\ run_end # NULL /\ r.id = run_id => Before(run_end, r.c)
  /\ run_end # NULL /\ r.id = run_id + 1 => r.c.key < run_end.key

Queued ==
  /\ \A r \in pqueue : Placed(r)
  /\ outgoing # NULL =>
       /\ Placed(outgoing)
       /\ \A r \in pqueue : Precedes(outgoing, r)
       /\ outgoing.id = IF run = NULL THEN run_id + 1 ELSE run_id
  /\ run # NULL /\ run # <<>> => run_end = run[Len(run)]
  /\ run = <<>> =>
       run_end = NULL /\ run_id = 1 /\ incoming = NULL /\ pc \in {"output", "emit"}
  /\ run_end = NULL =>
       \/ inputs = <<>> /\ pc \in {"open", "push", "output", "emit"}
            /\ (run = <<>> \/ (run = NULL /\ run_id = 0))
       \/ pc = "result" /\ Len(inputs) = 1
       \/ pc = "done"

Filled ==
  /\ (\A i \in DOMAIN inputs : inputs[i] # <<>>) \/ (pc = "result" /\ Len(inputs) = 1)
  /\ pc = "merge" => Len(inputs) > 1
  /\ pc = "merging" => inputs # <<>> \/ sink # <<>>

Stable ==
  /\ \A i, j \in DOMAIN inputs : i < j =>
       \A a \in CasesOf(inputs[i]), b \in CasesOf(inputs[j]) : Prior(a, b)
  /\ \A a \in InInputs \cup InSink, b \in InRun \cup InHeap \cup InHand : Prior(a, b)
  /\ \A a \in InRun, b \in InHeap \cup InHand : Prior(a, b)
  /\ \A a \in InSink, b \in InInputs : Before(a, b)

IInv ==
  /\ TypeOK /\ Control /\ Numbered /\ Queued /\ Filled /\ Stable
  /\ RunsOrdered /\ NothingLost
-----------------------------------------------------------------------------
(* About sequences of cases.                                               *)
LEMMA AppendFacts ==
  ASSUME NEW s \in Seq(Case), NEW c \in Case
  PROVE  /\ Append(s, c) \in Seq(Case)
         /\ CasesOf(Append(s, c)) = CasesOf(s) \cup {c}
         /\ Append(s, c) # <<>>
         /\ Len(Append(s, c)) = Len(s) + 1
         /\ Append(s, c)[Len(s) + 1] = c
<1>1. DOMAIN Append(s, c) = 1 .. Len(s) + 1 /\ DOMAIN s = 1 .. Len(s)
  OBVIOUS
<1>2. \A i \in 1 .. Len(s) : Append(s, c)[i] = s[i]
  OBVIOUS
<1>3. Append(s, c)[Len(s) + 1] = c
  OBVIOUS
<1> QED BY <1>1, <1>2, <1>3 DEF CasesOf

LEMMA AppendOrdered ==
  ASSUME NEW s \in Seq(Case), NEW c \in Case, Ordered(s),
         \A a \in CasesOf(s) : Before(a, c)
  PROVE  Ordered(Append(s, c))
<1>1. DOMAIN Append(s, c) = 1 .. Len(s) + 1 /\ DOMAIN s = 1 .. Len(s)
  OBVIOUS
<1>2. \A i \in 1 .. Len(s) : Append(s, c)[i] = s[i] /\ s[i] \in CasesOf(s)
  BY <1>1 DEF CasesOf
<1>3. Append(s, c)[Len(s) + 1] = c
  OBVIOUS
<1> QED BY <1>1, <1>2, <1>3 DEF Ordered

LEMMA HeadFacts ==
  ASSUME NEW s \in Seq(Case), s # <<>>
  PROVE  /\ Head(s) \in Case /\ Tail(s) \in Seq(Case)
         /\ CasesOf(s) = {Head(s)} \cup CasesOf(Tail(s))
         /\ Len(s) > 1 => Tail(s) # <<>>
         /\ Len(s) <= 1 => CasesOf(s) = {Head(s)}
<1>1. Len(s) \in Nat \ {0} /\ DOMAIN s = 1 .. Len(s) /\ s[1] = Head(s)
  OBVIOUS
<1>2. /\ Tail(s) \in Seq(Case) /\ Len(Tail(s)) = Len(s) - 1
      /\ DOMAIN Tail(s) = 1 .. Len(s) - 1
      /\ \A i \in 1 .. Len(s) - 1 : Tail(s)[i] = s[i + 1]
  OBVIOUS
<1>3. ASSUME NEW a \in CasesOf(s), a # Head(s)
      PROVE  a \in CasesOf(Tail(s))
  <2>1. PICK i \in 1 .. Len(s) : a = s[i]
    BY <1>1 DEF CasesOf
  <2>2. i # 1 /\ i - 1 \in 1 .. Len(s) - 1 /\ a = Tail(s)[i - 1]
    BY <1>1, <1>2, <1>3, <2>1
  <2> QED BY <1>2, <2>2 DEF CasesOf
<1>4. CasesOf(Tail(s)) \subseteq CasesOf(s) /\ Head(s) \in CasesOf(s)
  BY <1>1, <1>2 DEF CasesOf
<1>5. Len(s) > 1 => Tail(s) # <<>>
  <2>1. ASSUME NEW t \in Seq(Case), t = <<>> PROVE Len(t) = 0
    BY <2>1
  <2>2. ASSUME Tail(s) = <<>> PROVE Len(s) - 1 = 0
    BY <1>2, <2>1, <2>2
  <2>3. ASSUME NEW n \in Nat, n > 1 PROVE n - 1 # 0
    BY <2>3
  <2>4. Len(s) > 1 => Len(s) - 1 # 0
    BY <1>1, <2>3
  <2> QED BY <2>2, <2>4
<1>6. Len(s) <= 1 => CasesOf(s) = {Head(s)}
  BY <1>1 DEF CasesOf
<1>7. Head(s) \in Case
  BY <1>1
<1> QED BY <1>2, <1>3, <1>4, <1>5, <1>6, <1>7

LEMMA TailOrdered ==
  ASSUME NEW s \in Seq(Case), s # <<>>, Ordered(s)
  PROVE  Ordered(Tail(s)) /\ \A b \in CasesOf(Tail(s)) : Before(Head(s), b)
<1>1. /\ DOMAIN s = 1 .. Len(s) /\ s[1] = Head(s) /\ Len(s) \in Nat \ {0}
      /\ DOMAIN Tail(s) = 1 .. Len(s) - 1
      /\ \A i \in 1 .. Len(s) - 1 : Tail(s)[i] = s[i + 1]
  OBVIOUS
<1>2. Ordered(Tail(s))
  BY <1>1 DEF Ordered
<1>3. \A i \in 1 .. Len(s) - 1 : Before(Head(s), s[i + 1])
  BY <1>1 DEF Ordered
<1> QED BY <1>1, <1>2, <1>3 DEF CasesOf

LEMMA BeforeTransitive ==
  ASSUME NEW a \in Case, NEW b \in Case, NEW c \in Case, Before(a, b), Before(b, c)
  PROVE  Before(a, c)
<1>1. {a.key, b.key, c.key} \subseteq Int /\ {a.seq, b.seq, c.seq} \subseteq Nat
  BY SortAssumption DEF Case
<1> QED BY <1>1 DEF Before

(* The last case of a sorted sequence is after all the others.             *)
LEMMA LastIsLast ==
  ASSUME NEW s \in Seq(Case), s # <<>>, Ordered(s), NEW c \in Case,
         Before(s[Len(s)], c)
  PROVE  \A a \in CasesOf(s) : Before(a, c)
<1>1. DOMAIN s = 1 .. Len(s) /\ Len(s) \in Nat \ {0}
  OBVIOUS
<1>2. \A i \in 1 .. Len(s) : s[i] \in Case
  OBVIOUS
<1>3. \A i \in 1 .. Len(s) : i < Len(s) => Before(s[i], s[Len(s)])
  BY <1>1 DEF Ordered
<1>4. ASSUME NEW i \in 1 .. Len(s) PROVE Before(s[i], c)
  <2>1. ASSUME NEW n \in Nat, NEW k \in 1 .. n PROVE k < n \/ k = n
    OBVIOUS
  <2>3. i < Len(s) \/ i = Len(s)
    BY <1>1, <2>1
  <2>2. s[i] \in Case /\ s[Len(s)] \in Case
    BY <1>1, <1>2
  <2> QED BY <1>3, <2>2, <2>3, BeforeTransitive
<1> QED BY <1>1, <1>4 DEF CasesOf

LEMMA CasesTyped ==
  ASSUME NEW s \in Seq(Case)
  PROVE  CasesOf(s) \subseteq Case
BY DEF CasesOf

LEMMA NullFacts ==
  /\ \A c \in Case : c # NULL
  /\ \A r \in Record : r # NULL
  /\ \A s \in Seq(Case) : s # NULL
  /\ <<>> # NULL
<1>1. <<>> \in Seq(Case)
  OBVIOUS
<1> QED BY <1>1, NullAssumption

-----------------------------------------------------------------------------
(* What an unfinished merge and an open writer look like.                  *)
LEMMA QuietFacts ==
  ASSUME IInv, pc \in {"open", "push"}
  PROVE  /\ sink = NULL /\ outgoing = NULL /\ result = NULL /\ run # <<>>
         /\ run_end = NULL => run = NULL /\ run_id = 0 /\ inputs = <<>>
         /\ \A i \in DOMAIN inputs : inputs[i] # <<>>
<1>1. sink = NULL /\ outgoing = NULL /\ result = NULL
  BY DEF IInv, Control
<1>2. run # <<>>
  BY DEF IInv, Queued
<1>3. run_end = NULL => run = NULL /\ run_id = 0 /\ inputs = <<>>
  BY <1>2 DEF IInv, Queued
<1>4. \A i \in DOMAIN inputs : inputs[i] # <<>>
  BY DEF IInv, Filled
<1> QED BY <1>1, <1>2, <1>3, <1>4

(* A case pushed on the heap is for the run that it fits.                  *)
LEMMA PushFacts ==
  ASSUME IInv, pc \in {"open", "push"}, NEW c \in Case, c.seq = idx + 1,
         pqueue_push(c), UNCHANGED runs
  PROVE  /\ pqueue' \subseteq Record /\ idx' = idx + 1 /\ idx \in Nat
         /\ UNCHANGED max_records
         /\ InHeap' = InHeap \cup {c}
         /\ \A r \in pqueue' : Placed(r)' /\ r.c.seq = r.idx + 1 /\ r.idx < idx'
<1> DEFINE p == [id |-> IF next_run(c) THEN run_id + 1 ELSE run_id, c |-> c, idx |-> idx]
<1>1. /\ pqueue \subseteq Record /\ idx \in Nat /\ run_id \in Nat
      /\ run_end \in Case \cup {NULL}
  BY DEF IInv, TypeOK
<1>2. pqueue' = pqueue \cup {p} /\ idx' = idx + 1 /\ UNCHANGED max_records
  BY DEF pqueue_push
<1>3. p \in Record /\ p.c = c /\ p.idx = idx
  BY <1>1 DEF Record
<1>4. \A r \in pqueue : r.c.seq = r.idx + 1 /\ r.idx < idx /\ r.idx \in Nat
  BY <1>1 DEF IInv, Numbered, Record
<1>5. Placed(p)
  <2>1. CASE run_end = NULL
    <3>1. run_id = 0 /\ p.id = 1
      BY <2>1, QuietFacts DEF next_run
    <3> QED BY <2>1, <3>1 DEF Placed
  <2>2. CASE run_end # NULL
    <3>1. run_end \in Case /\ run_end.seq <= idx
      BY <1>1, <2>2 DEF IInv, Numbered
    <3>2. run_end.key \in Int /\ c.key \in Int /\ run_end.seq \in Nat
      BY <3>1, SortAssumption DEF Case
    <3>3. CASE c.key < run_end.key
      <4>1. p.id = run_id + 1
        BY <2>2, <3>3 DEF next_run
      <4> QED BY <1>1, <1>3, <2>2, <3>3, <4>1 DEF Placed
    <3>4. CASE ~ (c.key < run_end.key)
      <4>1. p.id = run_id
        BY <2>2, <3>4 DEF next_run
      <4>2. Before(run_end, c)
        BY <1>1, <3>1, <3>2, <3>4 DEF Before
      <4> QED BY <1>1, <1>3, <2>2, <4>1, <4>2 DEF Placed
    <3> QED BY <3>3, <3>4
  <2> QED BY <2>1, <2>2
<1>6. \A r : Placed(r)' <=> Placed(r)
  BY DEF Placed, runs
<1>7. \A r \in pqueue : Placed(r)
  BY DEF IInv, Queued
<1>8. InHeap' = InHeap \cup {c}
  BY <1>2, <1>3 DEF InHeap
<1>9. \A r \in pqueue' : r.c.seq = r.idx + 1 /\ r.idx < idx'
  BY <1>1, <1>2, <1>3, <1>4
<1> HIDE DEF p
<1> QED BY <1>1, <1>2, <1>3, <1>5, <1>6, <1>7, <1>8, <1>9

LEMMA RunCases ==
  ASSUME IInv
  PROVE  \A a \in InInputs \cup InSink \cup InRun :
           a \in Case /\ a.seq \in Nat /\ a.key \in Int /\ a.seq <= idx
<1>1. \A a \in InInputs \cup InSink \cup InRun : a \in Case /\ a.seq <= idx
  BY CasesTyped DEF IInv, TypeOK, Numbered, InInputs, InSink, InRun
<1>2. \A a \in Case : a.seq \in Nat /\ a.key \in Int
  BY SortAssumption DEF Case
<1> QED BY <1>1, <1>2

(* A case that arrives is later than all those before it.                  *)
LEMMA LateFacts ==
  ASSUME IInv, NEW c \in Case, c.seq = idx + 1
  PROVE  \A a \in InInputs \cup InSink \cup InRun : Prior(a, c)
<1>1. idx \in Nat
  BY DEF IInv, TypeOK
<1>2. \A a \in InInputs \cup InSink \cup InRun : a.seq < c.seq
  BY <1>1, RunCases
<1> QED BY <1>2 DEF Prior

LEMMA PushStep ==
  ASSUME IInv, Push
  PROVE  IInv'
<1> USE DEF Push
<1>1. incoming \in Case /\ incoming.seq = idx + 1 /\ Len(written) \in Nat
      /\ idx = Len(written) - 1
  BY DEF IInv, TypeOK, Control, Numbered
<1>2. UNCHANGED <<runs, merge, written, outgoing, result>>
  OBVIOUS
<1>3. /\ pqueue' \subseteq Record /\ idx' = idx + 1 /\ idx \in Nat
      /\ UNCHANGED max_records
      /\ InHeap' = InHeap \cup {incoming}
      /\ \A r \in pqueue' : Placed(r)' /\ r.c.seq = r.idx + 1 /\ r.idx < idx'
  BY <1>1, <1>2, PushFacts
<1>4. /\ sink = NULL /\ outgoing = NULL /\ result = NULL /\ run # <<>>
      /\ run_end = NULL => run = NULL /\ run_id = 0 /\ inputs = <<>>
      /\ \A i \in DOMAIN inputs : inputs[i] # <<>>
  BY QuietFacts
<1>5. /\ InInputs' = InInputs /\ InSink' = InSink /\ InRun' = InRun
      /\ InResult' = InResult /\ InHand = {incoming} /\ InHand' = {}
  BY <1>1, <1>4, NullFacts
     DEF InInputs, InSink, InRun, InResult, InHand, runs, merge
<1>6. TypeOK'
  BY <1>3 DEF IInv, TypeOK, runs, merge
<1>7. Control'
  BY <1>4 DEF IInv, Control, runs, merge
<1>8. Numbered'
  <2>1. \A a \in InInputs' \cup InSink' \cup InRun' : a.seq <= idx'
    <3>1. \A a \in InInputs \cup InSink \cup InRun :
            a.seq \in Nat /\ a.seq <= idx
      BY RunCases
    <3> QED BY <1>3, <1>5, <3>1
  <2>2. run_end' # NULL => run_end'.seq <= idx'
    BY <1>3 DEF IInv, TypeOK, Numbered, Case, runs
  <2>3. \A i \in DOMAIN written' : written'[i].seq = i
    BY DEF IInv, Numbered
  <2>4. idx' = Len(written')
    BY <1>1, <1>3
  <2> QED BY <1>3, <1>4, <2>1, <2>2, <2>3, <2>4 DEF Numbered
<1>9. Queued'
  <2>1. run' # NULL /\ run' # <<>> => run_end' = run'[Len(run')]
    BY DEF IInv, Queued, runs
  <2> QED BY <1>3, <1>4, <2>1 DEF Queued, runs, merge
<1>10. Filled'
  BY <1>4 DEF Filled, merge
<1>11. Stable'
  BY <1>3, <1>5 DEF IInv, Stable, merge
<1>12. RunsOrdered'
  BY DEF IInv, RunsOrdered, runs, merge
<1>13. NothingLost'
  BY <1>3, <1>5 DEF IInv, NothingLost
<1> QED BY <1>6, <1>7, <1>8, <1>9, <1>10, <1>11, <1>12, <1>13 DEF IInv

LEMMA WriteStep ==
  ASSUME IInv, NEW key \in Keys, Write(key)
  PROVE  IInv'
<1> DEFINE c == [key |-> key, seq |-> Len(written) + 1]
<1>1. /\ pc = "open" /\ written' = Append(written, c)
      /\ UNCHANGED <<runs, merge, outgoing, result>>
  BY DEF Write
<1>2. incoming = NULL /\ idx = Len(written) /\ Len(written) \in Nat
  BY <1>1 DEF IInv, TypeOK, Control, Numbered
<1>3. c \in Case /\ c.seq = idx + 1
  BY <1>2 DEF Case
<1> HIDE DEF c
<1>4. /\ sink = NULL /\ outgoing = NULL /\ result = NULL /\ run # <<>>
      /\ run_end = NULL => run = NULL /\ run_id = 0 /\ inputs = <<>>
      /\ \A i \in DOMAIN inputs : inputs[i] # <<>>
  BY <1>1, QuietFacts
<1>5. /\ InInputs' = InInputs /\ InSink' = InSink /\ InRun' = InRun
      /\ InResult' = InResult /\ InHand = {}
  BY <1>1, <1>2, <1>4 DEF InInputs, InSink, InRun, InResult, InHand, runs, merge
<1>6. /\ written' \in Seq(Case) /\ CasesOf(written') = CasesOf(written) \cup {c}
      /\ Len(written') = Len(written) + 1
      /\ \A i \in DOMAIN written' : written'[i].seq = i
  <2>1. written \in Seq(Case) /\ \A i \in DOMAIN written : written[i].seq = i
    BY DEF IInv, TypeOK, Numbered
  <2>2. \A i \in DOMAIN Append(written, c) : Append(written, c)[i].seq = i
    BY <1>2, <1>3, <2>1
  <2> QED BY <1>1, <1>3, <2>1, <2>2, AppendFacts
<1>7. \A a \in InInputs \cup InSink \cup InRun : Prior(a, c)
  BY <1>3, LateFacts
<1>8. \A a \in InInputs \cup InSink \cup InRun :
        a.seq \in Nat /\ a.seq <= idx
  BY RunCases
<1>9. RunsOrdered'
  BY <1>1 DEF IInv, RunsOrdered, runs, merge
<1>10. Filled'
  BY <1>1, <1>4, Zenon DEF Filled, merge, Write
<1>a. CASE /\ incoming' = c /\ pc' = "output" /\ UNCHANGED heap
  <2>1. InHeap' = InHeap /\ InHand' = {c}
    BY <1>1, <1>3, <1>4, <1>a, NullFacts DEF InHeap, InHand, heap
  <2>2. TypeOK'
    BY <1>1, <1>3, <1>6, <1>a DEF IInv, TypeOK, heap, runs, merge
  <2>3. Control'
    BY <1>1, <1>3, <1>4, <1>a, NullFacts DEF IInv, Control, heap, runs, merge
  <2>4. Numbered'
    BY <1>1, <1>2, <1>3, <1>4, <1>5, <1>6, <1>a, NullFacts DEF IInv, Numbered, heap, runs
  <2>5. Queued'
    BY <1>1, <1>4, <1>a DEF IInv, Queued, Placed, heap, runs, merge
  <2>6. Stable'
    BY <1>1, <1>5, <1>7, <2>1 DEF IInv, Stable, merge
  <2>7. NothingLost'
    BY <1>5, <1>6, <2>1 DEF IInv, NothingLost
  <2> QED BY <1>9, <1>10, <1>a, <2>2, <2>3, <2>4, <2>5, <2>6, <2>7 DEF IInv
<1>b. CASE /\ pqueue_push(c) /\ UNCHANGED <<incoming, pc>>
  <2>1. /\ pqueue' \subseteq Record /\ idx' = idx + 1 /\ idx \in Nat
        /\ UNCHANGED max_records
        /\ InHeap' = InHeap \cup {c}
        /\ \A r \in pqueue' : Placed(r)' /\ r.c.seq = r.idx + 1 /\ r.idx < idx'
    BY <1>1, <1>3, <1>b, PushFacts
  <2>2. InHand' = {}
    BY <1>1, <1>2, <1>4, <1>b DEF InHand
  <2>3. TypeOK'
    BY <1>1, <1>6, <1>b, <2>1 DEF IInv, TypeOK, runs, merge
  <2>4. Control'
    BY <1>1, <1>2, <1>4, <1>b DEF IInv, Control, runs, merge
  <2>5. Numbered'
    <3>1. \A a \in InInputs' \cup InSink' \cup InRun' : a.seq <= idx'
      BY <1>5, <1>8, <2>1
    <3>2. run_end' # NULL => run_end'.seq <= idx'
      BY <1>1, <2>1 DEF IInv, TypeOK, Numbered, Case, runs
    <3> QED BY <1>1, <1>2, <1>4, <1>6, <1>b, <2>1, <3>1, <3>2 DEF Numbered
  <2>6. Queued'
    <3>1. run' # NULL /\ run' # <<>> => run_end' = run'[Len(run')]
      BY <1>1 DEF IInv, Queued, runs
    <3> QED BY <1>1, <1>4, <1>b, <2>1, <3>1 DEF Queued, runs, merge
  <2>7. Stable'
    BY <1>1, <1>5, <1>7, <2>1, <2>2 DEF IInv, Stable, merge
  <2>8. NothingLost'
    BY <1>5, <1>6, <2>1, <2>2 DEF IInv, NothingLost
  <2> QED BY <1>9, <1>10, <1>b, <2>3, <2>4, <2>5, <2>6, <2>7, <2>8 DEF IInv
<1> QED BY <1>a, <1>b DEF Write, c

-----------------------------------------------------------------------------
LEMMA OrderTyped ==
  MAX_MERGE_ORDER \in Nat /\ MAX_MERGE_ORDER > 1
BY SortAssumption

LEMMA AppendRun ==
  ASSUME IInv, run # NULL, inputs' = Append(inputs, run), run' = NULL
  PROVE  /\ run \in Seq(Case) /\ inputs' \in Seq(Seq(Case))
         /\ Len(inputs') = Len(inputs) + 1 /\ Len(inputs) \in Nat
         /\ DOMAIN inputs' = 1 .. Len(inputs) + 1 /\ DOMAIN inputs = 1 .. Len(inputs)
         /\ \A i \in DOMAIN inputs : inputs'[i] = inputs[i]
         /\ inputs'[Len(inputs) + 1] = run
         /\ InInputs' = InInputs \cup InRun /\ InRun' = {}
         /\ \A i \in DOMAIN inputs' : Ordered(inputs'[i])
         /\ \A i, j \in DOMAIN inputs' : i < j =>
              \A a \in CasesOf(inputs'[i]), b \in CasesOf(inputs'[j]) : Prior(a, b)
<1>1. run \in Seq(Case) /\ inputs \in Seq(Seq(Case))
  BY DEF IInv, TypeOK
<1>2. /\ inputs' \in Seq(Seq(Case))
      /\ Len(inputs') = Len(inputs) + 1 /\ Len(inputs) \in Nat
      /\ DOMAIN inputs' = 1 .. Len(inputs) + 1 /\ DOMAIN inputs = 1 .. Len(inputs)
      /\ \A i \in DOMAIN inputs : inputs'[i] = inputs[i]
      /\ inputs'[Len(inputs) + 1] = run
  BY <1>1
<1>3. InInputs' = InInputs \cup InRun
  BY <1>2 DEF InInputs, InRun
<1>4. \A i \in DOMAIN inputs' : Ordered(inputs'[i])
  BY <1>2 DEF IInv, RunsOrdered
<1>5. ASSUME NEW i \in DOMAIN inputs', NEW j \in DOMAIN inputs', i < j,
             NEW a \in CasesOf(inputs'[i]), NEW b \in CasesOf(inputs'[j])
      PROVE  Prior(a, b)
  <2>1. i \in DOMAIN inputs /\ a \in CasesOf(inputs[i]) /\ a \in InInputs
    BY <1>2, <1>5 DEF InInputs
  <2>2. CASE j = Len(inputs) + 1
    <3>1. b \in InRun
      BY <1>2, <1>5, <2>2 DEF InRun
    <3> QED BY <2>1, <3>1 DEF IInv, Stable
  <2>3. CASE j # Len(inputs) + 1
    <3>1. j \in DOMAIN inputs /\ b \in CasesOf(inputs[j])
      BY <1>2, <1>5, <2>3
    <3> QED BY <1>5, <2>1, <3>1 DEF IInv, Stable
  <2> QED BY <2>2, <2>3
<1>6. InRun' = {}
  BY DEF InRun
<1> QED BY <1>1, <1>2, <1>3, <1>4, <1>5, <1>6

LEMMA OutputRecordStep ==
  ASSUME IInv, OutputRecord
  PROVE  IInv'
<1>1. PICK r \in pqueue :
        /\ \A s \in pqueue \ {r} : Precedes(r, s)
        /\ outgoing' = r
        /\ pqueue' = pqueue \ {r}
        /\ \/ /\ run_id # r.id /\ run # NULL
              /\ merge_append(run, "emit")
              /\ run' = NULL
           \/ /\ ~ (run_id # r.id /\ run # NULL)
              /\ pc' = "emit"
              /\ UNCHANGED <<merge, run>>
  BY DEF OutputRecord
<1>2. pc = "output" /\ UNCHANGED <<written, max_records, idx, run_id, run_end, incoming, result>>
  BY DEF OutputRecord
<1>3. sink = NULL /\ outgoing = NULL /\ result = NULL
  BY <1>2 DEF IInv, Control
<1>4. r \in Record /\ r # NULL /\ r.c \in Case /\ run_id \in Nat
      /\ r.c.seq = r.idx + 1 /\ r.idx < idx
  BY <1>1, NullFacts DEF IInv, TypeOK, Record, Numbered
<1>5. InHeap' \cup InHand' = InHeap \cup InHand /\ InHeap' \subseteq InHeap
  BY <1>1, <1>2, <1>3, <1>4 DEF InHeap, InHand
<1>6. \A s \in pqueue : Placed(s) /\ Placed(s)'
  BY <1>2 DEF IInv, Queued, Placed
<1>7. \A i \in DOMAIN inputs : inputs[i] # <<>>
  BY <1>2 DEF IInv, Filled
<1>8. InSink = {} /\ InResult = {} /\ InResult' = {}
  BY <1>2, <1>3 DEF InSink, InResult
<1>9. /\ \A i \in DOMAIN written' : written'[i].seq = i
      /\ idx' = IF incoming' = NULL THEN Len(written') ELSE Len(written') - 1
      /\ incoming' # NULL => incoming'.seq = Len(written')
      /\ \A s \in pqueue' : s.c.seq = s.idx + 1 /\ s.idx < idx'
      /\ outgoing' # NULL => outgoing'.c.seq = outgoing'.idx + 1 /\ outgoing'.idx < idx'
      /\ run_end' # NULL => run_end'.seq <= idx'
  BY <1>1, <1>2, <1>4 DEF IInv, Numbered
<1>a. CASE /\ run_id # r.id /\ run # NULL
           /\ merge_append(run, "emit")
           /\ run' = NULL
  <2>1. run # <<>> /\ r.id = run_id + 1 /\ run_end # NULL
    <3>1. r.id = run_id + 1
      BY <1>1, <1>4, <1>6, <1>a DEF Placed
    <3>2. CASE run = <<>>
      <4>1. run_end = NULL /\ run_id = 1 /\ r.id = 1
        BY <1>1, <1>6, <3>2 DEF IInv, Queued, Placed
      <4> QED BY <1>a, <4>1
    <3>3. CASE run # <<>>
      <4>1. run \in Seq(Case) /\ Len(run) \in DOMAIN run /\ run[Len(run)] \in Case
        BY <1>a, <3>3 DEF IInv, TypeOK
      <4>2. run_end = run[Len(run)]
        BY <1>a, <3>3 DEF IInv, Queued
      <4> QED BY <3>1, <3>3, <4>1, <4>2, NullFacts
    <3> QED BY <3>2, <3>3
  <2>2. /\ inputs' = Append(inputs, run) /\ UNCHANGED sink
        /\ pc' \in {"merge", "emit"}
        /\ pc' = "merge" => Len(inputs') >= MAX_MERGE_ORDER
    BY <1>a DEF merge_append
  <2>3. /\ run \in Seq(Case) /\ inputs' \in Seq(Seq(Case))
        /\ Len(inputs') = Len(inputs) + 1 /\ Len(inputs) \in Nat
        /\ DOMAIN inputs' = 1 .. Len(inputs) + 1 /\ DOMAIN inputs = 1 .. Len(inputs)
        /\ \A i \in DOMAIN inputs : inputs'[i] = inputs[i]
        /\ inputs'[Len(inputs) + 1] = run
        /\ InInputs' = InInputs \cup InRun /\ InRun' = {}
        /\ \A i \in DOMAIN inputs' : Ordered(inputs'[i])
        /\ \A i, j \in DOMAIN inputs' : i < j =>
             \A a \in CasesOf(inputs'[i]), b \in CasesOf(inputs'[j]) : Prior(a, b)
    BY <1>a, <2>2, AppendRun
  <2>4. TypeOK'
    BY <1>1, <1>2, <1>4, <1>a, <2>2, <2>3 DEF IInv, TypeOK
  <2>5. Control'
    BY <1>1, <1>2, <1>3, <1>4, <2>2 DEF IInv, Control
  <2>6. InSink' = {}
    BY <1>3, <2>2 DEF InSink
  <2>7. Numbered'
    <3>1. \A a \in InInputs' \cup InSink' \cup InRun' : a.seq <= idx'
      BY <1>2, <2>3, <2>6 DEF IInv, Numbered
    <3> QED BY <1>9, <3>1 DEF Numbered
  <2>8. Queued'
    <3>1. \A s \in pqueue' : Placed(s)' /\ Precedes(r, s)
      BY <1>1, <1>6
    <3>2. Placed(r)'
      BY <1>1, <1>6
    <3>3. outgoing' = r /\ run' = NULL /\ r.id = run_id' + 1 /\ run_end' # NULL /\ run' # <<>>
      BY <1>1, <1>2, <1>a, <2>1, NullFacts
    <3> QED BY <3>1, <3>2, <3>3 DEF Queued, Precedes, Placed
  <2>9. Filled'
    <3>1. \A i \in DOMAIN inputs' : inputs'[i] # <<>>
      <4>1. ASSUME NEW i \in 1 .. Len(inputs) + 1, ~ (i \in 1 .. Len(inputs))
            PROVE  i = Len(inputs) + 1
        <5>1. Len(inputs) \in Nat
          BY <2>3, Zenon
        <5> QED BY <4>1, <5>1
      <4>2. \A i \in DOMAIN inputs' : i \in DOMAIN inputs \/ i = Len(inputs) + 1
        BY <2>3, <4>1, Zenon
      <4> QED BY <1>7, <2>1, <2>3, <4>2, Zenon
    <3>2. pc' = "merge" => Len(inputs') > 1
      BY <2>2, <2>3, OrderTyped
    <3> QED BY <2>2, <3>1, <3>2 DEF Filled
  <2>10. Stable'
    BY <1>5, <1>8, <2>3, <2>6 DEF IInv, Stable
  <2>11. RunsOrdered'
    BY <1>2, <1>3, <1>a, <2>2, <2>3 DEF RunsOrdered
  <2>12. NothingLost'
    BY <1>2, <1>5, <1>8, <2>3, <2>6 DEF IInv, NothingLost
  <2> QED BY <2>4, <2>5, <2>7, <2>8, <2>9, <2>10, <2>11, <2>12 DEF IInv
<1>b. CASE /\ ~ (run_id # r.id /\ run # NULL)
           /\ pc' = "emit"
           /\ UNCHANGED <<merge, run>>
  <2>1. r.id = IF run = NULL THEN run_id + 1 ELSE run_id
    <3>1. run = NULL => run_id = 0 /\ run_end = NULL
      BY <1>2 DEF IInv, Control
    <3>2. run = NULL => r.id = 1
      BY <1>1, <1>6, <3>1 DEF Placed
    <3> QED BY <1>4, <1>b, <3>1, <3>2
  <2>2. /\ InInputs' = InInputs /\ InSink' = InSink /\ InRun' = InRun
    BY <1>b DEF InInputs, InSink, InRun, merge
  <2>3. TypeOK'
    BY <1>1, <1>2, <1>4, <1>b DEF IInv, TypeOK, merge
  <2>4. Control'
    BY <1>1, <1>2, <1>3, <1>4, <1>b DEF IInv, Control, merge
  <2>5. Numbered'
    BY <1>2, <1>9, <2>2 DEF IInv, Numbered
  <2>6. Queued'
    <3>1. \A s \in pqueue' : Placed(s)' /\ Precedes(r, s)
      BY <1>1, <1>6
    <3>2. Placed(r)'
      BY <1>1, <1>6
    <3>3. run # NULL /\ run # <<>> => run_end = run[Len(run)]
      BY DEF IInv, Queued
    <3>4. run = <<>> => run_end = NULL /\ run_id = 1 /\ incoming = NULL
      BY DEF IInv, Queued
    <3>5. run_end = NULL => inputs = <<>> /\ (run = <<>> \/ (run = NULL /\ run_id = 0))
      BY <1>2 DEF IInv, Queued
    <3> QED BY <1>1, <1>2, <1>b, <2>1, <3>1, <3>2, <3>3, <3>4, <3>5
            DEF Queued, Precedes, Placed, merge
  <2>7. Filled'
    BY <1>7, <1>b DEF Filled, merge
  <2>8. Stable'
    BY <1>5, <1>b, <2>2 DEF IInv, Stable, merge
  <2>9. RunsOrdered'
    BY <1>2, <1>b DEF IInv, RunsOrdered, merge
  <2>10. NothingLost'
    BY <1>2, <1>5, <1>8, <2>2 DEF IInv, NothingLost
  <2> QED BY <2>3, <2>4, <2>5, <2>6, <2>7, <2>8, <2>9, <2>10 DEF IInv
<1> QED BY <1>1, <1>a, <1>b

LEMMA EmitStep ==
  ASSUME IInv, Emit
  PROVE  IInv'
<1> DEFINE o == outgoing
           base == IF run = NULL THEN <<>> ELSE run
<1>1. /\ pc = "emit" /\ run_end' = o.c /\ outgoing' = NULL
      /\ pc' = IF incoming # NULL THEN "push" ELSE "output"
      /\ UNCHANGED <<written, heap, merge, incoming, result>>
  BY DEF Emit
<1>2. /\ o \in Record /\ o.c \in Case /\ o.c.seq = o.idx + 1 /\ o.idx < idx
      /\ o.idx \in Nat /\ o.id \in Nat /\ idx \in Nat /\ run_id \in Nat
  BY <1>1 DEF IInv, TypeOK, Control, Numbered, Record
<1>3. /\ o # NULL /\ Placed(o) /\ \A r \in pqueue : Precedes(o, r) /\ Placed(r)
      /\ o.id = IF run = NULL THEN run_id + 1 ELSE run_id
  BY <1>1 DEF IInv, Control, Queued
<1>4. sink = NULL /\ result = NULL
  BY <1>1 DEF IInv, Control
<1>5. base \in Seq(Case) /\ Ordered(base)
  <2>1. Ordered(<<>>)
    BY DEF Ordered
  <2> QED BY <2>1 DEF IInv, TypeOK, RunsOrdered
<1>6. run' = Append(base, o.c) /\ run_id' = o.id
  <2>1. Append(<<>>, o.c) = <<o.c>>
    OBVIOUS
  <2> QED BY <1>3, <2>1 DEF Emit
<1>7. /\ run' \in Seq(Case) /\ CasesOf(run') = CasesOf(base) \cup {o.c}
      /\ run' # <<>> /\ run'[Len(run')] = o.c /\ run' # NULL
  <2> HIDE DEF base, o
  <2>1. /\ Append(base, o.c) \in Seq(Case)
        /\ CasesOf(Append(base, o.c)) = CasesOf(base) \cup {o.c}
        /\ Append(base, o.c) # <<>>
        /\ Append(base, o.c)[Len(Append(base, o.c))] = o.c
    BY <1>2, <1>5, AppendFacts
  <2> QED BY <1>6, <2>1, NullFacts
<1>8. InRun' = InRun \cup {o.c}
  <2>1. CasesOf(<<>>) = {}
    BY DEF CasesOf
  <2> QED BY <1>7, <2>1 DEF InRun
<1>9. \A a \in CasesOf(base) : Before(a, o.c)
  <2>1. CASE base = <<>>
    BY <2>1 DEF CasesOf
  <2>2. CASE base # <<>>
    <3>1. run # NULL /\ run # <<>> /\ run_end = run[Len(run)] /\ o.id = run_id
      BY <1>3, <2>2 DEF IInv, Queued
    <3>2. run_end # NULL
      <4>1. Len(run) \in DOMAIN run /\ run[Len(run)] \in Case
        BY <1>5, <3>1
      <4> QED BY <3>1, <4>1, NullFacts
    <3>3. Before(run_end, o.c)
      BY <1>3, <3>1, <3>2 DEF Placed
    <3> QED BY <1>2, <1>5, <3>1, <3>3, LastIsLast
  <2> QED BY <2>1, <2>2
<1>10. Ordered(run')
  BY <1>2, <1>5, <1>6, <1>9, AppendOrdered
<1> HIDE DEF o, base
<1>11. ASSUME NEW r \in pqueue
       PROVE  Placed(r)' /\ Prior(o.c, r.c)
  <2>1. /\ r \in Record /\ r.id \in Nat /\ r.idx \in Nat /\ r.c \in Case
        /\ r.c.seq = r.idx + 1 /\ Precedes(o, r) /\ Placed(r)
    BY <1>3 DEF IInv, TypeOK, Record, Numbered
  <2>2. {r.c.key, o.c.key} \subseteq Int
    BY <1>2, <2>1, SortAssumption DEF Case
  <2>3. run_end' # NULL /\ run_end' = o.c /\ run_id' = o.id
    BY <1>1, <1>2, <1>6, NullFacts DEF o
  <2>4. CASE r.id = o.id
    <3>1. Before(o.c, r.c)
      BY <1>2, <2>1, <2>2, <2>4 DEF Precedes, Before
    <3>2. Prior(o.c, r.c)
      BY <2>2, <3>1 DEF Before, Prior
    <3>3. r.id # o.id + 1
      BY <1>2, <2>4
    <3> QED BY <2>3, <2>4, <3>1, <3>2, <3>3 DEF Placed
  <2>5. CASE r.id # o.id
    <3>1. r.id > o.id
      BY <1>2, <2>1, <2>5 DEF Precedes
    <3>2. r.id = run_id + 1 /\ o.id = run_id
      BY <1>2, <1>3, <2>1, <3>1 DEF Placed
    <3>3. run_end # NULL
      <4>1. ASSUME run_end = NULL PROVE FALSE
        <5>1. r.id = 1 /\ o.id = 1
          BY <1>3, <2>1, <4>1 DEF Placed
        <5> QED BY <3>1, <5>1
      <4> QED BY <4>1
    <3>4. run_end \in Case /\ run_end.key \in Int
      BY <3>3, SortAssumption DEF IInv, TypeOK, Case
    <3>5. r.c.key < run_end.key /\ Before(run_end, o.c)
      BY <1>3, <2>1, <3>2, <3>3 DEF Placed
    <3>6. r.c.key < o.c.key
      BY <2>2, <3>4, <3>5 DEF Before
    <3>7. Prior(o.c, r.c)
      BY <2>2, <3>6 DEF Prior
    <3> QED BY <1>2, <2>3, <3>2, <3>6, <3>7 DEF Placed
  <2> QED BY <2>4, <2>5
<1>12. incoming # NULL => Prior(o.c, incoming)
  <2>1. incoming # NULL => incoming.seq = idx + 1
    BY DEF IInv, TypeOK, Numbered
  <2>2. incoming # NULL => o.c.seq < incoming.seq
    BY <1>2, <2>1
  <2> QED BY <2>2 DEF Prior
<1>13. /\ InInputs' = InInputs /\ InSink' = InSink /\ InHeap' = InHeap
       /\ InSink = {} /\ InResult' = InResult
       /\ InHand' = IF incoming = NULL THEN {} ELSE {incoming}
       /\ InHand = InHand' \cup {o.c}
  BY <1>1, <1>3, <1>4 DEF InInputs, InSink, InHeap, InHand, InResult, heap, merge, o
<1>14. TypeOK'
  BY <1>1, <1>2, <1>6, <1>7 DEF IInv, TypeOK, heap, merge, o
<1>15. Control'
  BY <1>1, <1>4, <1>7 DEF IInv, Control, heap, merge
<1>16. Numbered'
  <2>1. o.c.seq <= idx
    BY <1>2
  <2>2. \A a \in InInputs' \cup InSink' \cup InRun' : a.seq <= idx'
    BY <1>1, <1>8, <1>13, <2>1 DEF IInv, Numbered, heap
  <2> QED BY <1>1, <2>1, <2>2 DEF IInv, Numbered, heap, o
<1>17. Queued'
  <2>1. \A r \in pqueue' : Placed(r)'
    BY <1>1, <1>11 DEF heap
  <2>2. run_end' # NULL
    BY <1>1, <1>2, NullFacts DEF o
  <2> QED BY <1>1, <1>7, <2>1, <2>2 DEF Queued
<1>18. Filled'
  BY <1>1 DEF IInv, Filled, merge
<1>19. Stable'
  <2>1. \A a \in InInputs \cup InSink, b \in InRun' \cup InHeap' \cup InHand' : Prior(a, b)
    BY <1>8, <1>13 DEF IInv, Stable
  <2>2. \A a \in InRun', b \in InHeap' \cup InHand' : Prior(a, b)
    <3>1. \A b \in InHeap : Prior(o.c, b)
      BY <1>11 DEF InHeap
    <3>2. \A b \in InHand' : Prior(o.c, b)
      BY <1>12, <1>13
    <3> QED BY <1>8, <1>13, <3>1, <3>2 DEF IInv, Stable
  <2> QED BY <1>1, <1>13, <2>1, <2>2 DEF IInv, Stable, merge
<1>20. RunsOrdered'
  BY <1>1, <1>10 DEF IInv, RunsOrdered, merge
<1>21. NothingLost'
  BY <1>1, <1>8, <1>13 DEF IInv, NothingLost
<1> QED BY <1>14, <1>15, <1>16, <1>17, <1>18, <1>19, <1>20, <1>21 DEF IInv

LEMMA ConvertToReaderStep ==
  ASSUME IInv, ConvertToReader
  PROVE  IInv'
<1>1. /\ pc = "open" /\ pc' = "output"
      /\ UNCHANGED <<written, heap, run_end, merge, incoming, outgoing, result>>
      /\ \/ run = NULL /\ run_id = 0 /\ run' = <<>> /\ run_id' = 1
         \/ ~ (run = NULL /\ run_id = 0) /\ UNCHANGED <<run, run_id>>
  BY DEF ConvertToReader
<1>2. /\ sink = NULL /\ outgoing = NULL /\ result = NULL /\ run # <<>>
      /\ run_end = NULL => run = NULL /\ run_id = 0 /\ inputs = <<>>
      /\ \A i \in DOMAIN inputs : inputs[i] # <<>>
  BY <1>1, QuietFacts
<1>3. incoming = NULL /\ (run = NULL => run_id = 0 /\ run_end = NULL)
  BY <1>1 DEF IInv, Control
<1>4. CasesOf(<<>>) = {} /\ Ordered(<<>>) /\ <<>> \in Seq(Case) /\ <<>> # NULL
  BY NullFacts DEF CasesOf, Ordered
<1>5. /\ InInputs' = InInputs /\ InSink' = InSink /\ InHeap' = InHeap
      /\ InHand' = InHand /\ InResult' = InResult /\ InRun' = InRun
      /\ run' # NULL
  BY <1>1, <1>3, <1>4 DEF InInputs, InSink, InHeap, InHand, InResult, InRun, heap, merge
<1>6. TypeOK'
  <2>1. run' \in Seq(Case) \cup {NULL} /\ run_id' \in Nat
    <3>1. run \in Seq(Case) \cup {NULL} /\ run_id \in Nat /\ 1 \in Nat
      BY DEF IInv, TypeOK
    <3>2. run' = <<>> => run' \in Seq(Case)
      BY <1>4
    <3> QED BY <1>1, <3>1, <3>2, Zenon
  <2> QED BY <1>1, <2>1 DEF IInv, TypeOK, heap, merge
<1>7. Control'
  BY <1>1, <1>2, <1>3, <1>5 DEF IInv, Control, heap, merge
<1>8. Numbered'
  BY <1>1, <1>5 DEF IInv, Numbered, heap
<1>9. Queued'
  <2>1. ASSUME NEW r \in pqueue PROVE Placed(r)'
    <3>1. Placed(r)
      BY DEF IInv, Queued
    <3>2. CASE run = NULL
      BY <1>1, <1>3, <3>1, <3>2 DEF Placed
    <3>3. CASE run # NULL
      BY <1>1, <3>1, <3>3 DEF Placed
    <3> QED BY <3>2, <3>3
  <2>2. run' # <<>> => run_end' = run'[Len(run')]
    BY <1>1, <1>2, <1>3 DEF IInv, Queued
  <2>3. run' = <<>> => run_end' = NULL /\ run_id' = 1
    BY <1>1, <1>2, <1>3
  <2>4. run_end' = NULL => inputs' = <<>> /\ run' = <<>>
    BY <1>1, <1>2 DEF merge
  <2> QED BY <1>1, <1>2, <1>3, <2>1, <2>2, <2>3, <2>4 DEF Queued, heap, merge
<1>10. Filled'
  BY <1>1, <1>2 DEF Filled, merge
<1>11. Stable'
  BY <1>1, <1>5 DEF IInv, Stable, merge
<1>12. RunsOrdered'
  BY <1>1, <1>4 DEF IInv, RunsOrdered, merge
<1>13. NothingLost'
  BY <1>1, <1>5 DEF IInv, NothingLost
<1> QED BY <1>6, <1>7, <1>8, <1>9, <1>10, <1>11, <1>12, <1>13 DEF IInv

LEMMA LastRunStep ==
  ASSUME IInv, LastRun
  PROVE  IInv'
<1>1. /\ pc = "output" /\ incoming = NULL /\ pqueue = {}
      /\ inputs' = Append(inputs, run) /\ run' = NULL
      /\ pc' = IF Len(inputs') >= MAX_MERGE_ORDER THEN "merge" ELSE "result"
      /\ UNCHANGED <<written, heap, run_id, run_end, sink, incoming, outgoing, result>>
  BY DEF LastRun, merge_append
<1>2. sink = NULL /\ outgoing = NULL /\ result = NULL /\ run # NULL
  BY <1>1 DEF IInv, Control
<1>3. /\ run \in Seq(Case) /\ inputs' \in Seq(Seq(Case))
      /\ Len(inputs') = Len(inputs) + 1 /\ Len(inputs) \in Nat
      /\ DOMAIN inputs' = 1 .. Len(inputs) + 1 /\ DOMAIN inputs = 1 .. Len(inputs)
      /\ \A i \in DOMAIN inputs : inputs'[i] = inputs[i]
      /\ inputs'[Len(inputs) + 1] = run
      /\ InInputs' = InInputs \cup InRun /\ InRun' = {}
      /\ \A i \in DOMAIN inputs' : Ordered(inputs'[i])
      /\ \A i, j \in DOMAIN inputs' : i < j =>
           \A a \in CasesOf(inputs'[i]), b \in CasesOf(inputs'[j]) : Prior(a, b)
  BY <1>1, <1>2, AppendRun
<1>4. /\ InSink' = {} /\ InSink = {} /\ InHeap' = {} /\ InHeap = {} /\ InHand' = {}
      /\ InHand = {} /\ InResult' = InResult
  BY <1>1, <1>2 DEF InSink, InHeap, InHand, InResult, heap
<1>5. run_end = NULL => inputs = <<>>
  BY <1>1 DEF IInv, Queued
<1>6. run_end = NULL => Len(inputs') = 1 /\ pc' = "result"
  <2>1. run_end = NULL => Len(inputs) = 0
    BY <1>5
  <2> QED BY <1>1, <1>3, <2>1, OrderTyped
<1>7. run = <<>> => run_end = NULL
  BY DEF IInv, Queued
<1>8. TypeOK'
  BY <1>1, <1>3 DEF IInv, TypeOK, heap
<1>9. Control'
  BY <1>1, <1>2 DEF IInv, Control, heap
<1>10. Numbered'
  BY <1>1, <1>3, <1>4 DEF IInv, Numbered, heap
<1>11. Queued'
  <2>1. run' # <<>>
    BY <1>1, NullFacts
  <2> QED BY <1>1, <1>2, <1>6, <2>1 DEF Queued, heap
<1>12. Filled'
  <2>1. \A i \in DOMAIN inputs : inputs[i] # <<>>
    BY <1>1 DEF IInv, Filled
  <2>2. run # <<>> => \A i \in DOMAIN inputs' : inputs'[i] # <<>>
    BY <1>3, <2>1
  <2>3. pc' = "merge" => Len(inputs') > 1
    BY <1>1, <1>3, OrderTyped
  <2> QED BY <1>1, <1>6, <1>7, <2>2, <2>3 DEF Filled
<1>13. Stable'
  BY <1>3, <1>4 DEF Stable
<1>14. RunsOrdered'
  BY <1>1, <1>2, <1>3 DEF RunsOrdered
<1>15. NothingLost'
  BY <1>1, <1>3, <1>4 DEF IInv, NothingLost
<1> QED BY <1>8, <1>9, <1>10, <1>11, <1>12, <1>13, <1>14, <1>15 DEF IInv

-----------------------------------------------------------------------------
LEMMA MakeReaderStep ==
  ASSUME IInv, MakeReader
  PROVE  IInv'
<1>1. pc = "result" /\ UNCHANGED <<written, heap, runs, sink, incoming, outgoing>>
  BY DEF MakeReader
<1>2. /\ sink = NULL /\ outgoing = NULL /\ result = NULL /\ incoming = NULL
      /\ run = NULL /\ pqueue = {}
  BY <1>1 DEF IInv, Control
<1>3. /\ InHeap' = InHeap /\ InRun' = {} /\ InRun = {} /\ InSink' = {} /\ InSink = {}
      /\ InHand' = {} /\ InHand = {} /\ InResult = {} /\ InHeap = {}
  BY <1>1, <1>2 DEF InHeap, InRun, InSink, InHand, InResult, heap, runs
<1>a. CASE /\ Len(inputs) > 1
           /\ pc' = "merge"
           /\ UNCHANGED <<inputs, result>>
  <2>1. InInputs' = InInputs /\ InResult' = {}
    BY <1>2, <1>a DEF InInputs, InResult
  <2>2. Len(inputs) \in Nat /\ Len(inputs) # 1
    <3>1. inputs \in Seq(Seq(Case))
      BY DEF IInv, TypeOK
    <3>2. Len(inputs) \in Nat
      BY <3>1, LenProperties
    <3>3. ASSUME NEW n \in Nat, n > 1 PROVE n # 1
      BY <3>3
    <3> QED BY <1>a, <3>2, <3>3
  <2>3. TypeOK'
    BY <1>1, <1>a DEF IInv, TypeOK, heap, runs
  <2>4. Control'
    BY <1>1, <1>2, <1>a DEF Control, heap, runs
  <2>5. Numbered'
    BY <1>1, <1>3, <2>1 DEF IInv, Numbered, heap, runs
  <2>6. Queued'
    <3>1. run_end # NULL
      BY <1>1, <2>2 DEF IInv, Queued
    <3>2. run' = NULL /\ run' # <<>>
      BY <1>1, <1>2, NullFacts DEF runs
    <3> QED BY <1>1, <1>2, <3>1, <3>2 DEF Queued, heap, runs
  <2>7. Filled'
    BY <1>1, <1>a, <2>2 DEF IInv, Filled
  <2>8. Stable'
    BY <1>1, <1>3, <1>a, <2>1 DEF IInv, Stable
  <2>9. RunsOrdered'
    BY <1>1, <1>a DEF IInv, RunsOrdered, runs
  <2>10. NothingLost'
    BY <1>1, <1>3, <2>1 DEF IInv, NothingLost
  <2> QED BY <2>3, <2>4, <2>5, <2>6, <2>7, <2>8, <2>9, <2>10 DEF IInv
<1>b. CASE /\ Len(inputs) = 1
           /\ result' = inputs[1]
           /\ inputs' = <<>>
           /\ pc' = "done"
  <2>1. DOMAIN inputs = {1} /\ inputs[1] \in Seq(Case)
    <3>1. inputs \in Seq(Seq(Case))
      BY DEF IInv, TypeOK
    <3>2. DOMAIN inputs = 1 .. 1 /\ inputs[1] \in Seq(Case)
      BY <1>b, <3>1, LenProperties, ElementOfSeq
    <3> QED BY <3>2
  <2>2. Ordered(inputs[1]) /\ InInputs = CasesOf(inputs[1])
    BY <2>1 DEF IInv, RunsOrdered, InInputs
  <2>3. inputs' \in Seq(Seq(Case)) /\ DOMAIN inputs' = {}
    BY <1>b
  <2>4. InInputs' = {} /\ result' # NULL /\ InResult' = InInputs
    BY <1>b, <2>1, <2>2, <2>3, NullFacts DEF InInputs, InResult
  <2>5. TypeOK'
    BY <1>1, <1>b, <2>1, <2>3 DEF IInv, TypeOK, heap, runs
  <2>6. Control'
    BY <1>1, <1>2, <1>b, <2>4 DEF Control, heap, runs
  <2>7. Numbered'
    BY <1>1, <1>3, <2>4 DEF IInv, Numbered, heap, runs
  <2>8. Queued'
    <3>1. run' = NULL /\ run' # <<>>
      BY <1>1, <1>2, NullFacts DEF runs
    <3> QED BY <1>1, <1>2, <1>b, <3>1 DEF Queued, heap, runs
  <2>9. Filled'
    BY <1>b, <2>3 DEF Filled
  <2>10. Stable'
    BY <1>3, <2>3, <2>4 DEF Stable
  <2>11. RunsOrdered'
    BY <1>1, <1>2, <1>b, <2>2, <2>3 DEF RunsOrdered, runs
  <2>12. NothingLost'
    BY <1>1, <1>3, <2>4 DEF IInv, NothingLost
  <2> QED BY <2>5, <2>6, <2>7, <2>8, <2>9, <2>10, <2>11, <2>12 DEF IInv
<1> QED BY <1>a, <1>b DEF MakeReader

LEMMA StartMergeStep ==
  ASSUME IInv, StartMerge
  PROVE  IInv'
<1>1. /\ pc = "merge" /\ sink' = <<>> /\ pc' = "merging"
      /\ UNCHANGED <<written, heap, runs, inputs, incoming, outgoing, result>>
  BY DEF StartMerge
<1>2. sink = NULL /\ result = NULL
  BY <1>1 DEF IInv, Control
<1>3. CasesOf(<<>>) = {} /\ Ordered(<<>>) /\ <<>> \in Seq(Case) /\ <<>> # NULL
  BY NullFacts DEF CasesOf, Ordered
<1>4. /\ InInputs' = InInputs /\ InSink = {} /\ InSink' = {} /\ InHeap' = InHeap
      /\ InHand' = InHand /\ InResult' = InResult /\ InRun' = InRun
  BY <1>1, <1>2, <1>3 DEF InInputs, InSink, InHeap, InHand, InResult, InRun, heap, runs
<1>5. TypeOK'
  <2>1. sink' \in Seq(Case) \cup {NULL}
    BY <1>1, <1>3, Zenon
  <2> QED BY <1>1, <2>1 DEF IInv, TypeOK, heap, runs
<1>6. Control'
  BY <1>1, <1>2, <1>3 DEF IInv, Control, heap, runs
<1>7. Numbered'
  BY <1>1, <1>4 DEF IInv, Numbered, heap, runs
<1>8. Queued'
  BY <1>1 DEF IInv, Queued, Placed, heap, runs
<1>9. Filled'
  <2>1. inputs # <<>>
    BY <1>1 DEF IInv, Filled
  <2> QED BY <1>1, <2>1 DEF IInv, Filled
<1>10. Stable'
  BY <1>1, <1>4 DEF IInv, Stable
<1>11. RunsOrdered'
  BY <1>1, <1>3 DEF IInv, RunsOrdered, runs
<1>12. NothingLost'
  BY <1>1, <1>4 DEF IInv, NothingLost
<1> QED BY <1>5, <1>6, <1>7, <1>8, <1>9, <1>10, <1>11, <1>12 DEF IInv

LEMMA EndMergeStep ==
  ASSUME IInv, EndMerge
  PROVE  IInv'
<1>1. /\ pc = "merging" /\ inputs = <<>> /\ inputs' = <<sink>> /\ sink' = NULL
      /\ pc' = IF outgoing # NULL THEN "emit" ELSE "result"
      /\ UNCHANGED <<written, heap, runs, incoming, outgoing, result>>
  BY DEF EndMerge
<1>2. /\ sink \in Seq(Case) /\ sink # NULL /\ sink # <<>> /\ result = NULL
      /\ Ordered(sink)
  BY <1>1 DEF IInv, Control, TypeOK, Filled, RunsOrdered
<1>3. inputs' \in Seq(Seq(Case)) /\ DOMAIN inputs' = {1} /\ inputs'[1] = sink /\ Len(inputs') = 1
  BY <1>1, <1>2
<1>4. /\ InInputs' = InSink /\ InInputs = {} /\ InSink' = {} /\ InHeap' = InHeap
      /\ InHand' = InHand /\ InResult' = InResult /\ InRun' = InRun
  BY <1>1, <1>2, <1>3 DEF InInputs, InSink, InHeap, InHand, InResult, InRun, heap, runs
<1>5. TypeOK'
  BY <1>1, <1>3 DEF IInv, TypeOK, heap, runs
<1>6. Control'
  BY <1>1, <1>2 DEF IInv, Control, heap, runs
<1>7. Numbered'
  BY <1>1, <1>4 DEF IInv, Numbered, heap, runs
<1>8. Queued'
  <2>1. run_end # NULL /\ run # <<>>
    BY <1>1 DEF IInv, Queued
  <2> QED BY <1>1, <2>1 DEF IInv, Queued, Placed, heap, runs
<1>9. Filled'
  BY <1>1, <1>2, <1>3 DEF Filled
<1>10. Stable'
  BY <1>3, <1>4 DEF IInv, Stable
<1>11. RunsOrdered'
  BY <1>1, <1>2, <1>3 DEF IInv, RunsOrdered, runs
<1>12. NothingLost'
  BY <1>1, <1>4 DEF IInv, NothingLost
<1> QED BY <1>5, <1>6, <1>7, <1>8, <1>9, <1>10, <1>11, <1>12 DEF IInv

-----------------------------------------------------------------------------
Shift(i, n) == IF i < n THEN i ELSE i + 1

LEMMA WithoutFacts ==
  ASSUME NEW s \in Seq(Seq(Case)), NEW n \in 1 .. Len(s)
  PROVE  /\ Without(s, n) \in Seq(Seq(Case))
         /\ Len(Without(s, n)) = Len(s) - 1 /\ DOMAIN Without(s, n) = 1 .. Len(s) - 1
         /\ \A i \in 1 .. Len(s) - 1 :
              /\ Shift(i, n) \in DOMAIN s \ {n}
              /\ Without(s, n)[i] = s[Shift(i, n)]
         /\ \A j \in DOMAIN s \ {n} : \E i \in 1 .. Len(s) - 1 : Without(s, n)[i] = s[j]
<1>1. Len(s) \in Nat \ {0} /\ DOMAIN s = 1 .. Len(s) /\ n \in Nat
  OBVIOUS
<1>2. \A i \in 1 .. Len(s) - 1 : Shift(i, n) \in DOMAIN s \ {n}
  BY <1>1 DEF Shift
<1>3. \A i \in 1 .. Len(s) - 1 : Without(s, n)[i] = s[Shift(i, n)]
  BY DEF Without, Shift
<1>4. Without(s, n) \in [1 .. Len(s) - 1 -> Seq(Case)]
  BY <1>1, <1>2 DEF Without, Shift
<1>5. Len(s) - 1 \in Nat
  BY <1>1
<1>6. /\ Without(s, n) \in Seq(Seq(Case)) /\ Len(Without(s, n)) = Len(s) - 1
      /\ DOMAIN Without(s, n) = 1 .. Len(s) - 1
  <2>1. Without(s, n) \in Seq(Seq(Case)) /\ DOMAIN Without(s, n) = 1 .. Len(s) - 1
    <3>1. Without(s, n) \in UNION {[1 .. k -> Seq(Case)] : k \in Nat}
      BY <1>4, <1>5
    <3>2. Without(s, n) \in Seq(Seq(Case))
      BY <3>1, SeqDef, Zenon
    <3> QED BY <1>4, <3>2
  <2>2. 1 .. Len(Without(s, n)) = 1 .. Len(s) - 1 /\ Len(Without(s, n)) \in Nat
    BY <2>1, LenProperties
  <2>3. ASSUME NEW k \in Nat, NEW m \in Nat, 1 .. k = 1 .. m PROVE k = m
    <3>1. k >= 1 => k \in 1 .. m
      BY <2>3
    <3>2. m >= 1 => m \in 1 .. k
      BY <2>3
    <3> QED BY <3>1, <3>2
  <2> QED BY <1>5, <2>1, <2>2, <2>3
<1>7. ASSUME NEW j \in DOMAIN s \ {n}
      PROVE  \E i \in 1 .. Len(s) - 1 : Without(s, n)[i] = s[j]
  <2>1. CASE j < n
    <3>1. j \in 1 .. Len(s) - 1
      BY <1>1, <2>1
    <3> QED BY <1>3, <2>1, <3>1 DEF Shift
  <2>2. CASE ~ (j < n)
    <3>1. j - 1 \in 1 .. Len(s) - 1 /\ ~ (j - 1 < n) /\ j - 1 + 1 = j
      BY <1>1, <2>2
    <3> QED BY <1>3, <3>1 DEF Shift
  <2> QED BY <2>1, <2>2
<1> QED BY <1>2, <1>3, <1>6, <1>7

(* A merge takes the case that is before all the others.                   *)
LEMMA LeastFirst ==
  ASSUME IInv, pc = "merging", NEW min \in DOMAIN inputs, IsLeast(min),
         NEW j \in DOMAIN inputs, NEW b \in CasesOf(inputs[j]),
         j = min => b \in CasesOf(Tail(inputs[min]))
  PROVE  Before(Head(inputs[min]), b)
<1> DEFINE h == Head(inputs[min])
           k == Head(inputs[j])
<1>1. /\ \A i \in DOMAIN inputs : inputs[i] \in Seq(Case) /\ inputs[i] # <<>>
      /\ \A i \in DOMAIN inputs : Ordered(inputs[i])
      /\ DOMAIN inputs = 1 .. Len(inputs)
  BY DEF IInv, TypeOK, Filled, RunsOrdered
<1>2. h \in Case /\ k \in Case /\ b \in Case /\ h \in CasesOf(inputs[min])
  BY <1>1, HeadFacts, CasesTyped
<1>3. {h.key, k.key, b.key} \subseteq Int /\ {h.seq, k.seq, b.seq} \subseteq Nat
  BY <1>2, SortAssumption DEF Case
<1>4. CASE j = min
  BY <1>1, <1>4, TailOrdered
<1>5. CASE j # min
  <2>1. k.key <= b.key
    <3>1. CASE b = k
      BY <1>3, <3>1
    <3>2. CASE b # k
      <4>1. b \in CasesOf(Tail(inputs[j]))
        BY <1>1, <3>2, HeadFacts
      <4>2. Before(k, b)
        BY <1>1, <4>1, TailOrdered
      <4> QED BY <1>3, <4>2 DEF Before
    <3> QED BY <3>1, <3>2
  <2>2. h.key <= k.key /\ (j < min => h.key < k.key)
    BY DEF IsLeast
  <2>3. CASE j < min
    BY <1>3, <2>1, <2>2, <2>3 DEF Before
  <2>4. CASE min < j
    <3>1. Prior(h, b)
      BY <1>2, <2>4 DEF IInv, Stable
    <3> QED BY <1>3, <2>1, <2>2, <3>1 DEF Before, Prior
  <2> QED BY <1>1, <1>5, <2>3, <2>4
<1> QED BY <1>4, <1>5

(* The inputs after a case is taken: "old" says which of the inputs each   *)
(* of them was.                                                            *)
LEMMA TakeFacts ==
  ASSUME IInv, pc = "merging", NEW min \in DOMAIN inputs, IsLeast(min),
         inputs' = IF Len(inputs[min]) > 1
                   THEN [inputs EXCEPT ![min] = Tail(@)]
                   ELSE Without(inputs, min)
  PROVE  /\ inputs' \in Seq(Seq(Case))
         /\ \A i \in DOMAIN inputs' : inputs'[i] # <<>> /\ Ordered(inputs'[i])
         /\ \E old \in [DOMAIN inputs' -> DOMAIN inputs] :
              /\ \A i, j \in DOMAIN inputs' : i < j => old[i] < old[j]
              /\ \A i \in DOMAIN inputs' : CasesOf(inputs'[i]) \subseteq CasesOf(inputs[old[i]])
         /\ \A b \in InInputs' : Before(Head(inputs[min]), b)
         /\ InInputs = InInputs' \cup {Head(inputs[min])}
         /\ Head(inputs[min]) \in Case
<1> DEFINE h == Head(inputs[min])
           rest == Tail(inputs[min])
<1>1. /\ inputs \in Seq(Seq(Case)) /\ DOMAIN inputs = 1 .. Len(inputs)
      /\ \A i \in DOMAIN inputs : inputs[i] \in Seq(Case) /\ inputs[i] # <<>>
      /\ \A i \in DOMAIN inputs : Ordered(inputs[i])
      /\ Len(inputs) \in Nat
  BY DEF IInv, TypeOK, Filled, RunsOrdered
<1>2. /\ h \in Case /\ rest \in Seq(Case)
      /\ CasesOf(inputs[min]) = {h} \cup CasesOf(rest)
      /\ Len(inputs[min]) > 1 => rest # <<>>
      /\ Len(inputs[min]) <= 1 => CasesOf(inputs[min]) = {h}
  BY <1>1, HeadFacts
<1>3. Ordered(rest)
  BY <1>1, TailOrdered
<1>4. Len(inputs[min]) \in Nat
  BY <1>1, LenProperties
<1>5. \A j \in DOMAIN inputs : \A b \in CasesOf(inputs[j]) :
        (j = min => b \in CasesOf(rest)) => Before(h, b)
  BY LeastFirst
<1> HIDE DEF h, rest
<1>a. CASE Len(inputs[min]) > 1
  <2>1. inputs' = [inputs EXCEPT ![min] = rest]
    BY <1>a DEF rest
  <2>2. /\ inputs' \in Seq(Seq(Case)) /\ DOMAIN inputs' = DOMAIN inputs
        /\ \A i \in DOMAIN inputs : inputs'[i] = IF i = min THEN rest ELSE inputs[i]
    <3>1. min \in 1 .. Len(inputs)
      BY <1>1
    <3>2. [inputs EXCEPT ![min] = rest] \in Seq(Seq(Case))
      BY <1>1, <1>2, <3>1, ExceptSeq
    <3>3. /\ DOMAIN [inputs EXCEPT ![min] = rest] = DOMAIN inputs
          /\ \A i \in DOMAIN inputs :
               [inputs EXCEPT ![min] = rest][i] = IF i = min THEN rest ELSE inputs[i]
      BY <1>1
    <3> QED BY <2>1, <3>2, <3>3
  <2>3. \A i \in DOMAIN inputs' : inputs'[i] # <<>> /\ Ordered(inputs'[i])
    BY <1>1, <1>2, <1>3, <1>a, <2>2
  <2>4. \A i \in DOMAIN inputs' : CasesOf(inputs'[i]) \subseteq CasesOf(inputs[i])
    BY <1>2, <2>2
  <2>5. \E old \in [DOMAIN inputs' -> DOMAIN inputs] :
          /\ \A i, j \in DOMAIN inputs' : i < j => old[i] < old[j]
          /\ \A i \in DOMAIN inputs' : CasesOf(inputs'[i]) \subseteq CasesOf(inputs[old[i]])
    <3> DEFINE same == [i \in DOMAIN inputs' |-> i]
    <3>1. same \in [DOMAIN inputs' -> DOMAIN inputs]
      BY <2>2
    <3>2. \A i \in DOMAIN inputs' : same[i] = i
      OBVIOUS
    <3> HIDE DEF same
    <3> QED BY <2>4, <3>1, <3>2
  <2>6. \A i \in DOMAIN inputs' : \A b \in CasesOf(inputs'[i]) : Before(h, b)
    BY <1>5, <2>2, <2>4
  <2>7. InInputs = InInputs' \cup {h}
    <3>1. InInputs' \cup {h} \subseteq InInputs
      BY <1>2, <2>2, <2>4 DEF InInputs
    <3>2. ASSUME NEW j \in DOMAIN inputs, NEW b \in CasesOf(inputs[j]), b # h
          PROVE  b \in CasesOf(inputs'[j]) /\ j \in DOMAIN inputs'
      BY <1>2, <2>2, <3>2
    <3>3. InInputs \subseteq InInputs' \cup {h}
      BY <3>2 DEF InInputs
    <3> QED BY <3>1, <3>3
  <2>8. \A b \in InInputs' : Before(h, b)
    BY <2>6 DEF InInputs
  <2> QED BY <1>2, <2>2, <2>3, <2>5, <2>7, <2>8 DEF h
<1>b. CASE ~ (Len(inputs[min]) > 1)
  <2> DEFINE old == [i \in 1 .. Len(inputs) - 1 |-> Shift(i, min)]
  <2>1. inputs' = Without(inputs, min)
    BY <1>b
  <2>2. /\ inputs' \in Seq(Seq(Case)) /\ DOMAIN inputs' = 1 .. Len(inputs) - 1
        /\ \A i \in DOMAIN inputs' : old[i] \in DOMAIN inputs \ {min}
                                    /\ inputs'[i] = inputs[old[i]]
        /\ \A j \in DOMAIN inputs \ {min} : \E i \in DOMAIN inputs' : inputs'[i] = inputs[j]
    <3>1. min \in 1 .. Len(inputs)
      BY <1>1
    <3>2. /\ Without(inputs, min) \in Seq(Seq(Case))
          /\ DOMAIN Without(inputs, min) = 1 .. Len(inputs) - 1
          /\ \A i \in 1 .. Len(inputs) - 1 :
               /\ Shift(i, min) \in DOMAIN inputs \ {min}
               /\ Without(inputs, min)[i] = inputs[Shift(i, min)]
          /\ \A j \in DOMAIN inputs \ {min} :
               \E i \in 1 .. Len(inputs) - 1 : Without(inputs, min)[i] = inputs[j]
      BY <1>1, <3>1, WithoutFacts
    <3>3. \A i \in 1 .. Len(inputs) - 1 : old[i] = Shift(i, min)
      OBVIOUS
    <3> HIDE DEF old
    <3> QED BY <2>1, <3>2, <3>3
  <2>a. \A i, j \in DOMAIN inputs' : i < j => old[i] < old[j]
    <3>1. \A i \in 1 .. Len(inputs) - 1 : old[i] = Shift(i, min)
      OBVIOUS
    <3> HIDE DEF old
    <3>2. min \in Nat /\ Len(inputs) \in Nat
      BY <1>1, LenProperties
    <3>3. \A i, j \in 1 .. Len(inputs) - 1 : i < j => Shift(i, min) < Shift(j, min)
      BY <3>2 DEF Shift
    <3>4. DOMAIN inputs' = 1 .. Len(inputs) - 1
      BY <2>2
    <3> QED BY <3>1, <3>3, <3>4
  <2> HIDE DEF old
  <2>3. ASSUME NEW i \in DOMAIN inputs'
        PROVE  inputs'[i] # <<>> /\ Ordered(inputs'[i])
    <3>1. old[i] \in DOMAIN inputs /\ inputs'[i] = inputs[old[i]]
      BY <2>2
    <3> QED BY <1>1, <3>1
  <2>4. \E f \in [DOMAIN inputs' -> DOMAIN inputs] :
          /\ \A i, j \in DOMAIN inputs' : i < j => f[i] < f[j]
          /\ \A i \in DOMAIN inputs' : CasesOf(inputs'[i]) \subseteq CasesOf(inputs[f[i]])
    <3>1. old \in [DOMAIN inputs' -> DOMAIN inputs]
      BY <2>2 DEF old
    <3>3. \A i \in DOMAIN inputs' : CasesOf(inputs'[i]) \subseteq CasesOf(inputs[old[i]])
      BY <2>2
    <3> QED BY <2>a, <3>1, <3>3
  <2>5. \A i \in DOMAIN inputs' : \A b \in CasesOf(inputs'[i]) : Before(h, b)
    BY <1>5, <2>2
  <2>6. InInputs = InInputs' \cup {h}
    <3>1. CasesOf(inputs[min]) = {h}
      BY <1>2, <1>4, <1>b
    <3>2. InInputs' \cup {h} \subseteq InInputs
      <4>1. ASSUME NEW i \in DOMAIN inputs', NEW b \in CasesOf(inputs'[i])
            PROVE  b \in InInputs
        <5>1. old[i] \in DOMAIN inputs /\ inputs'[i] = inputs[old[i]]
          BY <2>2
        <5> QED BY <4>1, <5>1 DEF InInputs
      <4>2. h \in InInputs
        BY <3>1 DEF InInputs
      <4> QED BY <4>1, <4>2 DEF InInputs
    <3>3. InInputs \subseteq InInputs' \cup {h}
      BY <2>2, <3>1 DEF InInputs
    <3> QED BY <3>2, <3>3
  <2>7. \A b \in InInputs' : Before(h, b)
    BY <2>5 DEF InInputs
  <2> QED BY <1>2, <2>2, <2>3, <2>4, <2>6, <2>7 DEF h
<1> QED BY <1>a, <1>b

LEMMA MergeCaseStep ==
  ASSUME IInv, MergeCase
  PROVE  IInv'
<1>1. /\ pc = "merging" /\ UNCHANGED <<written, heap, runs, pc, incoming, outgoing, result>>
  BY DEF MergeCase
<1>2. PICK min \in DOMAIN inputs :
        /\ IsLeast(min)
        /\ sink' = Append(sink, Head(inputs[min]))
        /\ inputs' = IF Len(inputs[min]) > 1
                     THEN [inputs EXCEPT ![min] = Tail(@)]
                     ELSE Without(inputs, min)
  BY DEF MergeCase
<1> DEFINE h == Head(inputs[min])
<1>3. /\ inputs' \in Seq(Seq(Case))
      /\ \A i \in DOMAIN inputs' : inputs'[i] # <<>> /\ Ordered(inputs'[i])
      /\ \E old \in [DOMAIN inputs' -> DOMAIN inputs] :
           /\ \A i, j \in DOMAIN inputs' : i < j => old[i] < old[j]
           /\ \A i \in DOMAIN inputs' : CasesOf(inputs'[i]) \subseteq CasesOf(inputs[old[i]])
      /\ \A b \in InInputs' : Before(h, b)
      /\ InInputs = InInputs' \cup {h}
      /\ h \in Case
  BY <1>1, <1>2, TakeFacts
<1>4. sink' = Append(sink, h)
  BY <1>2
<1> HIDE DEF h
<1>5. sink \in Seq(Case) /\ sink # NULL /\ result = NULL /\ Ordered(sink)
  BY <1>1 DEF IInv, Control, TypeOK, RunsOrdered
<1>6. /\ sink' \in Seq(Case) /\ CasesOf(sink') = CasesOf(sink) \cup {h}
      /\ sink' # <<>> /\ sink' # NULL
  BY <1>3, <1>4, <1>5, AppendFacts, NullFacts
<1>7. /\ InSink' = InSink \cup {h} /\ InHeap' = InHeap
      /\ InHand' = InHand /\ InResult' = InResult /\ InRun' = InRun
  BY <1>1, <1>5, <1>6 DEF InSink, InHeap, InHand, InResult, InRun, heap, runs
<1>8. TypeOK'
  BY <1>1, <1>3, <1>6 DEF IInv, TypeOK, heap, runs
<1>9. Control'
  BY <1>1, <1>6 DEF IInv, Control, heap, runs
<1>10. Numbered'
  BY <1>1, <1>3, <1>7 DEF IInv, Numbered, heap, runs
<1>11. Queued'
  <2>1. run_end # NULL
    BY <1>1 DEF IInv, Queued
  <2> QED BY <1>1, <2>1 DEF IInv, Queued, Placed, heap, runs
<1>12. Filled'
  BY <1>1, <1>3, <1>6 DEF Filled
<1>13. Stable'
  <2>1. ASSUME NEW i \in DOMAIN inputs', NEW j \in DOMAIN inputs', i < j,
               NEW a \in CasesOf(inputs'[i]), NEW b \in CasesOf(inputs'[j])
        PROVE  Prior(a, b)
    <3>1. PICK old \in [DOMAIN inputs' -> DOMAIN inputs] :
            /\ \A n, m \in DOMAIN inputs' : n < m => old[n] < old[m]
            /\ \A n \in DOMAIN inputs' : CasesOf(inputs'[n]) \subseteq CasesOf(inputs[old[n]])
      BY <1>3
    <3>2. /\ old[i] \in DOMAIN inputs /\ old[j] \in DOMAIN inputs /\ old[i] < old[j]
          /\ a \in CasesOf(inputs[old[i]]) /\ b \in CasesOf(inputs[old[j]])
      BY <2>1, <3>1
    <3> QED BY <3>2 DEF IInv, Stable
  <2>2. \A a \in InInputs' \cup InSink', b \in InRun' \cup InHeap' \cup InHand' : Prior(a, b)
    BY <1>3, <1>7 DEF IInv, Stable
  <2>3. \A a \in InRun', b \in InHeap' \cup InHand' : Prior(a, b)
    BY <1>7 DEF IInv, Stable
  <2>4. \A a \in InSink', b \in InInputs' : Before(a, b)
    BY <1>3, <1>7 DEF IInv, Stable
  <2> QED BY <2>1, <2>2, <2>3, <2>4 DEF Stable
<1>14. RunsOrdered'
  <2>1. \A a \in CasesOf(sink) : Before(a, h)
    BY <1>3, <1>5 DEF IInv, Stable, InSink
  <2>2. Ordered(sink')
    BY <1>3, <1>4, <1>5, <2>1, AppendOrdered
  <2> QED BY <1>1, <1>3, <2>2 DEF IInv, RunsOrdered, runs
<1>15. NothingLost'
  BY <1>1, <1>3, <1>7 DEF IInv, NothingLost
<1> QED BY <1>8, <1>9, <1>10, <1>11, <1>12, <1>13, <1>14, <1>15 DEF IInv

-----------------------------------------------------------------------------
LEMMA Initially ==
  ASSUME Init
  PROVE  IInv
<1> USE DEF Init
<1>1. TypeOK
  <2>1. written \in Seq(Case) /\ inputs \in Seq(Seq(Case))
    OBVIOUS
  <2> QED BY <2>1 DEF TypeOK
<1>2. /\ InHeap = {} /\ InRun = {} /\ InInputs = {} /\ InSink = {} /\ InHand = {}
      /\ InResult = {} /\ CasesOf(written) = {} /\ Len(written) = 0
      /\ DOMAIN inputs = {} /\ DOMAIN written = {}
  BY DEF InHeap, InRun, InInputs, InSink, InHand, InResult, CasesOf
<1>3. Control /\ Queued
  BY NullFacts DEF Control, Queued
<1>4. Numbered /\ Filled /\ Stable
  BY <1>2 DEF Numbered, Filled, Stable
<1>5. RunsOrdered /\ NothingLost
  BY <1>2 DEF RunsOrdered, NothingLost
<1> QED BY <1>1, <1>3, <1>4, <1>5 DEF IInv

LEMMA StutterStep ==
  ASSUME IInv, UNCHANGED vars
  PROVE  IInv'
<1> USE DEF vars, heap, runs, merge
<1>1. /\ InHeap' = InHeap /\ InRun' = InRun /\ InInputs' = InInputs
      /\ InSink' = InSink /\ InHand' = InHand /\ InResult' = InResult
  BY DEF InHeap, InRun, InInputs, InSink, InHand, InResult
<1>2. TypeOK'
  BY DEF IInv, TypeOK
<1>3. Control'
  BY DEF IInv, Control
<1>4. Numbered'
  BY <1>1 DEF IInv, Numbered
<1>5. Queued'
  BY DEF IInv, Queued, Placed
<1>6. Filled'
  BY DEF IInv, Filled
<1>7. Stable'
  BY <1>1 DEF IInv, Stable
<1>8. RunsOrdered'
  BY DEF IInv, RunsOrdered
<1>9. NothingLost'
  BY <1>1 DEF IInv, NothingLost
<1> QED BY <1>2, <1>3, <1>4, <1>5, <1>6, <1>7, <1>8, <1>9 DEF IInv

LEMMA Inductive == Spec => []IInv
<1>1. Init => IInv
  BY Initially
<1>2. IInv /\ [Next]_vars => IInv'
  <2> SUFFICES ASSUME IInv, [Next]_vars PROVE IInv'
    OBVIOUS
  <2>1. CASE \E key \in Keys : Write(key)
    BY <2>1, WriteStep
  <2>2. CASE ConvertToReader
    BY <2>2, ConvertToReaderStep
  <2>3. CASE Proceed
    BY <2>3, PushStep, OutputRecordStep, EmitStep, LastRunStep, MakeReaderStep,
       StartMergeStep, MergeCaseStep, EndMergeStep DEF Proceed
  <2>4. CASE UNCHANGED vars
    BY <2>4, StutterStep
  <2> QED BY <2>1, <2>2, <2>3, <2>4 DEF Next
<1> QED BY <1>1, <1>2, PTL DEF Spec

(* Every run that replacement selection or a merge makes is sorted, equal  *)
(* keys in order of arrival.                                               *)
THEOREM Runs == Spec => []RunsOrdered
<1>1. IInv => RunsOrdered
  BY DEF IInv
<1> QED BY <1>1, Inductive, PTL

(* Every case written is in the heap, in a run, in a merge or on its way   *)
(* between them, and nothing else is.                                      *)
THEOREM Kept == Spec => []NothingLost
<1>1. IInv => NothingLost
  BY DEF IInv
<1> QED BY <1>1, Inductive, PTL

(* The reader that sort_casewriter_convert_to_reader returns holds the     *)
(* cases written and no others, sorted, equal keys in order of arrival.    *)
StablySorted ==
  result # NULL => Ordered(result) /\ CasesOf(result) = CasesOf(written)

THEOREM Result == Spec => []StablySorted
<1>1. IInv => StablySorted
  <2> SUFFICES ASSUME IInv, result # NULL
               PROVE  Ordered(result) /\ CasesOf(result) = CasesOf(written)
    BY DEF StablySorted
  <2>1. /\ pc = "done" /\ inputs = <<>> /\ sink = NULL /\ outgoing = NULL
        /\ incoming = NULL /\ run = NULL /\ pqueue = {}
    BY DEF IInv, Control
  <2>2. InHeap = {} /\ InRun = {} /\ InInputs = {} /\ InSink = {} /\ InHand = {}
    BY <2>1 DEF InHeap, InRun, InInputs, InSink, InHand
  <2>3. InResult = CasesOf(result) /\ Ordered(result)
    BY DEF IInv, RunsOrdered, InResult
  <2> QED BY <2>2, <2>3 DEF IInv, NothingLost
<1> QED BY <1>1, Inductive, PTL

-----------------------------------------------------------------------------
(* The writer implements StableSort, where the n-th case is the one that n *)
(* cases are not after.                                                    *)
LEMMA LenDomain ==
  ASSUME NEW s, NEW n \in Nat, DOMAIN s = 1 .. n
  PROVE  Len(s) = n
OBVIOUS

(* The first k cases are k cases when no two are the same.                 *)
LEMMA CountFirst ==
  ASSUME NEW s \in Seq(Case), NEW k \in 0 .. Len(s),
         \A i, j \in DOMAIN s : s[i] = s[j] => i = j
  PROVE  Cardinality({s[i] : i \in 1 .. k}) = k
<1> DEFINE T == {s[i] : i \in 1 .. k}
           f == [i \in 1 .. k |-> s[i]]
<1>1. 1 .. k \subseteq DOMAIN s /\ k \in Nat
  BY LenProperties
<1>2. f \in [1 .. k -> T]
  OBVIOUS
<1>3. \A i, j \in 1 .. k : f[i] = f[j] => i = j
  BY <1>1
<1>4. \A t \in T : \E i \in 1 .. k : f[i] = t
  OBVIOUS
<1> HIDE DEF T, f
<1>5. f \in Bijection(1 .. k, T)
  BY <1>2, <1>3, <1>4 DEF Bijection, Injection, Surjection, IsInjective
<1>6. ExistsBijection(1 .. k, T)
  BY <1>5 DEF ExistsBijection
<1>7. Cardinality(T) = k
  BY <1>1, <1>6, FS_CountingElements
<1> QED
  BY <1>7 DEF T

LEMMA CountAll ==
  ASSUME NEW s \in Seq(Case), \A i, j \in DOMAIN s : s[i] = s[j] => i = j
  PROVE  Cardinality(CasesOf(s)) = Len(s)
<1>1. DOMAIN s = 1 .. Len(s) /\ Len(s) \in 0 .. Len(s)
  BY LenProperties
<1>2. CasesOf(s) = {s[i] : i \in 1 .. Len(s)}
  BY <1>1 DEF CasesOf
<1> QED
  BY <1>1, <1>2, CountFirst

(* Sorted sequences of one set of cases are the same sequence: a case is   *)
(* at the place that the number of cases not after it says.                *)
LEMMA SortedUnique ==
  ASSUME NEW s \in Seq(Case), NEW w \in Seq(Case),
         Ordered(s), CasesOf(s) = CasesOf(w),
         \A i \in DOMAIN w : w[i].seq = i
  PROVE  s = Sort!Sorted(w)
<1> DEFINE all == {w[i] : i \in DOMAIN w}
           upto(c) == {d \in all : ~ Before(c, d)}
<1>1. /\ \A i \in DOMAIN s : s[i] \in Case
      /\ DOMAIN s = 1 .. Len(s) /\ DOMAIN w = 1 .. Len(w)
      /\ Len(s) \in Nat /\ Len(w) \in Nat
  BY LenProperties
<1>2. ASSUME NEW a \in Case, NEW b \in Case, Before(a, b)
      PROVE  ~ Before(b, a) /\ a # b
  <2>1. {a.key, b.key} \subseteq Int /\ {a.seq, b.seq} \subseteq Nat
    BY SortAssumption DEF Case
  <2> QED
    BY <1>2, <2>1 DEF Before
<1>3. \A i, j \in DOMAIN s : s[i] = s[j] => i = j
  <2> SUFFICES ASSUME NEW i \in DOMAIN s, NEW j \in DOMAIN s, s[i] = s[j], i # j
               PROVE  FALSE
    OBVIOUS
  <2>1. i < j \/ j < i
    BY <1>1
  <2>2. Before(s[i], s[j]) \/ Before(s[j], s[i])
    BY <2>1 DEF Ordered
  <2> QED
    BY <1>1, <1>2, <2>2
<1>4. \A i, j \in DOMAIN w : w[i] = w[j] => i = j
  OBVIOUS
<1>5. Len(s) = Len(w)
  BY <1>3, <1>4, CountAll
<1>6. all = CasesOf(w) /\ all = {s[i] : i \in DOMAIN s}
  BY DEF CasesOf
<1> HIDE DEF all
<1>7. ASSUME NEW n \in DOMAIN s PROVE Cardinality(upto(s[n])) = n
  <2>1. ASSUME NEW j \in DOMAIN s PROVE j \in 1 .. n <=> ~ Before(s[n], s[j])
    <3>1. CASE j < n
      <4>1. Before(s[j], s[n])
        BY <3>1 DEF Ordered
      <4> QED
        BY <1>1, <1>2, <3>1, <4>1
    <3>2. CASE j = n
      BY <1>1, <1>2, <3>2
    <3>3. CASE n < j
      <4>1. Before(s[n], s[j])
        BY <3>3 DEF Ordered
      <4> QED
        BY <1>1, <3>3, <4>1
    <3> QED
      BY <1>1, <3>1, <3>2, <3>3
  <2>2. 1 .. n \subseteq DOMAIN s /\ n \in 0 .. Len(s)
    BY <1>1
  <2>3. upto(s[n]) = {s[i] : i \in 1 .. n}
    BY <1>6, <2>1, <2>2
  <2> QED
    BY <1>3, <2>2, <2>3, CountFirst
<1>8. ASSUME NEW n \in DOMAIN s
      PROVE  (CHOOSE c \in all : Cardinality(upto(c)) = n) = s[n]
  <2>1. s[n] \in all /\ Cardinality(upto(s[n])) = n
    BY <1>6, <1>7
  <2>2. ASSUME NEW c \in all, Cardinality(upto(c)) = n PROVE c = s[n]
    <3>1. PICK m \in DOMAIN s : c = s[m]
      BY <1>6
    <3>2. m = n
      BY <1>7, <2>2, <3>1
    <3> QED
      BY <3>1, <3>2
  <2> HIDE DEF upto
  <2> QED
    BY <2>1, <2>2
<1>9. Sort!Sorted(w) = [n \in DOMAIN w |-> CHOOSE c \in all : Cardinality(upto(c)) = n]
  <2>1. \A T : Sort!Cardinality(T) = Cardinality(T)
    BY Zenon DEF Sort!Cardinality, Cardinality
  <2>2. Sort!Sorted(w) = [n \in DOMAIN w |-> CHOOSE c \in all : Sort!Cardinality(upto(c)) = n]
    BY Zenon DEF Sort!Sorted, Sort!Before, Before, all
  <2> HIDE DEF upto, all
  <2> QED
    BY <2>1, <2>2, Zenon
<1>10. s = [n \in DOMAIN s |-> s[n]]
  BY LenProperties
<1> HIDE DEF upto
<1> QED
  BY <1>1, <1>5, <1>8, <1>9, <1>10

-----------------------------------------------------------------------------
LEMMA InitSort ==
  ASSUME Init
  PROVE  Sort!Init
BY DEF Init, Sort!Init

(* Only sort_casewriter_write and merge_make_reader, when a single run is  *)
(* left, are steps of StableSort.                                          *)
LEMMA NextSort ==
  ASSUME IInv, IInv', StablySorted', [Next]_vars
  PROVE  [Sort!Next]_Sort!vars
<1>1. ASSUME NEW key \in Keys, Write(key) PROVE Sort!Next
  <2>1. result = NULL
    BY <1>1 DEF IInv, Control, Write
  <2>2. Sort!Write(key)
    BY <1>1, <2>1 DEF Write, Sort!Write
  <2> QED
    BY <2>2 DEF Sort!Next
<1>2. CASE MakeReader
  <2>1. pc = "result" /\ result = NULL /\ written' = written
    BY <1>2 DEF IInv, Control, MakeReader
  <2>2. CASE Len(inputs) > 1 /\ UNCHANGED result
    BY <2>1, <2>2 DEF Sort!vars
  <2>3. CASE pc' = "done"
    <3>1. result' # NULL
      BY <2>3 DEF IInv, Control
    <3>2. /\ Ordered(result') /\ CasesOf(result') = CasesOf(written')
          /\ result' \in Seq(Case) /\ written' \in Seq(Case)
          /\ \A i \in DOMAIN written' : written'[i].seq = i
      BY <3>1 DEF StablySorted, IInv, TypeOK, Numbered
    <3>3. result' = Sort!Sorted(written)
      BY <2>1, <3>2, SortedUnique
    <3>4. Sort!MakeReader
      BY <2>1, <3>3 DEF Sort!MakeReader
    <3> QED
      BY <3>4 DEF Sort!Next
  <2> QED
    BY <1>2, <2>2, <2>3 DEF MakeReader
<1>3. CASE ConvertToReader
  BY <1>3 DEF ConvertToReader, Sort!vars
<1>4. CASE Push \/ OutputRecord \/ Emit \/ LastRun
  BY <1>4 DEF Push, OutputRecord, Emit, LastRun, Sort!vars
<1>5. CASE StartMerge \/ MergeCase \/ EndMerge
  BY <1>5 DEF StartMerge, MergeCase, EndMerge, Sort!vars
<1>6. CASE UNCHANGED vars
  BY <1>6 DEF vars, Sort!vars
<1> QED
  BY <1>1, <1>2, <1>3, <1>4, <1>5, <1>6 DEF Next, Proceed

(* Whatever the keys, the memory, the number of cases and the order of the *)
(* merges, the sorting casewriter of sort.c does what StableSort says.     *)
THEOREM Implements == Spec => IsStableSort
<1>1. Init => Sort!Init
  BY InitSort
<1>2. IInv /\ IInv' /\ StablySorted' /\ [Next]_vars => [Sort!Next]_Sort!vars
  BY NextSort
<1> QED
  BY <1>1, <1>2, Inductive, Result, PTL DEF Spec, IsStableSort, Sort!Spec

-----------------------------------------------------------------------------
(* Outside the merge there is room for one more run, and with a record     *)
(* popped there is room for the case that waits.                           *)
BoundsInv ==
  /\ IsFiniteSet(pqueue)
  /\ WithinBounds
  /\ pc \notin {"merge", "merging"} => Len(inputs) < MAX_MERGE_ORDER
  /\ outgoing # NULL => Cardinality(pqueue) < max_records

(* The step of merge_append.                                               *)
LEMMA AppendRoom ==
  ASSUME IInv, BoundsInv, pc \notin {"merge", "merging"},
         NEW reader \in Seq(Case), NEW next, merge_append(reader, next)
  PROVE  /\ Len(inputs') <= MAX_MERGE_ORDER
         /\ pc' \notin {"merge", "merging"} => Len(inputs') < MAX_MERGE_ORDER
         /\ pc' \in {"merge", next}
<1>1. inputs \in Seq(Seq(Case)) /\ Len(inputs) \in Nat /\ Len(inputs) < MAX_MERGE_ORDER
  BY LenProperties DEF IInv, TypeOK, BoundsInv
<1>2. Len(inputs') = Len(inputs) + 1
  BY <1>1, AppendProperties DEF merge_append
<1> QED
  BY <1>1, <1>2, SortAssumption DEF merge_append

(* The step of pqueue_push, with room.                                     *)
LEMMA PushRoom ==
  ASSUME IInv, BoundsInv, Cardinality(pqueue) < max_records, NEW c, pqueue_push(c)
  PROVE  IsFiniteSet(pqueue') /\ Cardinality(pqueue') <= max_records'
<1>1. PICK r : pqueue' = pqueue \cup {r}
  BY DEF pqueue_push
<1>2. /\ IsFiniteSet(pqueue') /\ Cardinality(pqueue) \in Nat
      /\ Cardinality(pqueue') \in {Cardinality(pqueue), Cardinality(pqueue) + 1}
  BY <1>1, FS_AddElement, FS_CardinalityType DEF BoundsInv
<1>3. max_records \in Nat /\ max_records' = max_records
  BY SortAssumption DEF IInv, TypeOK, pqueue_push
<1> QED
  BY <1>2, <1>3

LEMMA InitBounds ==
  ASSUME Init
  PROVE  BoundsInv
<1>1. IsFiniteSet({}) /\ Cardinality({}) = 0
  BY FS_EmptySet
<1>2. Len(inputs) = 0 /\ max_records \in Nat \ {0} /\ 0 <= MAX_MERGE_ORDER /\ 0 < MAX_MERGE_ORDER
  BY SortAssumption DEF Init
<1> QED
  BY <1>1, <1>2 DEF Init, BoundsInv, WithinBounds

LEMMA NextBounds ==
  ASSUME IInv, BoundsInv, [Next]_vars
  PROVE  BoundsInv'
<1> USE DEF heap, runs, merge
<1>1. /\ inputs \in Seq(Seq(Case)) /\ Len(inputs) \in Nat /\ max_records \in Nat \ {0}
      /\ MAX_MERGE_ORDER \in Nat /\ MAX_MERGE_ORDER > 1
      /\ IsFiniteSet(pqueue) /\ Cardinality(pqueue) \in Nat
  BY SortAssumption, LenProperties, FS_CardinalityType DEF IInv, TypeOK, BoundsInv
<1>2. /\ Len(inputs) <= MAX_MERGE_ORDER /\ Cardinality(pqueue) <= max_records
      /\ pc = "push" => Cardinality(pqueue) < max_records
      /\ pc \notin {"merge", "merging"} => Len(inputs) < MAX_MERGE_ORDER
      /\ outgoing # NULL => Cardinality(pqueue) < max_records
  BY DEF BoundsInv, WithinBounds
<1>3. ASSUME NEW key \in Keys, Write(key) PROVE BoundsInv'
  <2>1. /\ pc = "open" /\ pc' \in {"open", "output"} /\ outgoing = NULL
        /\ UNCHANGED <<inputs, outgoing>>
    BY <1>3 DEF Write, IInv, Control
  <2>2. IsFiniteSet(pqueue') /\ Cardinality(pqueue') <= max_records'
    <3>1. CASE UNCHANGED heap
      BY <1>1, <1>2, <3>1
    <3>2. CASE ~ pqueue_is_full /\ \E c : pqueue_push(c)
      <4>1. Cardinality(pqueue) < max_records
        BY <1>1, <3>2 DEF pqueue_is_full
      <4> QED
        BY <3>2, <4>1, PushRoom
    <3> QED
      BY <1>3, <3>1, <3>2 DEF Write
  <2> QED
    BY <1>2, <2>1, <2>2 DEF BoundsInv, WithinBounds
<1>4. CASE ConvertToReader
  <2>1. pc' = "output" /\ pc = "open" /\ UNCHANGED <<heap, merge, outgoing>>
    BY <1>4 DEF ConvertToReader
  <2> QED
    BY <1>1, <1>2, <2>1 DEF BoundsInv, WithinBounds
<1>5. CASE Push
  <2>1. pc = "push" /\ pc' = "open" /\ pqueue_push(incoming) /\ outgoing = NULL
        /\ UNCHANGED <<merge, outgoing>>
    BY <1>5 DEF Push, IInv, Control
  <2>2. IsFiniteSet(pqueue') /\ Cardinality(pqueue') <= max_records'
    BY <1>2, <2>1, PushRoom
  <2> QED
    BY <1>2, <2>1, <2>2 DEF BoundsInv, WithinBounds
<1>6. CASE OutputRecord
  <2>1. PICK r \in pqueue : pqueue' = pqueue \ {r}
    BY <1>6 DEF OutputRecord
  <2>2. /\ IsFiniteSet(pqueue')
        /\ Cardinality(pqueue') = Cardinality(pqueue) - 1
    BY <1>1, <2>1, FS_RemoveElement
  <2>3. pc = "output" /\ max_records' = max_records
    BY <1>6 DEF OutputRecord
  <2>4. /\ Len(inputs') <= MAX_MERGE_ORDER
        /\ pc' \notin {"merge", "merging"} => Len(inputs') < MAX_MERGE_ORDER
        /\ pc' \in {"merge", "emit"}
    <3>1. CASE run # NULL /\ merge_append(run, "emit")
      <4>1. run \in Seq(Case)
        BY <3>1 DEF IInv, TypeOK
      <4> QED
        BY <2>3, <3>1, <4>1, AppendRoom
    <3>2. CASE pc' = "emit" /\ UNCHANGED merge
      BY <1>2, <2>3, <3>2
    <3> QED
      BY <1>6, <3>1, <3>2 DEF OutputRecord
  <2> QED
    BY <1>1, <1>2, <2>2, <2>3, <2>4 DEF BoundsInv, WithinBounds
<1>7. CASE Emit
  <2>1. /\ pc = "emit" /\ pc' \in {"push", "output"} /\ outgoing # NULL /\ outgoing' = NULL
        /\ UNCHANGED <<heap, merge>>
    BY <1>7 DEF Emit, IInv, Control
  <2> QED
    BY <1>1, <1>2, <2>1 DEF BoundsInv, WithinBounds
<1>8. CASE LastRun
  <2>1. /\ pc = "output" /\ outgoing = NULL /\ run # NULL /\ merge_append(run, "result")
        /\ UNCHANGED <<heap, outgoing>>
    BY <1>8 DEF LastRun, IInv, Control
  <2>2. run \in Seq(Case)
    BY <2>1 DEF IInv, TypeOK
  <2>3. /\ Len(inputs') <= MAX_MERGE_ORDER
        /\ pc' \notin {"merge", "merging"} => Len(inputs') < MAX_MERGE_ORDER
        /\ pc' \in {"merge", "result"}
    BY <2>1, <2>2, AppendRoom
  <2> QED
    BY <1>1, <1>2, <2>1, <2>3 DEF BoundsInv, WithinBounds
<1>9. CASE MakeReader
  <2>1. /\ pc = "result" /\ UNCHANGED <<heap, outgoing>>
        /\ \/ pc' = "merge" /\ UNCHANGED inputs
           \/ pc' = "done" /\ inputs' = <<>>
    BY <1>9 DEF MakeReader
  <2>2. Len(<<>>) = 0
    OBVIOUS
  <2> QED
    BY <1>1, <1>2, <2>1, <2>2 DEF BoundsInv, WithinBounds
<1>10. CASE StartMerge
  <2>1. pc' = "merging" /\ UNCHANGED <<heap, inputs, outgoing>>
    BY <1>10 DEF StartMerge
  <2> QED
    BY <1>1, <1>2, <2>1 DEF BoundsInv, WithinBounds
<1>11. CASE MergeCase
  <2>1. pc = "merging" /\ UNCHANGED <<heap, pc, outgoing>>
    BY <1>11 DEF MergeCase
  <2>2. Len(inputs') <= Len(inputs) /\ Len(inputs') \in Nat
    <3>1. PICK min \in DOMAIN inputs :
            inputs' = IF Len(inputs[min]) > 1 THEN [inputs EXCEPT ![min] = Tail(@)]
                      ELSE Without(inputs, min)
      BY <1>11 DEF MergeCase
    <3>2. DOMAIN inputs = 1 .. Len(inputs) /\ Len(inputs) > 0
      BY <1>1, <3>1, LenProperties
    <3>3. CASE inputs' = [inputs EXCEPT ![min] = Tail(@)]
      <4>1. DOMAIN inputs' = 1 .. Len(inputs)
        BY <3>2, <3>3
      <4>2. Len(inputs') = Len(inputs)
        BY <1>1, <4>1, LenDomain
      <4> QED
        BY <1>1, <4>2
    <3>4. CASE inputs' = Without(inputs, min)
      <4>1. DOMAIN inputs' = 1 .. Len(inputs) - 1
        BY <3>4 DEF Without
      <4>2. Len(inputs') = Len(inputs) - 1
        <5>1. Len(inputs) - 1 \in Nat
          BY <1>1, <3>2
        <5> QED
          BY <4>1, <5>1, LenDomain
      <4> QED
        BY <1>1, <3>2, <4>2
    <3> QED
      BY <3>1, <3>3, <3>4
  <2> QED
    BY <1>1, <1>2, <2>1, <2>2 DEF BoundsInv, WithinBounds
<1>12. CASE EndMerge
  <2>1. /\ pc' \in {"emit", "result"} /\ inputs' = <<sink>>
        /\ UNCHANGED <<heap, outgoing>>
    BY <1>12 DEF EndMerge
  <2>2. Len(<<sink>>) = 1
    OBVIOUS
  <2> QED
    BY <1>1, <1>2, <2>1, <2>2 DEF BoundsInv, WithinBounds
<1>13. CASE UNCHANGED vars
  BY <1>13 DEF BoundsInv, WithinBounds, vars
<1> QED
  BY <1>3, <1>4, <1>5, <1>6, <1>7, <1>8, <1>9, <1>10, <1>11, <1>12, <1>13 DEF Next, Proceed

(* merge_append never writes past the end of the array of inputs, nor      *)
(* pqueue_push past the end of the heap.                                   *)
THEOREM Bounded == Spec => []WithinBounds
<1>1. Init => IInv /\ BoundsInv
  BY Initially, InitBounds
<1>2. IInv /\ BoundsInv /\ [Next]_vars => BoundsInv'
  BY NextBounds
<1>3. BoundsInv => WithinBounds
  BY DEF BoundsInv
<1> QED
  BY <1>1, <1>2, <1>3, Inductive, PTL DEF Spec

-----------------------------------------------------------------------------
(* The records that wait for the run of that number.                       *)
ForRun(q, id) == {r \in q : r.id = id}

(* Enough cases for a run: in it, and in the heap for it.                  *)
LongRun(n) == Len(run) + Cardinality(ForRun(pqueue, run_id)) + n >= max_records

Arriving == pc = "open" \/ incoming # NULL

(* While cases arrive, the run being written and what the heap has for it  *)
(* are as many cases as memory holds, and what is merged is even longer.   *)
LongInv ==
  /\ Arriving /\ pc # "merging" =>
       \A i \in DOMAIN inputs : Len(inputs[i]) >= max_records
  /\ incoming # NULL /\ pc = "merging" =>
       \/ Len(sink) >= max_records
       \/ \E i \in DOMAIN inputs : Len(sink) + Len(inputs[i]) >= max_records
  /\ Arriving /\ outgoing = NULL /\ run # NULL => LongRun(0)
  /\ incoming # NULL /\ outgoing # NULL =>
       /\ run # NULL => LongRun(1)
       /\ Cardinality(pqueue) + 1 >= max_records
  /\ incoming # NULL /\ pc = "output" => Cardinality(pqueue) >= max_records

(* A heap that only grows, for the same run, has as many records for it.   *)
LEMMA GrowingHeap ==
  ASSUME BoundsInv, NEW q, IsFiniteSet(q), pqueue \subseteq q
  PROVE  /\ Cardinality(ForRun(pqueue, run_id)) \in Nat
         /\ Cardinality(ForRun(q, run_id)) \in Nat
         /\ Cardinality(ForRun(pqueue, run_id)) <= Cardinality(ForRun(q, run_id))
<1>1. /\ ForRun(q, run_id) \subseteq q
      /\ ForRun(pqueue, run_id) \subseteq ForRun(q, run_id)
  BY DEF ForRun
<1>2. IsFiniteSet(ForRun(q, run_id))
  BY <1>1, FS_Subset
<1> QED
  BY <1>1, <1>2, FS_Subset, FS_CardinalityType

(* pqueue_push takes no record from the run being written.                 *)
LEMMA PushKeepsLong ==
  ASSUME IInv, BoundsInv, NEW c, pqueue_push(c), IsFiniteSet(pqueue'),
         run # NULL, LongRun(0), UNCHANGED <<run, run_id>>
  PROVE  LongRun(0)'
<1>1. pqueue \subseteq pqueue' /\ max_records' = max_records
  BY DEF pqueue_push
<1>2. /\ Cardinality(ForRun(pqueue, run_id)) \in Nat
      /\ Cardinality(ForRun(pqueue', run_id)) \in Nat
      /\ Cardinality(ForRun(pqueue, run_id)) <= Cardinality(ForRun(pqueue', run_id))
  BY <1>1, GrowingHeap
<1>3. Len(run) \in Nat /\ max_records \in Nat
  BY SortAssumption, LenProperties DEF IInv, TypeOK
<1> QED
  BY <1>1, <1>2, <1>3 DEF LongRun

LEMMA InitLong ==
  ASSUME Init
  PROVE  LongInv
BY DEF Init, LongInv

LEMMA WriteLong ==
  ASSUME IInv, BoundsInv, BoundsInv', LongInv, NEW key \in Keys, Write(key)
  PROVE  LongInv'
<1> USE DEF heap, runs, merge
<1>1. /\ pc = "open" /\ pc' \in {"open", "output"} /\ outgoing = NULL
      /\ UNCHANGED <<runs, merge, outgoing>>
  BY DEF Write, IInv, Control
<1>2. \A i \in DOMAIN inputs' : Len(inputs'[i]) >= max_records'
  BY <1>1 DEF Write, pqueue_push, LongInv, Arriving
<1>3. run' # NULL => LongRun(0)'
  <2>1. ASSUME run # NULL PROVE LongRun(0)'
    <3>1. LongRun(0)
      BY <1>1, <2>1 DEF LongInv, Arriving
    <3>2. CASE UNCHANGED heap
      BY <1>1, <3>1, <3>2 DEF LongRun, ForRun
    <3>3. CASE \E c : pqueue_push(c)
      BY <1>1, <2>1, <3>1, <3>3, PushKeepsLong DEF BoundsInv
    <3> QED
      BY <3>2, <3>3 DEF Write
  <2> QED
    BY <1>1, <2>1
<1>4. pc' = "output" => Cardinality(pqueue') >= max_records'
  BY <1>1 DEF Write, pqueue_is_full
<1> QED
  BY <1>1, <1>2, <1>3, <1>4 DEF LongInv

LEMMA PushLong ==
  ASSUME IInv, BoundsInv, BoundsInv', LongInv, Push
  PROVE  LongInv'
<1> USE DEF heap, runs, merge
<1>1. /\ pc = "push" /\ pc' = "open" /\ pqueue_push(incoming)
      /\ incoming # NULL /\ outgoing = NULL /\ incoming' = NULL
      /\ UNCHANGED <<runs, merge, outgoing, max_records>>
  BY DEF Push, pqueue_push, IInv, Control
<1>2. run' # NULL => LongRun(0)'
  BY <1>1, PushKeepsLong DEF LongInv, Arriving, BoundsInv
<1> QED
  BY <1>1, <1>2 DEF LongInv, Arriving

(* When the least record in the heap is not for the run being written, the *)
(* heap has none for it.                                                   *)
LEMMA RunIsOver ==
  ASSUME IInv, NEW r \in pqueue, \A s \in pqueue \ {r} : Precedes(r, s)
  PROVE  /\ r.id # run_id => ForRun(pqueue, run_id) = {} /\ r.id = run_id + 1
         /\ r.id \in {run_id, run_id + 1}
<1>1. run_id \in Nat /\ \A s \in pqueue : s.id \in {run_id, run_id + 1}
  BY DEF IInv, TypeOK, Queued, Placed
<1>2. ASSUME r.id # run_id, NEW s \in pqueue PROVE s.id # run_id
  <2>1. CASE s = r
    BY <1>2, <2>1
  <2>2. CASE s # r
    <3>1. r.id <= s.id
      BY <1>1, <2>2 DEF Precedes
    <3> QED
      BY <1>1, <1>2, <3>1
  <2> QED
    BY <2>1, <2>2
<1> QED
  BY <1>1, <1>2 DEF ForRun

LEMMA OutputRecordLong ==
  ASSUME IInv, BoundsInv, BoundsInv', LongInv, OutputRecord
  PROVE  LongInv'
<1> USE DEF heap, runs, merge
<1>1. PICK r \in pqueue :
        /\ \A s \in pqueue \ {r} : Precedes(r, s)
        /\ outgoing' = r /\ pqueue' = pqueue \ {r}
        /\ \/ /\ run_id # r.id /\ run # NULL
              /\ merge_append(run, "emit")
              /\ run' = NULL
           \/ /\ ~ (run_id # r.id /\ run # NULL)
              /\ pc' = "emit"
              /\ UNCHANGED <<inputs, sink, run>>
  BY DEF OutputRecord
<1>2. /\ pc = "output" /\ UNCHANGED <<max_records, run_id, incoming>>
      /\ outgoing = NULL /\ r # NULL
  BY <1>1, NullFacts DEF OutputRecord, IInv, Control, TypeOK
<1>3. CASE incoming = NULL
  <2>1. pc' \in {"merge", "emit"}
    BY <1>1 DEF merge_append
  <2> QED
    BY <1>2, <1>3, <2>1 DEF LongInv, Arriving
<1>4. CASE incoming # NULL
  <2>1. /\ Cardinality(pqueue) \in Nat /\ max_records \in Nat /\ Len(inputs) \in Nat
        /\ inputs \in Seq(Seq(Case))
        /\ IsFiniteSet(pqueue) /\ run_id \in Nat /\ run \in Seq(Case) \cup {NULL}
    BY SortAssumption, FS_CardinalityType, LenProperties DEF IInv, TypeOK, BoundsInv
  <2>2. Cardinality(pqueue') + 1 >= max_records'
    <3>1. Cardinality(pqueue') = Cardinality(pqueue) - 1
      BY <1>1, <2>1, FS_RemoveElement
    <3>2. Cardinality(pqueue) >= max_records
      BY <1>2, <1>4 DEF LongInv
    <3> QED
      BY <1>2, <2>1, <3>1, <3>2
  <2>3. \A i \in DOMAIN inputs : Len(inputs[i]) >= max_records
    BY <1>2, <1>4 DEF LongInv, Arriving
  <2>4. run # NULL => LongRun(0)
    BY <1>2, <1>4 DEF LongInv, Arriving
  <2>5. CASE run_id # r.id /\ run # NULL /\ merge_append(run, "emit") /\ run' = NULL
    <3>1. ForRun(pqueue, run_id) = {}
      BY <1>1, <2>5, RunIsOver
    <3>2. Cardinality({}) = 0
      BY FS_EmptySet
    <3>3. Len(run) >= max_records
      <4>1. Len(run) \in Nat
        BY <2>1, <2>5, LenProperties
      <4> QED
        BY <2>1, <2>4, <2>5, <3>1, <3>2, <4>1 DEF LongRun
    <3>4. inputs' = Append(inputs, run) /\ pc' \in {"merge", "emit"} /\ sink' = sink
      BY <2>5 DEF merge_append
    <3>5. \A i \in DOMAIN inputs' : Len(inputs'[i]) >= max_records'
      <4>1. /\ DOMAIN inputs = 1 .. Len(inputs)
            /\ DOMAIN Append(inputs, run) = 1 .. Len(inputs) + 1
            /\ \A i \in 1 .. Len(inputs) : Append(inputs, run)[i] = inputs[i]
            /\ Append(inputs, run)[Len(inputs) + 1] = run
        BY <2>1, <2>5, AppendProperties, LenProperties
      <4>2. ASSUME NEW i \in 1 .. Len(inputs) + 1
            PROVE  Len(Append(inputs, run)[i]) >= max_records
        <5>1. CASE i \in 1 .. Len(inputs)
          BY <2>3, <4>1, <5>1
        <5>2. CASE i = Len(inputs) + 1
          BY <3>3, <4>1, <5>2
        <5> QED
          BY <2>1, <5>1, <5>2
      <4> QED
        BY <1>2, <3>4, <4>1, <4>2
    <3> QED
      BY <1>1, <1>2, <2>2, <2>5, <3>4, <3>5 DEF LongInv
  <2>6. CASE ~ (run_id # r.id /\ run # NULL) /\ pc' = "emit" /\ UNCHANGED <<inputs, sink, run>>
    <3>1. run' # NULL => LongRun(1)'
      <4>1. ASSUME run # NULL PROVE LongRun(1)'
        <5>1. r.id = run_id /\ Len(run) \in Nat
          BY <2>1, <2>6, <4>1, LenProperties
        <5>2. /\ r \in ForRun(pqueue, run_id)
              /\ ForRun(pqueue', run_id) = ForRun(pqueue, run_id) \ {r}
          BY <1>1, <5>1 DEF ForRun
        <5>3. IsFiniteSet(ForRun(pqueue, run_id))
          <6>1. ForRun(pqueue, run_id) \subseteq pqueue
            BY DEF ForRun
          <6> QED
            BY <2>1, <6>1, FS_Subset
        <5>4. /\ Cardinality(ForRun(pqueue', run_id)) = Cardinality(ForRun(pqueue, run_id)) - 1
              /\ Cardinality(ForRun(pqueue, run_id)) \in Nat
          BY <5>2, <5>3, FS_RemoveElement, FS_CardinalityType
        <5> QED
          BY <1>2, <2>1, <2>4, <2>6, <4>1, <5>1, <5>4 DEF LongRun
      <4> QED
        BY <2>6, <4>1
    <3> QED
      BY <1>1, <1>2, <2>2, <2>3, <2>6, <3>1 DEF LongInv
  <2> QED
    BY <1>1, <2>5, <2>6
<1> QED
  BY <1>3, <1>4

LEMMA EmitLong ==
  ASSUME IInv, BoundsInv, LongInv, Emit
  PROVE  LongInv'
<1> USE DEF heap, runs, merge
<1>1. /\ pc = "emit" /\ pc' \in {"push", "output"} /\ outgoing # NULL /\ outgoing' = NULL
      /\ incoming # NULL => pc' = "push"
      /\ UNCHANGED <<heap, merge, incoming>>
      /\ \/ run = NULL /\ run' = <<outgoing.c>> /\ run_id' = outgoing.id
         \/ run # NULL /\ run' = Append(run, outgoing.c) /\ run_id' = run_id
  BY DEF Emit, IInv, Control
<1>2. CASE incoming = NULL
  BY <1>1, <1>2 DEF LongInv, Arriving
<1>3. CASE incoming # NULL
  <2>1. /\ Cardinality(pqueue) \in Nat /\ max_records \in Nat /\ IsFiniteSet(pqueue)
        /\ run_id \in Nat /\ outgoing \in Record /\ outgoing.c \in Case
        /\ Cardinality(ForRun(pqueue, run_id)) \in Nat
    <3>1. IsFiniteSet(pqueue) /\ outgoing \in Record
      BY <1>1 DEF IInv, TypeOK, BoundsInv
    <3> QED
      BY <3>1, SortAssumption, FS_CardinalityType, GrowingHeap DEF IInv, TypeOK, Record
  <2>2. Cardinality(pqueue) + 1 >= max_records /\ (run # NULL => LongRun(1))
    BY <1>1, <1>3 DEF LongInv
  <2>3. LongRun(0)'
    <3>1. CASE run = NULL
      <4>1. outgoing.id = run_id + 1 /\ \A r \in pqueue : Placed(r) /\ Precedes(outgoing, r)
        BY <1>1, <3>1 DEF IInv, Queued
      <4>2. ASSUME NEW r \in pqueue PROVE r.id = outgoing.id
        <5>1. r.id \in {run_id, run_id + 1} /\ outgoing.id <= r.id
          BY <2>1, <4>1 DEF Placed, Precedes
        <5> QED
          BY <2>1, <4>1, <5>1
      <4>3. ForRun(pqueue', run_id') = pqueue /\ Len(run') = 1
        BY <1>1, <3>1, <4>2 DEF ForRun
      <4> QED
        BY <1>1, <2>1, <2>2, <4>3 DEF LongRun
    <3>2. CASE run # NULL
      <4>1. run \in Seq(Case) /\ Len(run) \in Nat
        BY <3>2, LenProperties DEF IInv, TypeOK
      <4>2. Len(run') = Len(run) + 1
        BY <1>1, <2>1, <3>2, <4>1, AppendProperties
      <4>3. ForRun(pqueue', run_id') = ForRun(pqueue, run_id) /\ max_records' = max_records
        BY <1>1, <3>2
      <4> QED
        BY <2>1, <2>2, <3>2, <4>1, <4>2, <4>3 DEF LongRun
    <3> QED
      BY <3>1, <3>2
  <2> QED
    BY <1>1, <1>3, <2>3 DEF LongInv, Arriving
<1> QED
  BY <1>2, <1>3

(* The merge takes a case from the run that is long enough, or from        *)
(* another one.                                                            *)
LEMMA MergeCaseLong ==
  ASSUME IInv, LongInv, MergeCase
  PROVE  LongInv'
<1> USE DEF heap, runs, merge
<1>1. /\ pc = "merging" /\ UNCHANGED <<heap, runs, pc, incoming, outgoing>>
  BY DEF MergeCase
<1>2. PICK min \in DOMAIN inputs :
        /\ sink' = Append(sink, Head(inputs[min]))
        /\ inputs' = IF Len(inputs[min]) > 1 THEN [inputs EXCEPT ![min] = Tail(@)]
                     ELSE Without(inputs, min)
  BY DEF MergeCase
<1>3. /\ inputs \in Seq(Seq(Case)) /\ Len(inputs) \in Nat /\ DOMAIN inputs = 1 .. Len(inputs)
      /\ max_records \in Nat /\ sink \in Seq(Case) /\ Len(sink) \in Nat
      /\ \A i \in DOMAIN inputs :
           inputs[i] \in Seq(Case) /\ Len(inputs[i]) \in Nat /\ inputs[i] # <<>>
  <2>1. inputs \in Seq(Seq(Case)) /\ max_records \in Nat /\ sink \in Seq(Case)
    BY <1>1, SortAssumption DEF IInv, TypeOK, Control
  <2>2. \A i \in DOMAIN inputs : inputs[i] \in Seq(Case) /\ inputs[i] # <<>>
    BY <1>1, <2>1, ElementOfSeq DEF IInv, Filled
  <2> QED
    BY <2>1, <2>2, LenProperties
<1>4. Len(sink') = Len(sink) + 1
  <2>1. Head(inputs[min]) \in Case
    BY <1>3, HeadTailProperties
  <2> QED
    BY <1>2, <1>3, <2>1, AppendProperties
<1>5. ASSUME incoming # NULL
      PROVE  \/ Len(sink') >= max_records
             \/ \E i \in DOMAIN inputs' : Len(sink') + Len(inputs'[i]) >= max_records
  <2>1. CASE Len(sink) >= max_records
    BY <1>3, <1>4, <2>1
  <2>2. CASE \E i \in DOMAIN inputs : Len(sink) + Len(inputs[i]) >= max_records
    <3>1. PICK i \in DOMAIN inputs : Len(sink) + Len(inputs[i]) >= max_records
      BY <2>2
    <3>2. CASE Len(inputs[min]) > 1
      <4>1. inputs' = [inputs EXCEPT ![min] = Tail(@)] /\ i \in DOMAIN inputs'
        BY <1>2, <3>2
      <4>2. Len(inputs'[i]) \in {Len(inputs[i]), Len(inputs[i]) - 1}
        <5>1. CASE i = min
          BY <1>3, <4>1, <5>1, HeadTailProperties
        <5>2. CASE i # min
          BY <1>3, <4>1, <5>2
        <5> QED
          BY <5>1, <5>2
      <4>3. Len(inputs[i]) \in Nat /\ Len(sink) \in Nat /\ max_records \in Nat
        BY <1>3
      <4>4. Len(inputs'[i]) = Len(inputs[i]) => Len(sink') + Len(inputs'[i]) >= max_records
        BY <1>4, <3>1, <4>3
      <4>5. Len(inputs'[i]) = Len(inputs[i]) - 1 => Len(sink') + Len(inputs'[i]) >= max_records
        BY <1>4, <3>1, <4>3
      <4> QED
        BY <4>1, <4>2, <4>4, <4>5
    <3>3. CASE ~ Len(inputs[min]) > 1
      <4>1. inputs' = Without(inputs, min)
        BY <1>2, <3>3
      <4>2. CASE i = min
        BY <1>3, <1>4, <3>1, <3>3, <4>2
      <4>3. CASE i # min
        <5> DEFINE j == IF i < min THEN i ELSE i - 1
        <5>1. j \in 1 .. Len(inputs) - 1 /\ (IF j < min THEN j ELSE j + 1) = i
          BY <1>3, <4>3
        <5>2. j \in DOMAIN inputs' /\ inputs'[j] = inputs[i]
          BY <4>1, <5>1 DEF Without
        <5> QED
          BY <1>3, <1>4, <3>1, <5>2
      <4> QED
        BY <4>2, <4>3
    <3> QED
      BY <3>2, <3>3
  <2> QED
    BY <1>1, <1>5, <2>1, <2>2 DEF LongInv
<1>6. /\ LongRun(1)' <=> LongRun(1)
      /\ pqueue' = pqueue
  BY <1>1 DEF LongRun, ForRun
<1>7. outgoing = NULL => incoming = NULL
  BY <1>1 DEF IInv, Control
<1> QED
  BY <1>1, <1>5, <1>6, <1>7 DEF LongInv, Arriving

LEMMA EndMergeLong ==
  ASSUME IInv, LongInv, EndMerge
  PROVE  LongInv'
<1> USE DEF heap, runs, merge
<1>1. /\ pc = "merging" /\ inputs = <<>> /\ inputs' = <<sink>>
      /\ pc' \in {"emit", "result"} /\ (outgoing # NULL => pc' = "emit")
      /\ UNCHANGED <<heap, runs, incoming, outgoing>>
  BY DEF EndMerge
<1>2. outgoing = NULL => incoming = NULL
  BY <1>1 DEF IInv, Control
<1>3. incoming # NULL => Len(sink) >= max_records
  BY <1>1 DEF LongInv
<1>4. DOMAIN <<sink>> = {1} /\ <<sink>>[1] = sink
  OBVIOUS
<1>5. LongRun(1)' <=> LongRun(1)
  BY <1>1 DEF LongRun, ForRun
<1> QED
  BY <1>1, <1>2, <1>3, <1>4, <1>5 DEF LongInv, Arriving

LEMMA NextLong ==
  ASSUME IInv, BoundsInv, BoundsInv', LongInv, [Next]_vars
  PROVE  LongInv'
<1> USE DEF heap, runs, merge
<1>1. CASE \E key \in Keys : Write(key)
  BY <1>1, WriteLong
<1>2. CASE ConvertToReader \/ LastRun
  <2>1. incoming = NULL /\ pc' \in {"output", "merge", "result"} /\ incoming' = NULL
    BY <1>2 DEF ConvertToReader, LastRun, merge_append, IInv, Control
  <2> QED
    BY <2>1 DEF LongInv, Arriving
<1>3. CASE MakeReader
  <2>1. incoming = NULL /\ pc' \in {"merge", "done"} /\ incoming' = NULL
    BY <1>3 DEF MakeReader, IInv, Control
  <2> QED
    BY <2>1 DEF LongInv, Arriving
<1>4. CASE StartMerge
  <2>1. /\ pc = "merge" /\ pc' = "merging" /\ sink' = <<>> /\ Len(<<>>) = 0
        /\ UNCHANGED <<heap, runs, inputs, incoming, outgoing>>
    BY <1>4 DEF StartMerge
  <2>2. outgoing = NULL => incoming = NULL
    BY <2>1 DEF IInv, Control
  <2>3. 1 \in DOMAIN inputs /\ Len(inputs[1]) \in Nat
    <3>1. inputs \in Seq(Seq(Case)) /\ Len(inputs) > 1 /\ Len(inputs) \in Nat
      BY <2>1, LenProperties DEF IInv, TypeOK, Filled
    <3>2. 1 \in DOMAIN inputs
      BY <3>1, LenProperties
    <3> QED
      BY <3>1, <3>2, ElementOfSeq, LenProperties
  <2>4. incoming # NULL => 0 + Len(inputs[1]) >= max_records
    BY <2>1, <2>3 DEF LongInv, Arriving
  <2>5. LongRun(1)' <=> LongRun(1)
    BY <2>1 DEF LongRun, ForRun
  <2> QED
    BY <2>1, <2>2, <2>3, <2>4, <2>5 DEF LongInv, Arriving
<1>5. CASE UNCHANGED vars
  BY <1>5 DEF LongInv, Arriving, LongRun, ForRun, vars
<1> QED
  BY <1>1, <1>2, <1>3, <1>4, <1>5, PushLong, OutputRecordLong, EmitLong, MergeCaseLong,
     EndMergeLong DEF Next, Proceed

(* Replacement selection spills no more often than filling memory, sorting *)
(* it and spilling it all would: while cases arrive, every run has at      *)
(* least as many cases as memory holds (sort_casewriter_write).            *)
THEOREM Long == Spec => []LongRuns
<1>1. Init => BoundsInv /\ LongInv
  BY InitBounds, InitLong
<1>2. IInv /\ BoundsInv /\ LongInv /\ [Next]_vars => BoundsInv' /\ LongInv'
  BY NextBounds, NextLong
<1>3. LongInv => LongRuns
  BY DEF LongInv, LongRuns, Arriving
<1> QED
  BY <1>1, <1>2, <1>3, Inductive, PTL DEF Spec
=============================================================================
