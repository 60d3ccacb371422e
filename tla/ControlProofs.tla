--------------------------- MODULE ControlProofs ----------------------------
(* Proofs about Control, for every parsed program, however deeply its      *)
(* control structures are nested.                                          *)
EXTENDS Control, SequenceTheorems, TLAPS

StatementAt(p, nd) == p.blocks[nd[1]][nd[2]]
Place(f) == <<f.block, f.at>>
Frames(p) == [block : DOMAIN p.blocks, at : Nat \ {0}]

(* Executions s in progress: each but the innermost is of a statement that *)
(* has the next one's block inside and keeps no place of its own.          *)
Nested(p, s, sv) ==
  /\ s \in Seq(Frames(p))
  /\ s # <<>> => s[1].block = 1
  /\ \A j \in 1 .. Len(s) - 1 :
       /\ Place(s[j]) \in Nodes(p) /\ sv[Place(s[j])] = NULL
       /\ s[j + 1].block \in Inside(StatementAt(p, Place(s[j])))
  /\ \A j, k \in 1 .. Len(s) : j < k => s[j].block < s[k].block

Resume(p, sv, nd) ==
  IF StatementAt(p, nd).op = "loop" THEN <<StatementAt(p, nd).body, sv[nd]>> ELSE sv[nd]

(* The statements that keep a place are those of the way w, inwards, each  *)
(* of them the place of the next, and the last one an END CASE.            *)
Leads(p, sv, w) ==
  /\ w \in Seq(Nodes(p))
  /\ \A nd \in Nodes(p) : sv[nd] # NULL <=> \E k \in 1 .. Len(w) : w[k] = nd
  /\ w # <<>> => StatementAt(p, w[Len(w)]).op = "end_case"
  /\ \A k \in 1 .. Len(w) - 1 :
       /\ StatementAt(p, w[k]).op \in {"loop", "do_if"}
       /\ Resume(p, sv, w[k]) = w[k + 1]
       /\ w[k + 1][1] \in Inside(StatementAt(p, w[k]))
  /\ \A j, k \in 1 .. Len(w) : j < k => w[j][1] < w[k][1]

(* It starts where the innermost execution is, or the reader's own place.  *)
Start(s, i) == IF s = <<>> THEN <<1, i>> ELSE Place(s[Len(s)])

Way(p, s, sv, i, r, w) ==
  /\ Leads(p, sv, w)
  /\ w # <<>> => w[1] = Start(s, i)
  /\ r = "end_case" => w # <<>>
  /\ r \notin {"continue", "end_case"} => w = <<>>

(* The inductive invariant of OneWayBack.                                  *)
WayInv ==
  /\ Parsed(program)
  /\ saved = [nd \in Nodes(program) |-> saved[nd]]
  /\ idx \in Nat \ {0}
  /\ Nested(program, stack, saved)
  /\ \E w : Way(program, stack, saved, idx, result, w)

-----------------------------------------------------------------------------
LEMMA NodesAre ==
  ASSUME NEW p
  PROVE  /\ \A nd \in Nodes(p) : /\ nd = <<nd[1], nd[2]>>
                                 /\ nd[1] \in DOMAIN p.blocks
                                 /\ nd[2] \in DOMAIN p.blocks[nd[1]]
         /\ \A b \in DOMAIN p.blocks : \A k \in DOMAIN p.blocks[b] : <<b, k>> \in Nodes(p)
BY DEF Nodes

LEMMA BlocksAre ==
  ASSUME NEW p, Parsed(p)
  PROVE  /\ DOMAIN p.blocks = 1 .. Len(p.blocks) /\ 1 \in DOMAIN p.blocks
         /\ DOMAIN p.blocks \subseteq Nat
         /\ \A b \in DOMAIN p.blocks :
              p.blocks[b] \in Seq(Statements) /\ DOMAIN p.blocks[b] = 1 .. Len(p.blocks[b])
<1>1. p.blocks \in Seq(Seq(Statements)) /\ p.blocks # <<>>
  BY DEF Parsed
<1>2. Len(p.blocks) \in Nat \ {0} /\ DOMAIN p.blocks = 1 .. Len(p.blocks)
  BY <1>1, EmptySeq, LenProperties
<1>3. ASSUME NEW b \in DOMAIN p.blocks
      PROVE  p.blocks[b] \in Seq(Statements) /\ DOMAIN p.blocks[b] = 1 .. Len(p.blocks[b])
  BY <1>1, <1>2, ElementOfSeq, LenProperties
<1> QED
  BY <1>2, <1>3

(* What a parsed program has at a node.                                    *)
LEMMA ParsedNode ==
  ASSUME NEW p, Parsed(p), NEW nd \in Nodes(p)
  PROVE  /\ StatementAt(p, nd) \in Statements
         /\ nd[1] \in Nat \ {0} /\ nd[2] \in Nat \ {0}
         /\ \A b \in Inside(StatementAt(p, nd)) : b \in DOMAIN p.blocks /\ b > nd[1]
         /\ StatementAt(p, nd).op = "end_case" => p.mode = "input"
<1>1. nd[1] \in DOMAIN p.blocks /\ nd[2] \in DOMAIN p.blocks[nd[1]]
  BY NodesAre
<1>2. p.blocks \in Seq(Seq(Statements))
  BY DEF Parsed
<1>3. p.blocks[nd[1]] \in Seq(Statements) /\ nd[1] \in Nat \ {0}
  BY <1>1, <1>2
<1> DEFINE st == p.blocks[nd[1]][nd[2]]
<1>4. /\ Inside(st) \subseteq {d \in DOMAIN p.blocks : d > nd[1]}
      /\ st.op = "end_case" => p.mode = "input"
  BY <1>1 DEF Parsed
<1>5. st \in Statements /\ nd[2] \in Nat \ {0}
  BY <1>1, <1>3
<1>6. StatementAt(p, nd) = st
  BY DEF StatementAt
<1> HIDE DEF st
<1> QED
  BY <1>3, <1>4, <1>5, <1>6

(* Going on, entering and leaving, as changes of a sequence.               *)
LEMMA OnwardIs ==
  ASSUME NEW p, NEW s \in Seq(Frames(p)), s # <<>>
  PROVE  /\ Onward(s) \in Seq(Frames(p)) /\ Len(Onward(s)) = Len(s)
         /\ Onward(s)[Len(s)] = [block |-> s[Len(s)].block, at |-> s[Len(s)].at + 1]
         /\ \A k \in 1 .. Len(s) - 1 : Onward(s)[k] = s[k]
<1> DEFINE n == Len(s)
           f == [s[n] EXCEPT !.at = @ + 1]
<1>1. n \in Nat \ {0} /\ DOMAIN s = 1 .. n /\ \A k \in 1 .. n : s[k] \in Frames(p)
  BY EmptySeq, LenProperties
<1>2. s[n] = [block |-> s[n].block, at |-> s[n].at] /\ s[n].block \in DOMAIN p.blocks
      /\ s[n].at \in Nat \ {0}
  BY <1>1 DEF Frames
<1>3. f = [block |-> s[n].block, at |-> s[n].at + 1]
  BY <1>2
<1>4. f \in Frames(p)
  BY <1>2, <1>3 DEF Frames
<1>5. Onward(s) = [s EXCEPT ![n] = f]
  BY DEF Onward
<1> HIDE DEF f
<1>6. Onward(s) \in [1 .. n -> Frames(p)]
  BY <1>1, <1>4, <1>5
<1> QED
  BY <1>1, <1>3, <1>5, <1>6, SeqDef, LenProperties

LEMMA EnterIs ==
  ASSUME NEW p, NEW s \in Seq(Frames(p)), NEW b \in DOMAIN p.blocks, NEW a \in Nat \ {0}
  PROVE  /\ Enter(s, b, a) \in Seq(Frames(p)) /\ Len(Enter(s, b, a)) = Len(s) + 1
         /\ Enter(s, b, a)[Len(s) + 1] = [block |-> b, at |-> a]
         /\ \A k \in 1 .. Len(s) : Enter(s, b, a)[k] = s[k]
<1>1. [block |-> b, at |-> a] \in Frames(p)
  BY DEF Frames
<1> QED
  BY <1>1, AppendProperties DEF Enter

LEMMA FrontIs ==
  ASSUME NEW p, NEW s \in Seq(Frames(p)), s # <<>>
  PROVE  LET f == SubSeq(s, 1, Len(s) - 1)
         IN /\ f \in Seq(Frames(p)) /\ Len(f) = Len(s) - 1
            /\ \A k \in 1 .. Len(s) - 1 : f[k] = s[k]
<1>1. Len(s) \in Nat \ {0} /\ \A k \in 1 .. Len(s) : s[k] \in Frames(p)
  BY EmptySeq, LenProperties
<1>2. Len(s) - 1 \in Nat
  BY <1>1
<1>3. \A k \in 1 .. Len(s) - 1 : s[k] \in Frames(p)
  BY <1>1
<1> DEFINE n == Len(s) - 1
           f == SubSeq(s, 1, n)
<1>4. /\ f \in Seq(Frames(p)) /\ Len(f) = IF 1 <= n THEN n - 1 + 1 ELSE 0
      /\ \A k \in 1 .. n - 1 + 1 : f[k] = s[1 + k - 1]
  BY <1>2, <1>3, SubSeqProperties
<1> HIDE DEF f, n
<1>5. n \in Nat
  BY <1>2 DEF n
<1>6. Len(f) = n
  BY <1>4, <1>5
<1>7. ASSUME NEW k \in 1 .. n PROVE f[k] = s[k]
  <2>1. k \in 1 .. n - 1 + 1 /\ 1 + k - 1 = k
    BY <1>5
  <2>2. f[k] = s[1 + k - 1]
    BY <1>4, <2>1
  <2> QED
    BY <2>1, <2>2
<1> QED
  BY <1>4, <1>6, <1>7 DEF f, n
-----------------------------------------------------------------------------
(* Executions in progress: going on, entering a block, leaving one, and    *)
(* what is kept further inside.                                            *)
LEMMA NestedOnward ==
  ASSUME NEW p, NEW s, NEW sv, Nested(p, s, sv), s # <<>>
  PROVE  Nested(p, Onward(s), sv) /\ Onward(s) # <<>>
<1>1. s \in Seq(Frames(p)) /\ Len(s) \in Nat \ {0}
  BY EmptySeq DEF Nested
<1> DEFINE t == Onward(s)
<1>2. /\ t \in Seq(Frames(p)) /\ Len(t) = Len(s)
      /\ t[Len(s)] = [block |-> s[Len(s)].block, at |-> s[Len(s)].at + 1]
      /\ \A k \in 1 .. Len(s) - 1 : t[k] = s[k]
  BY <1>1, OnwardIs
<1> HIDE DEF t
<1>3. \A k \in 1 .. Len(s) : t[k].block = s[k].block
  BY <1>1, <1>2
<1>4. t # <<>>
  BY <1>1, <1>2, EmptySeq
<1>5. t[1].block = 1
  BY <1>1, <1>3 DEF Nested
<1>6. ASSUME NEW j \in 1 .. Len(t) - 1
      PROVE  /\ Place(t[j]) \in Nodes(p) /\ sv[Place(t[j])] = NULL
             /\ t[j + 1].block \in Inside(StatementAt(p, Place(t[j])))
  <2>1. t[j] = s[j] /\ t[j + 1].block = s[j + 1].block /\ j \in 1 .. Len(s) - 1
    BY <1>1, <1>2, <1>3
  <2> QED
    BY <2>1 DEF Nested
<1>7. \A j, k \in 1 .. Len(t) : j < k => t[j].block < t[k].block
  BY <1>2, <1>3 DEF Nested
<1> QED
  BY <1>2, <1>4, <1>5, <1>6, <1>7 DEF Nested, t

LEMMA NestedEnter ==
  ASSUME NEW p, Parsed(p), NEW s, NEW sv, Nested(p, s, sv), s # <<>>, NEW nd \in Nodes(p),
         nd = Place(s[Len(s)]), sv[nd] = NULL,
         NEW b \in Inside(StatementAt(p, nd)), NEW a \in Nat \ {0}
  PROVE  Nested(p, Enter(s, b, a), sv) /\ Enter(s, b, a) # <<>>
<1>1. s \in Seq(Frames(p)) /\ Len(s) \in Nat \ {0}
  BY EmptySeq DEF Nested
<1>2. b \in DOMAIN p.blocks /\ b > nd[1] /\ nd[1] = s[Len(s)].block
  BY ParsedNode DEF Place
<1> DEFINE t == Enter(s, b, a)
           n == Len(s)
<1>3. /\ t \in Seq(Frames(p)) /\ Len(t) = n + 1
      /\ t[n + 1] = [block |-> b, at |-> a] /\ \A k \in 1 .. n : t[k] = s[k]
  BY <1>1, <1>2, EnterIs
<1>4. t # <<>>
  BY <1>1, <1>3, EmptySeq
<1> HIDE DEF t, n
<1>5. n = Len(s) /\ n \in Nat \ {0}
  BY <1>1 DEF n
<1>6. t[1].block = 1
  BY <1>3, <1>5 DEF Nested
<1>7. ASSUME NEW j \in 1 .. Len(t) - 1
      PROVE  /\ Place(t[j]) \in Nodes(p) /\ sv[Place(t[j])] = NULL
             /\ t[j + 1].block \in Inside(StatementAt(p, Place(t[j])))
  <2>1. CASE j = n
    BY <1>3, <1>5, <2>1
  <2>2. CASE j # n
    <3>1. j \in 1 .. Len(s) - 1 /\ t[j] = s[j] /\ t[j + 1] = s[j + 1]
      BY <1>3, <1>5, <2>2
    <3> QED
      BY <3>1 DEF Nested
  <2> QED
    BY <2>1, <2>2
<1>8. ASSUME NEW j \in 1 .. Len(t), NEW k \in 1 .. Len(t), j < k
      PROVE  t[j].block < t[k].block
  <2>1. \A i \in 1 .. n : s[i].block \in Nat
    <3>1. \A i \in 1 .. n : s[i] \in Frames(p)
      BY <1>1, <1>5
    <3>2. DOMAIN p.blocks \subseteq Nat
      BY BlocksAre
    <3> QED
      BY <3>1, <3>2 DEF Frames
  <2>2. \A i \in 1 .. n : i < n => s[i].block < s[n].block
    BY <1>5 DEF Nested
  <2>3. b \in Nat /\ s[n].block < b
    BY <1>2, <1>5, <2>1, BlocksAre
  <2>4. CASE k = n + 1
    <3>1. j \in 1 .. n /\ t[j] = s[j] /\ t[k].block = b
      BY <1>3, <1>5, <1>8, <2>4
    <3>2. s[j].block < b
      BY <2>1, <2>2, <2>3, <3>1, <1>5
    <3> QED
      BY <3>1, <3>2
  <2>5. CASE k # n + 1
    <3>1. j \in 1 .. n /\ k \in 1 .. n
      BY <1>3, <1>5, <1>8, <2>5
    <3> QED
      BY <1>3, <1>5, <1>8, <3>1 DEF Nested
  <2> QED
    BY <2>4, <2>5
<1> QED
  BY <1>3, <1>4, <1>6, <1>7, <1>8 DEF Nested, t

LEMMA NestedBegin ==
  ASSUME NEW p, Parsed(p), NEW sv, NEW a \in Nat \ {0}
  PROVE  /\ Nested(p, Enter(<<>>, 1, a), sv) /\ Enter(<<>>, 1, a) # <<>>
         /\ Nested(p, <<>>, sv)
         /\ Start(Enter(<<>>, 1, a), a) = <<1, a>>
<1>1. 1 \in DOMAIN p.blocks
  BY BlocksAre
<1>2. <<>> \in Seq(Frames(p)) /\ Len(<<>>) = 0
  BY EmptySeq
<1> DEFINE t == Enter(<<>>, 1, a)
<1>3. t \in Seq(Frames(p)) /\ Len(t) = 1 /\ t[1] = [block |-> 1, at |-> a]
  <2> DEFINE f == [block |-> 1, at |-> a]
  <2>1. f \in Frames(p)
    BY <1>1 DEF Frames
  <2>2. t = Append(<<>>, f)
    BY DEF Enter
  <2> HIDE DEF f, t
  <2>3. t \in Seq(Frames(p)) /\ Len(t) = 0 + 1 /\ t[0 + 1] = f
    BY <1>2, <2>1, <2>2, AppendProperties
  <2> QED
    BY <2>3 DEF f
<1> HIDE DEF t
<1>4. t # <<>>
  BY <1>3, EmptySeq, SMTT(30)
<1>5. Nested(p, t, sv)
  BY <1>3 DEF Nested
<1>6. Nested(p, <<>>, sv)
  BY <1>2 DEF Nested
<1> QED
  BY <1>3, <1>4, <1>5, <1>6 DEF Start, Place, t

LEMMA NestedFront ==
  ASSUME NEW p, NEW s, NEW sv, Nested(p, s, sv), Len(s) > 1
  PROVE  LET f == SubSeq(s, 1, Len(s) - 1)
         IN /\ Nested(p, f, sv) /\ f # <<>>
            /\ Len(f) = Len(s) - 1 /\ f[Len(f)] = s[Len(s) - 1]
            /\ Place(s[Len(s) - 1]) \in Nodes(p) /\ sv[Place(s[Len(s) - 1])] = NULL
            /\ s[Len(s)].block \in Inside(StatementAt(p, Place(s[Len(s) - 1])))
<1> DEFINE f == SubSeq(s, 1, Len(s) - 1)
           n == Len(s) - 1
<1>1. s \in Seq(Frames(p)) /\ Len(s) \in Nat /\ n \in Nat \ {0} /\ s # <<>>
  <2>1. s \in Seq(Frames(p))
    BY DEF Nested
  <2>2. s # <<>>
    BY <2>1, EmptySeq
  <2> QED
    BY <2>1, <2>2, LenProperties
<1>2. f \in Seq(Frames(p)) /\ Len(f) = n /\ \A k \in 1 .. n : f[k] = s[k]
  BY <1>1, FrontIs
<1> HIDE DEF f, n
<1>3. f # <<>>
  BY <1>1, <1>2, EmptySeq
<1>4. n + 1 = Len(s)
  BY <1>1 DEF n
<1>5. f[1].block = 1
  BY <1>1, <1>2 DEF Nested
<1>6. ASSUME NEW j \in 1 .. Len(f) - 1
      PROVE  /\ Place(f[j]) \in Nodes(p) /\ sv[Place(f[j])] = NULL
             /\ f[j + 1].block \in Inside(StatementAt(p, Place(f[j])))
  <2>1. j \in 1 .. Len(s) - 1 /\ f[j] = s[j] /\ f[j + 1] = s[j + 1]
    BY <1>1, <1>2, <1>4
  <2> QED
    BY <2>1 DEF Nested
<1>7. ASSUME NEW j \in 1 .. Len(f), NEW k \in 1 .. Len(f), j < k
      PROVE  f[j].block < f[k].block
  <2>1. j \in 1 .. Len(s) /\ k \in 1 .. Len(s) /\ f[j] = s[j] /\ f[k] = s[k]
    BY <1>1, <1>2, <1>4
  <2> QED
    BY <1>7, <2>1 DEF Nested
<1>8. Nested(p, f, sv)
  BY <1>2, <1>3, <1>5, <1>6, <1>7 DEF Nested
<1>9. n \in 1 .. Len(s) - 1
  BY <1>1, <1>4
<1>10. /\ Place(s[n]) \in Nodes(p) /\ sv[Place(s[n])] = NULL
       /\ s[n + 1].block \in Inside(StatementAt(p, Place(s[n])))
  BY <1>9 DEF Nested
<1>11. f[Len(f)] = s[n]
  BY <1>1, <1>2
<1> QED
  BY <1>2, <1>3, <1>4, <1>8, <1>10, <1>11 DEF f, n

(* What is kept in the innermost block or further inside is free.          *)
LEMMA NestedKept ==
  ASSUME NEW p, NEW s, NEW sv, Nested(p, s, sv), s # <<>>, NEW tv,
         \A nd \in Nodes(p) : nd[1] < s[Len(s)].block => tv[nd] = sv[nd]
  PROVE  Nested(p, s, tv)
<1>1. s \in Seq(Frames(p)) /\ Len(s) \in Nat \ {0}
  BY EmptySeq DEF Nested
<1>2. ASSUME NEW j \in 1 .. Len(s) - 1 PROVE tv[Place(s[j])] = NULL
  <2>1. /\ Place(s[j]) \in Nodes(p) /\ sv[Place(s[j])] = NULL
        /\ s[j].block < s[Len(s)].block
    BY <1>1 DEF Nested
  <2>2. Place(s[j])[1] = s[j].block
    BY DEF Place
  <2> QED
    BY <2>1, <2>2
<1> QED
  BY <1>2 DEF Nested
-----------------------------------------------------------------------------
(* The way. Nothing is kept if it is empty, and only then.                 *)
LEMMA EmptyWay ==
  ASSUME NEW p, NEW sv
  PROVE  Leads(p, sv, <<>>) <=> \A nd \in Nodes(p) : sv[nd] = NULL
<1>1. <<>> \in Seq(Nodes(p)) /\ Len(<<>>) = 0
  BY EmptySeq
<1>2. 1 .. Len(<<>>) = {} /\ 1 .. Len(<<>>) - 1 = {}
  BY <1>1
<1> QED
  BY <1>1, <1>2 DEF Leads

(* Where the way starts: at a statement with others inside, or an END CASE *)
(* that ends it; it is at a statement that keeps a place.                  *)
LEMMA WayStarts ==
  ASSUME NEW p, NEW sv, NEW w, Leads(p, sv, w), w # <<>>
  PROVE  /\ Len(w) \in Nat \ {0} /\ w[1] \in Nodes(p) /\ sv[w[1]] # NULL
         /\ StatementAt(p, w[1]).op \in {"loop", "do_if", "end_case"}
         /\ StatementAt(p, w[1]).op = "end_case" => Len(w) = 1
         /\ Len(w) > 1 =>
              /\ w[2] \in Nodes(p) /\ Resume(p, sv, w[1]) = w[2]
              /\ w[2][1] \in Inside(StatementAt(p, w[1]))
<1>1. w \in Seq(Nodes(p)) /\ Len(w) \in Nat \ {0}
  BY EmptySeq DEF Leads
<1>2. w[1] \in Nodes(p) /\ sv[w[1]] # NULL
  BY <1>1 DEF Leads
<1>3. CASE Len(w) = 1
  BY <1>1, <1>2, <1>3 DEF Leads
<1>4. CASE Len(w) # 1
  <2>0. Len(w) > 1 /\ 2 \in 1 .. Len(w)
    <3> DEFINE n == Len(w)
    <3>1. n \in Nat /\ n # 0 /\ n # 1
      BY <1>1, <1>4
    <3> HIDE DEF n
    <3>2. n > 1 /\ 2 \in 1 .. n
      BY <3>1
    <3> QED
      BY <3>2 DEF n
  <2>1. 1 \in 1 .. Len(w) - 1
    BY <1>1, <2>0
  <2>2. /\ StatementAt(p, w[1]).op \in {"loop", "do_if"}
        /\ Resume(p, sv, w[1]) = w[1 + 1]
        /\ w[1 + 1][1] \in Inside(StatementAt(p, w[1]))
    BY <2>1 DEF Leads
  <2>3. w[2] \in Nodes(p)
    BY <1>1, <2>0, ElementOfSeq
  <2> QED
    BY <1>1, <1>2, <1>4, <2>2, <2>3
<1> QED
  BY <1>3, <1>4

(* The statement that is executed takes its place: the way is shorter.     *)
LEMMA WayShorter ==
  ASSUME NEW p, Parsed(p), NEW sv, NEW w, Leads(p, sv, w), w # <<>>, NEW tv,
         tv[w[1]] = NULL, \A nd \in Nodes(p) : nd # w[1] => tv[nd] = sv[nd]
  PROVE  /\ Leads(p, tv, Tail(w))
         /\ Tail(w) = <<>> <=> Len(w) = 1
         /\ Len(w) > 1 => Tail(w)[1] = w[2]
<1> DEFINE t == Tail(w)
<1>1. w \in Seq(Nodes(p)) /\ Len(w) \in Nat \ {0}
  BY EmptySeq DEF Leads
<1>2. t \in Seq(Nodes(p)) /\ Len(t) = Len(w) - 1 /\ \A i \in 1 .. Len(t) : t[i] = w[i + 1]
  BY <1>1, HeadTailProperties
<1> HIDE DEF t
<1>3. t = <<>> <=> Len(w) = 1
  <2>1. t = <<>> => Len(w) = 1
    BY <1>1, <1>2, EmptySeq
  <2>2. Len(w) = 1 => Len(t) = 0
    BY <1>1, <1>2
  <2> QED
    BY <1>2, <2>1, <2>2, EmptySeq
<1>4. \A j \in 1 .. Len(w) : w[j] \in Nodes(p) /\ w[j][1] \in Nat
  BY <1>1, ElementOfSeq, ParsedNode
<1>5. \A j \in 2 .. Len(w) : w[j] # w[1]
  <2> SUFFICES ASSUME NEW j \in 2 .. Len(w), w[j] = w[1] PROVE FALSE
    OBVIOUS
  <2>1. w[1][1] < w[j][1]
    BY <1>1 DEF Leads
  <2> QED
    BY <1>1, <1>4, <2>1
<1>6. ASSUME NEW nd \in Nodes(p)
      PROVE  tv[nd] # NULL <=> \E k \in 1 .. Len(t) : t[k] = nd
  <2>1. CASE nd = w[1]
    <3>1. \A k \in 1 .. Len(t) : k + 1 \in 2 .. Len(w) /\ t[k] = w[k + 1]
      BY <1>1, <1>2
    <3> QED
      BY <1>5, <2>1, <3>1
  <2>2. CASE nd # w[1]
    <3>1. tv[nd] # NULL <=> \E k \in 1 .. Len(w) : w[k] = nd
      BY <2>2 DEF Leads
    <3>2. ASSUME NEW k \in 1 .. Len(w), w[k] = nd PROVE \E i \in 1 .. Len(t) : t[i] = nd
      <4>1. k - 1 \in 1 .. Len(t) /\ (k - 1) + 1 = k
        BY <1>1, <1>2, <2>2, <3>2
      <4>2. t[k - 1] = nd
        BY <1>2, <3>2, <4>1
      <4> QED
        BY <4>1, <4>2
    <3>3. ASSUME NEW k \in 1 .. Len(t), t[k] = nd PROVE \E i \in 1 .. Len(w) : w[i] = nd
      <4>1. k + 1 \in 1 .. Len(w) /\ w[k + 1] = nd
        BY <1>1, <1>2, <3>3
      <4> QED
        BY <4>1
    <3> QED
      BY <3>1, <3>2, <3>3
  <2> QED
    BY <2>1, <2>2
<1>7. ASSUME t # <<>> PROVE StatementAt(p, t[Len(t)]).op = "end_case"
  <2>1. Len(t) \in 1 .. Len(t) /\ Len(t) + 1 = Len(w)
    BY <1>1, <1>2, <1>3, <1>7
  <2>2. t[Len(t)] = w[Len(w)]
    BY <1>2, <2>1
  <2> QED
    BY <2>2 DEF Leads
<1>8. ASSUME NEW k \in 1 .. Len(t) - 1
      PROVE  /\ StatementAt(p, t[k]).op \in {"loop", "do_if"}
             /\ Resume(p, tv, t[k]) = t[k + 1]
             /\ t[k + 1][1] \in Inside(StatementAt(p, t[k]))
  <2>1. /\ k + 1 \in 1 .. Len(w) - 1 /\ k + 1 \in 2 .. Len(w)
        /\ k \in 1 .. Len(t) /\ k + 1 \in 1 .. Len(t)
    BY <1>1, <1>2
  <2>2. t[k] = w[k + 1] /\ t[k + 1] = w[(k + 1) + 1]
    BY <1>2, <2>1
  <2>3. tv[t[k]] = sv[t[k]]
    BY <1>1, <1>4, <1>5, <2>1, <2>2
  <2>4. /\ StatementAt(p, t[k]).op \in {"loop", "do_if"}
        /\ Resume(p, sv, t[k]) = t[k + 1]
        /\ t[k + 1][1] \in Inside(StatementAt(p, t[k]))
    BY <2>1, <2>2 DEF Leads
  <2> QED
    BY <2>3, <2>4 DEF Resume
<1>9. ASSUME NEW j \in 1 .. Len(t), NEW k \in 1 .. Len(t), j < k
      PROVE  t[j][1] < t[k][1]
  <2>1. j + 1 \in 1 .. Len(w) /\ k + 1 \in 1 .. Len(w) /\ j + 1 < k + 1
    BY <1>1, <1>2, <1>9
  <2>2. w[j + 1][1] < w[k + 1][1]
    BY <2>1 DEF Leads
  <2> QED
    BY <1>2, <2>2
<1>10. Leads(p, tv, t)
  BY <1>2, <1>6, <1>7, <1>8, <1>9 DEF Leads
<1>11. Len(w) > 1 => t[1] = w[2]
  <2>1. Len(w) > 1 => 1 \in 1 .. Len(t) /\ 1 + 1 = 2
    BY <1>1, <1>2
  <2> QED
    BY <1>2, <2>1
<1> QED
  BY <1>3, <1>10, <1>11 DEF t

(* A sequence with one more element in front.                              *)
LEMMA Cons ==
  ASSUME NEW S, NEW w \in Seq(S), NEW x \in S
  PROVE  \E v \in Seq(S) :
           Len(v) = Len(w) + 1 /\ v[1] = x /\ \A i \in 1 .. Len(w) : v[i + 1] = w[i]
<1> DEFINE n == Len(w)
           v == [k \in 1 .. n + 1 |-> IF k = 1 THEN x ELSE w[k - 1]]
<1>1. n \in Nat
  BY LenProperties
<1>2. \A k \in 1 .. n + 1 : k # 1 => k - 1 \in 1 .. n /\ w[k - 1] \in S
  <2> SUFFICES ASSUME NEW k \in 1 .. n + 1, k # 1 PROVE k - 1 \in 1 .. n /\ w[k - 1] \in S
    OBVIOUS
  <2>1. k - 1 \in 1 .. n
    BY <1>1
  <2> QED
    BY <2>1, ElementOfSeq
<1> HIDE DEF n
<1>3. v \in [1 .. n + 1 -> S] /\ n + 1 \in Nat
  BY <1>1, <1>2
<1>4. v \in Seq(S) /\ Len(v) = n + 1
  BY <1>3, SeqDef, LenProperties, <1>1
<1>5. 1 \in 1 .. n + 1 /\ v[1] = x
  BY <1>1
<1>6. ASSUME NEW i \in 1 .. n PROVE v[i + 1] = w[i]
  <2>1. i + 1 \in 1 .. n + 1 /\ i + 1 # 1 /\ (i + 1) - 1 = i
    BY <1>1
  <2> QED
    BY <2>1
<1> QED
  BY <1>4, <1>5, <1>6 DEF n

(* A statement that returns at the end of a case keeps the place that the  *)
(* way starts at: the way is longer.                                       *)
LEMMA WayLonger ==
  ASSUME NEW p, Parsed(p), NEW sv, NEW w, Leads(p, sv, w), w # <<>>, NEW tv,
         NEW x \in Nodes(p), sv[x] = NULL, tv[x] # NULL,
         \A nd \in Nodes(p) : nd # x => tv[nd] = sv[nd],
         StatementAt(p, x).op \in {"loop", "do_if"},
         Resume(p, tv, x) = w[1], w[1][1] \in Inside(StatementAt(p, x))
  PROVE  \E v : Leads(p, tv, v) /\ v # <<>> /\ v[1] = x
<1> DEFINE n == Len(w)
<1>1. w \in Seq(Nodes(p)) /\ n \in Nat \ {0}
  BY EmptySeq DEF Leads
<1>2. PICK v \in Seq(Nodes(p)) : Len(v) = n + 1 /\ v[1] = x /\ \A i \in 1 .. n : v[i + 1] = w[i]
  BY <1>1, Cons
<1> HIDE DEF n
<1>3. n = Len(w) /\ Len(v) = n + 1 /\ v # <<>>
  BY <1>1, <1>2, EmptySeq DEF n
<1>4. \A j \in 1 .. n : w[j] \in Nodes(p) /\ w[j][1] \in Nat /\ w[j] # x
  <2>1. \A j \in 1 .. n : w[j] \in Nodes(p) /\ sv[w[j]] # NULL
    BY <1>1, <1>3, ElementOfSeq DEF Leads
  <2> QED
    BY <2>1, ParsedNode
<1>5. x[1] \in Nat /\ \A m \in 1 .. n : x[1] < w[m][1]
  <2>1. 1 \in 1 .. n
    BY <1>1
  <2>2. w[1][1] > x[1] /\ x[1] \in Nat /\ w[1][1] \in Nat
    BY <1>4, <2>1, ParsedNode
  <2>3. ASSUME NEW m \in 1 .. n PROVE x[1] < w[m][1]
    <3>1. m = 1 \/ 1 < m
      BY <1>1
    <3>2. 1 < m => w[1][1] < w[m][1]
      BY <1>3, <2>1 DEF Leads
    <3>3. w[m][1] \in Nat
      BY <1>4
    <3> QED
      BY <2>2, <3>1, <3>2, <3>3
  <2> QED
    BY <2>2, <2>3
<1>6. ASSUME NEW nd \in Nodes(p)
      PROVE  tv[nd] # NULL <=> \E k \in 1 .. n + 1 : v[k] = nd
  <2>1. CASE nd = x
    <3>1. 1 \in 1 .. n + 1
      BY <1>1
    <3> QED
      BY <1>2, <2>1, <3>1
  <2>2. CASE nd # x
    <3>1. tv[nd] # NULL <=> \E k \in 1 .. n : w[k] = nd
      BY <1>3, <2>2 DEF Leads
    <3>2. ASSUME NEW k \in 1 .. n, w[k] = nd PROVE \E i \in 1 .. n + 1 : v[i] = nd
      <4>1. k + 1 \in 1 .. n + 1
        BY <1>1
      <4>2. v[k + 1] = nd
        BY <1>2, <3>2
      <4> QED
        BY <4>1, <4>2
    <3>3. ASSUME NEW k \in 1 .. n + 1, v[k] = nd PROVE \E i \in 1 .. n : w[i] = nd
      <4>1. k # 1
        BY <1>2, <2>2, <3>3
      <4>2. k - 1 \in 1 .. n /\ (k - 1) + 1 = k
        BY <1>1, <4>1
      <4>3. w[k - 1] = nd
        BY <1>2, <3>3, <4>2
      <4> QED
        BY <4>2, <4>3
    <3> QED
      BY <3>1, <3>2, <3>3
  <2> QED
    BY <2>1, <2>2
<1>7. StatementAt(p, v[n + 1]).op = "end_case"
  <2>1. n \in 1 .. n
    BY <1>1
  <2>2. v[n + 1] = w[n]
    BY <1>2, <2>1
  <2> QED
    BY <1>3, <2>2 DEF Leads
<1>8. ASSUME NEW k \in 1 .. n
      PROVE  /\ StatementAt(p, v[k]).op \in {"loop", "do_if"}
             /\ Resume(p, tv, v[k]) = v[k + 1]
             /\ v[k + 1][1] \in Inside(StatementAt(p, v[k]))
  <2>0. v[k + 1] = w[k]
    BY <1>2
  <2>1. CASE k = 1
    BY <1>2, <2>0, <2>1
  <2>2. CASE k # 1
    <3>1. PICK m \in Nat : m + 1 = k
      <4>1. k - 1 \in Nat /\ (k - 1) + 1 = k
        BY <1>1
      <4> QED
        BY <4>1
    <3>2. m \in 1 .. n /\ m \in 1 .. n - 1
      BY <1>1, <2>2, <3>1
    <3>3. v[k] = w[m] /\ w[k] = w[m + 1]
      BY <1>2, <3>1, <3>2
    <3>4. tv[w[m]] = sv[w[m]]
      BY <1>4, <3>2
    <3>5. /\ StatementAt(p, w[m]).op \in {"loop", "do_if"}
          /\ Resume(p, sv, w[m]) = w[m + 1]
          /\ w[m + 1][1] \in Inside(StatementAt(p, w[m]))
      BY <1>3, <3>2 DEF Leads
    <3> QED
      BY <2>0, <3>3, <3>4, <3>5 DEF Resume
  <2> QED
    BY <2>1, <2>2
<1>9. ASSUME NEW j \in 1 .. n + 1, NEW k \in 1 .. n + 1, j < k
      PROVE  v[j][1] < v[k][1]
  <2>1. PICK m \in 1 .. n : m + 1 = k
    <3>1. k - 1 \in 1 .. n /\ (k - 1) + 1 = k
      BY <1>1, <1>9
    <3> QED
      BY <3>1
  <2>2. v[k] = w[m]
    BY <1>2, <2>1
  <2>3. CASE j = 1
    BY <1>2, <1>5, <2>2, <2>3
  <2>4. CASE j # 1
    <3>1. PICK i \in 1 .. n : i + 1 = j
      <4>1. j - 1 \in 1 .. n /\ (j - 1) + 1 = j
        BY <1>1, <1>9, <2>4
      <4> QED
        BY <4>1
    <3>2. v[j] = w[i] /\ i < m
      BY <1>2, <1>9, <2>1, <3>1
    <3>3. w[i][1] < w[m][1]
      BY <1>3, <3>2 DEF Leads
    <3> QED
      BY <2>2, <3>2, <3>3
  <2> QED
    BY <2>3, <2>4
<1>10. Leads(p, tv, v)
  <2>1. (n + 1) - 1 = n
    BY <1>1
  <2> QED
    BY <1>2, <1>3, <1>6, <1>7, <1>8, <1>9, <2>1 DEF Leads
<1> QED
  BY <1>2, <1>3, <1>10

(* A way of one END CASE.                                                  *)
LEMMA WayOfOne ==
  ASSUME NEW p, NEW x \in Nodes(p), StatementAt(p, x).op = "end_case", NEW sv,
         \A nd \in Nodes(p) : sv[nd] # NULL <=> nd = x
  PROVE  Leads(p, sv, <<x>>) /\ <<x>> # <<>> /\ <<x>>[1] = x
<1> DEFINE w == <<x>>
<1>1. w \in Seq(Nodes(p)) /\ Len(w) = 1 /\ w[1] = x /\ w # <<>>
  <2>1. <<>> \in Seq(Nodes(p)) /\ Len(<<>>) = 0 /\ w = Append(<<>>, x)
    BY EmptySeq
  <2> HIDE DEF w
  <2>2. w \in Seq(Nodes(p)) /\ Len(w) = 0 + 1 /\ w[0 + 1] = x /\ w # <<>>
    BY <2>1, AppendProperties
  <2> QED
    BY <2>2
<1> HIDE DEF w
<1>2. \A nd \in Nodes(p) : sv[nd] # NULL <=> \E k \in 1 .. 1 : w[k] = nd
  BY <1>1
<1>3. 1 .. 1 - 1 = {} /\ \A j, k \in 1 .. 1 : ~ (j < k)
  OBVIOUS
<1>4. Leads(p, sv, w)
  BY <1>1, <1>2, <1>3 DEF Leads
<1> QED
  BY <1>1, <1>4 DEF w
-----------------------------------------------------------------------------
Nothing == \A nd \in Nodes(program) : saved[nd] = NULL

LEMMA Frame ==
  ASSUME WayInv, stack # <<>>
  PROVE  /\ Len(stack) \in Nat \ {0} /\ top \in Frames(program)
         /\ here = Place(top) /\ here[1] = top.block
         /\ Start(stack, idx) = here
<1>1. stack \in Seq(Frames(program)) /\ Len(stack) \in Nat \ {0}
  BY EmptySeq DEF WayInv, Nested
<1>2. Len(stack) \in 1 .. Len(stack)
  BY <1>1
<1>3. top \in Frames(program)
  BY <1>1, <1>2, ElementOfSeq DEF top
<1> QED
  BY <1>1, <1>3 DEF Start, here, top, Place

(* The statement that is executed.                                         *)
LEMMA Executing ==
  ASSUME WayInv, NEW op, Execute(op)
  PROVE  /\ stack # <<>> /\ result = "continue"
         /\ here \in Nodes(program) /\ StatementAt(program, here).op = op
<1>1. stack # <<>> /\ result = "continue" /\ top.at <= Len(Block(top.block)) /\ Op(here) = op
  BY DEF Execute, Running
<1>2. top.block \in DOMAIN program.blocks /\ top.at \in Nat \ {0}
  BY <1>1, Frame DEF Frames
<1>3. DOMAIN program.blocks[top.block] = 1 .. Len(program.blocks[top.block])
  BY <1>2, BlocksAre DEF WayInv
<1>4. Len(program.blocks[top.block]) \in Nat
  BY <1>2, BlocksAre, LenProperties DEF WayInv
<1>5. top.at \in DOMAIN program.blocks[top.block]
  BY <1>1, <1>2, <1>3, <1>4 DEF Block
<1>6. here \in Nodes(program)
  BY <1>2, <1>5, NodesAre DEF here
<1> QED
  BY <1>1, <1>6 DEF StatementAt, Op, Block

(* An execution that has come to the end of its block is at no statement.  *)
LEMMA AtEnd ==
  ASSUME WayInv, Finished
  PROVE  stack # <<>> /\ result = "continue" /\ here \notin Nodes(program)
<1>1. stack # <<>> /\ result = "continue" /\ top.at > Len(Block(top.block))
  BY DEF Finished, Running
<1>2. top.block \in DOMAIN program.blocks /\ top.at \in Nat \ {0}
  BY <1>1, Frame DEF Frames
<1>3. /\ DOMAIN program.blocks[top.block] = 1 .. Len(program.blocks[top.block])
      /\ Len(program.blocks[top.block]) \in Nat
  BY <1>2, BlocksAre, LenProperties DEF WayInv
<1>4. top.at \notin DOMAIN program.blocks[top.block]
  BY <1>1, <1>2, <1>3 DEF Block
<1>5. here[1] = top.block /\ here[2] = top.at
  BY DEF here
<1> QED
  BY <1>1, <1>4, <1>5, NodesAre

(* The statement that the innermost execution belongs to.                  *)
LEMMA Owning ==
  ASSUME WayInv, Len(stack) > 1
  PROVE  /\ stack # <<>> /\ Outer # <<>> /\ Nested(program, Outer, saved)
         /\ owner = Place(Outer[Len(Outer)])
         /\ owner \in Nodes(program) /\ saved[owner] = NULL
         /\ owner[1] = Outer[Len(Outer)].block
         /\ top.block \in Inside(StatementAt(program, owner))
<1>1. stack # <<>>
  BY EmptySeq
<1>2. Nested(program, stack, saved)
  BY DEF WayInv
<1> QED
  BY <1>1, <1>2, NestedFront DEF Outer, owner, top, Place

(* Where nothing is kept, or cannot be.                                    *)
LEMMA NothingKept ==
  ASSUME WayInv,
         \/ stack # <<>> /\ here \in Nodes(program) /\ saved[here] = NULL
         \/ stack # <<>> /\ here \notin Nodes(program)
         \/ /\ stack # <<>> /\ here \in Nodes(program)
            /\ StatementAt(program, here).op \notin {"loop", "do_if", "end_case"}
         \/ result \notin {"continue", "end_case"}
         \/ program.mode = "data"
  PROVE  Nothing
<1>1. PICK w : Way(program, stack, saved, idx, result, w)
  BY DEF WayInv
<1>2. Leads(program, saved, w)
  BY <1>1 DEF Way
<1>3. ASSUME w # <<>> PROVE FALSE
  <2>1. /\ w[1] \in Nodes(program) /\ saved[w[1]] # NULL
        /\ StatementAt(program, w[1]).op \in {"loop", "do_if", "end_case"}
    BY <1>2, <1>3, WayStarts
  <2>2. stack # <<>> => w[1] = here
    BY <1>1, <1>3, Frame DEF Way
  <2>3. result \in {"continue", "end_case"}
    BY <1>1, <1>3 DEF Way
  <2>4. program.mode = "input"
    <3>1. w \in Seq(Nodes(program)) /\ Len(w) \in Nat \ {0}
      BY <1>2, <1>3, EmptySeq DEF Leads
    <3>2. Len(w) \in 1 .. Len(w)
      BY <3>1
    <3>3. w[Len(w)] \in Nodes(program)
      BY <3>1, <3>2, ElementOfSeq
    <3>4. StatementAt(program, w[Len(w)]).op = "end_case"
      BY <1>2, <1>3 DEF Leads
    <3> QED
      BY <3>3, <3>4, ParsedNode DEF WayInv
  <2> QED
    BY <2>1, <2>2, <2>3, <2>4
<1>4. Leads(program, saved, <<>>)
  BY <1>2, <1>3
<1> QED
  BY <1>4, EmptyWay DEF Nothing

(* While nothing is kept, statements are executed and left.                *)
LEMMA Unkept ==
  ASSUME WayInv, Nothing, UNCHANGED <<program, saved>>, idx' \in Nat \ {0},
         result' # "end_case", Nested(program, stack', saved)
  PROVE  WayInv'
<1>1. Leads(program, saved, <<>>)
  BY EmptyWay DEF Nothing
<1>2. Way(program, stack', saved, idx', result', <<>>)
  BY <1>1 DEF Way
<1> QED
  BY <1>2 DEF WayInv

LEMMA Going ==
  ASSUME WayInv, stack # <<>>
  PROVE  /\ Nested(program, stack, saved) /\ Nested(program, Onward(stack), saved)
         /\ Nested(program, <<>>, saved)
         /\ Len(stack) > 1 => Nested(program, Outer, saved) /\ Nested(program, Onward(Outer), saved)
         /\ \A b : /\ here \in Nodes(program) /\ saved[here] = NULL
                   /\ b \in Inside(StatementAt(program, here))
                   => Nested(program, Enter(stack, b, 1), saved)
         /\ \A b : /\ Len(stack) > 1 /\ b \in Inside(StatementAt(program, owner))
                   => Nested(program, Enter(Outer, b, 1), saved)
<1>1. Nested(program, stack, saved) /\ Parsed(program) /\ 1 \in Nat \ {0}
  BY DEF WayInv
<1>2. Nested(program, Onward(stack), saved) /\ Nested(program, <<>>, saved)
  BY <1>1, NestedOnward, NestedBegin
<1>3. ASSUME Len(stack) > 1
      PROVE  Nested(program, Outer, saved) /\ Nested(program, Onward(Outer), saved)
  BY <1>3, Owning, NestedOnward
<1>4. ASSUME NEW b, here \in Nodes(program), saved[here] = NULL,
             b \in Inside(StatementAt(program, here))
      PROVE  Nested(program, Enter(stack, b, 1), saved)
  <2>1. here = Place(stack[Len(stack)])
    BY Frame DEF top
  <2> QED
    BY <1>1, <1>4, <2>1, NestedEnter
<1>5. ASSUME NEW b, Len(stack) > 1, b \in Inside(StatementAt(program, owner))
      PROVE  Nested(program, Enter(Outer, b, 1), saved)
  BY <1>1, <1>5, Owning, NestedEnter
<1> QED
  BY <1>1, <1>2, <1>3, <1>4, <1>5
-----------------------------------------------------------------------------
(* The steps that neither keep nor take a place.                           *)
LEMMA InsideIs ==
  ASSUME NEW st
  PROVE  /\ st.op = "loop" => Inside(st) = {st.body}
         /\ st.op = "do_if" => \A k \in DOMAIN st.clauses : st.clauses[k] \in Inside(st)
BY DEF Inside

LEMMA Simple ==
  ASSUME WayInv, Compute \/ Return \/ data_list_trns_proc \/ SelectIf
  PROVE  WayInv'
<1>1. PICK op \in {"count", "break", "data_list", "end_file", "fail", "select_if"} : Execute(op)
  BY DEF Compute, Return, data_list_trns_proc, SelectIf
<1>2. /\ stack # <<>> /\ here \in Nodes(program) /\ result = "continue"
      /\ StatementAt(program, here).op \notin {"loop", "do_if", "end_case"}
  BY <1>1, Executing
<1>3. Nothing
  BY <1>2, NothingKept
<1>4. UNCHANGED <<program, saved, idx>> /\ result' # "end_case" /\ stack' \in {stack, Onward(stack)}
  BY <1>2 DEF Compute, Return, data_list_trns_proc, SelectIf, program_state
<1>5. Nested(program, stack', saved)
  BY <1>2, <1>4, Going
<1> QED
  BY <1>3, <1>4, <1>5, Unkept DEF WayInv

LEMMA DoIfBegins ==
  ASSUME WayInv, do_if_find_clause
  PROVE  WayInv'
<1>1. /\ stack # <<>> /\ here \in Nodes(program) /\ result = "continue"
      /\ StatementAt(program, here).op = "do_if" /\ saved[here] = NULL
  BY Executing DEF do_if_find_clause
<1>2. Nothing
  BY <1>1, NothingKept
<1>3. UNCHANGED <<program, saved, idx, result>>
  BY DEF do_if_find_clause, program_state
<1>4. Block(top.block)[top.at] = StatementAt(program, here)
  BY DEF Block, StatementAt, here
<1>5. \/ \E b \in Inside(StatementAt(program, here)) : stack' = Enter(stack, b, 1)
      \/ stack' = Onward(stack)
  BY <1>1, <1>4, InsideIs DEF do_if_find_clause
<1>6. Nested(program, stack', saved)
  BY <1>1, <1>5, Going
<1> QED
  BY <1>1, <1>2, <1>3, <1>6, Unkept DEF WayInv

LEMMA LoopStarts ==
  ASSUME WayInv, LoopBegins
  PROVE  WayInv'
<1>1. /\ stack # <<>> /\ here \in Nodes(program) /\ result = "continue"
      /\ StatementAt(program, here).op = "loop" /\ saved[here] = NULL
  BY Executing DEF LoopBegins
<1>2. Nothing
  BY <1>1, NothingKept
<1>3. UNCHANGED <<program, saved, idx, result>>
  BY DEF LoopBegins, program_state
<1>4. Loop(here).body \in Inside(StatementAt(program, here))
  BY <1>1, InsideIs DEF Loop, Block, StatementAt
<1>5. stack' = Enter(stack, Loop(here).body, 1) \/ stack' = Onward(stack)
  BY DEF LoopBegins, Iterate
<1>6. Nested(program, stack', saved)
  BY <1>1, <1>4, <1>5, Going
<1> QED
  BY <1>1, <1>2, <1>3, <1>6, Unkept DEF WayInv

(* A block that has come to its end.                                       *)
LEMMA BlockEnds ==
  ASSUME WayInv, ClauseEnds \/ LoopEnds \/ LoopRepeats
  PROVE  WayInv'
<1>1. Finished /\ Len(stack) > 1
  BY DEF ClauseEnds, LoopEnds, LoopRepeats
<1>2. stack # <<>> /\ result = "continue" /\ Nothing
  BY <1>1, AtEnd, NothingKept
<1>3. UNCHANGED <<program, saved, idx, result>>
  BY DEF ClauseEnds, LoopEnds, LoopRepeats, program_state
<1>4. \/ stack' = Onward(Outer)
      \/ Op(owner) = "loop" /\ stack' = Enter(Outer, Loop(owner).body, 1)
  BY DEF ClauseEnds, LoopEnds, LoopRepeats, IterateNext, Iterate
<1>5. Op(owner) = "loop" => Loop(owner).body \in Inside(StatementAt(program, owner))
  BY InsideIs DEF Loop, Op, Block, StatementAt
<1>6. Nested(program, stack', saved)
  BY <1>1, <1>2, <1>4, <1>5, Going
<1> QED
  BY <1>2, <1>3, <1>6, Unkept DEF WayInv

(* A block that returns otherwise than at the end of a case.               *)
LEMMA BlockReturns ==
  ASSUME WayInv, ClauseReturns \/ BodyReturns, result # "end_case"
  PROVE  WayInv'
<1>1. stack # <<>> /\ result \notin {"continue", "end_case"} /\ Len(stack) > 1
  BY DEF ClauseReturns, BodyReturns, Returns
<1>2. Nothing
  BY <1>1, NothingKept
<1>3. UNCHANGED <<program, saved, idx>> /\ result' \in {result, "continue"}
  BY <1>1 DEF ClauseReturns, BodyReturns, program_state
<1>4. stack' \in {stack, Outer, Onward(Outer)}
  BY <1>1 DEF ClauseReturns, BodyReturns
<1>5. Nested(program, stack', saved)
  BY <1>1, <1>4, Going
<1> QED
  BY <1>1, <1>2, <1>3, <1>5, Unkept DEF WayInv

(* The readers, but for cases that END CASE ends.                          *)
LEMMA Reads ==
  ASSUME WayInv, Wrap \/ InputEnds \/ CaseDone \/ CaseDropped \/ BeginCase
  PROVE  WayInv'
<1>1. Parsed(program) /\ idx \in Nat \ {0} /\ 1 \in Nat \ {0}
  BY DEF WayInv
<1>2. Nothing
  <2>1. CASE Wrap \/ CaseDone
    BY <2>1, AtEnd, NothingKept DEF Wrap, CaseDone
  <2>2. CASE InputEnds
    BY <2>2, NothingKept DEF InputEnds
  <2>3. CASE CaseDropped \/ BeginCase
    BY <2>3, NothingKept DEF CaseDropped, BeginCase
  <2> QED
    BY <2>1, <2>2, <2>3
<1>3. UNCHANGED <<program, saved, idx>> /\ stack' \in {<<>>, Enter(<<>>, 1, 1)}
  BY DEF Wrap, InputEnds, CaseDone, CaseDropped, BeginCase, program_state
<1>4. Nested(program, stack', saved)
  BY <1>1, <1>3, NestedBegin
<1>5. PICK w : Way(program, stack, saved, idx, result, w)
  BY DEF WayInv
<1>6. result # "end_case"
  <2>1. Leads(program, saved, <<>>)
    BY <1>2, EmptyWay DEF Nothing
  <2>2. w = <<>>
    <3> SUFFICES ASSUME w # <<>> PROVE FALSE
      OBVIOUS
    <3>1. w[1] \in Nodes(program) /\ saved[w[1]] # NULL
      BY <1>5, WayStarts DEF Way
    <3> QED
      BY <1>2, <3>1 DEF Nothing
  <2> QED
    BY <1>5, <2>2 DEF Way
<1>7. result' # "end_case"
  BY <1>6 DEF Wrap, InputEnds, CaseDone, CaseDropped, BeginCase
<1> QED
  BY <1>1, <1>2, <1>3, <1>4, <1>7, Unkept

-----------------------------------------------------------------------------
(* The steps that keep a place, or take one.                               *)
LEMMA KeptHere ==
  ASSUME WayInv, stack # <<>>, NEW tv, \A nd \in Nodes(program) : nd # here => tv[nd] = saved[nd]
  PROVE  Nested(program, stack, tv)
<1>1. here[1] = top.block /\ top.block \in Nat
  BY Frame, BlocksAre DEF WayInv, Frames
<1>2. \A nd \in Nodes(program) : nd[1] \in Nat
  BY ParsedNode DEF WayInv
<1>3. \A nd \in Nodes(program) : nd[1] < top.block => tv[nd] = saved[nd]
  BY <1>1, <1>2
<1> QED
  BY <1>3, NestedKept DEF top, WayInv

LEMMA KeptOutside ==
  ASSUME WayInv, Len(stack) > 1, NEW tv,
         \A nd \in Nodes(program) : nd # owner => tv[nd] = saved[nd]
  PROVE  Nested(program, Outer, tv)
<1>1. \A nd \in Nodes(program) : nd[1] \in Nat
  BY ParsedNode DEF WayInv
<1>2. /\ Outer # <<>> /\ Nested(program, Outer, saved)
      /\ owner \in Nodes(program) /\ owner[1] = Outer[Len(Outer)].block
  BY Owning
<1>3. \A nd \in Nodes(program) : nd[1] < Outer[Len(Outer)].block => tv[nd] = saved[nd]
  BY <1>1, <1>2
<1> QED
  BY <1>2, <1>3, NestedKept

LEMMA EndsCase ==
  ASSUME WayInv, end_case_trns_proc
  PROVE  WayInv'
<1>1. /\ stack # <<>> /\ here \in Nodes(program) /\ result = "continue"
      /\ StatementAt(program, here).op = "end_case"
  BY Executing DEF end_case_trns_proc
<1>2. UNCHANGED <<program, idx>> /\ DOMAIN saved = Nodes(program)
  BY DEF end_case_trns_proc, program_state, WayInv
<1>3. Nested(program, stack, saved) /\ here[1] = top.block /\ Start(stack, idx) = here
  BY <1>1, Frame DEF WayInv
<1>4. CASE saved[here] = NULL
  <2>1. saved' = [saved EXCEPT ![here] = TRUE] /\ result' = "end_case" /\ stack' = stack
    BY <1>4 DEF end_case_trns_proc
  <2>2. Nothing
    BY <1>1, <1>4, NothingKept
  <2>3. \A nd \in Nodes(program) : saved'[nd] = IF nd = here THEN TRUE ELSE saved[nd]
    BY <1>1, <1>2, <2>1
  <2>4. \A nd \in Nodes(program) : saved'[nd] # NULL <=> nd = here
    BY <2>2, <2>3, ControlAssumption DEF Nothing, ControlAssumption
  <2>5. Nested(program, stack, saved')
    BY <1>1, <2>3, KeptHere
  <2>6. Leads(program, saved', <<here>>) /\ <<here>> # <<>> /\ <<here>>[1] = here
    BY <1>1, <2>4, WayOfOne
  <2>7. Way(program, stack, saved', idx, "end_case", <<here>>)
    BY <1>3, <2>6 DEF Way
  <2>8. saved' = [nd \in Nodes(program) |-> saved'[nd]]
    BY <1>2, <2>1
  <2> QED
    BY <1>2, <2>1, <2>5, <2>7, <2>8 DEF WayInv
<1>5. CASE saved[here] # NULL
  <2>1. saved' = [saved EXCEPT ![here] = NULL] /\ result' = result /\ stack' = Onward(stack)
    BY <1>5 DEF end_case_trns_proc
  <2>2. PICK w : Way(program, stack, saved, idx, result, w)
    BY DEF WayInv
  <2>3. Leads(program, saved, w) /\ w # <<>> /\ w[1] = here
    <3>1. Leads(program, saved, w)
      BY <2>2 DEF Way
    <3>2. w # <<>>
      BY <1>1, <1>5, <3>1, EmptyWay
    <3> QED
      BY <1>3, <2>2, <3>1, <3>2 DEF Way
  <2>4. Len(w) = 1
    BY <1>1, <2>3, WayStarts
  <2>5. \A nd \in Nodes(program) : saved'[nd] = IF nd = here THEN NULL ELSE saved[nd]
    BY <1>1, <1>2, <2>1
  <2>6. Leads(program, saved', Tail(w)) /\ Tail(w) = <<>>
    BY <1>1, <2>3, <2>4, <2>5, WayShorter DEF WayInv
  <2>7. Nested(program, stack', saved')
    <3>1. Nested(program, stack, saved')
      BY <1>1, <2>5, KeptHere
    <3> QED
      BY <1>1, <2>1, <3>1, NestedOnward
  <2>8. Way(program, stack', saved', idx, "continue", <<>>)
    BY <2>6 DEF Way
  <2>9. saved' = [nd \in Nodes(program) |-> saved'[nd]]
    BY <1>2, <2>1
  <2> QED
    BY <1>1, <1>2, <2>1, <2>7, <2>8, <2>9 DEF WayInv
<1> QED
  BY <1>4, <1>5

(* A structure that is resumed is on the way: what comes next on it is in  *)
(* the block that is entered.                                              *)
LEMMA Resumes ==
  ASSUME WayInv, DoIfResumes \/ LoopResumes
  PROVE  WayInv'
<1>1. /\ stack # <<>> /\ here \in Nodes(program) /\ result = "continue"
      /\ StatementAt(program, here).op \in {"loop", "do_if"}
      /\ saved[here] # NULL
  BY Executing DEF DoIfResumes, LoopResumes
<1>2. UNCHANGED <<program, idx, result>> /\ saved' = [saved EXCEPT ![here] = NULL]
  BY DEF DoIfResumes, LoopResumes, program_state
<1>3. PICK w : Way(program, stack, saved, idx, result, w)
  BY DEF WayInv
<1>4. Leads(program, saved, w) /\ w # <<>> /\ w[1] = here
  <2>1. Leads(program, saved, w)
    BY <1>3 DEF Way
  <2>2. w # <<>>
    BY <1>1, <2>1, EmptyWay
  <2> QED
    BY <1>1, <1>3, <2>1, <2>2, Frame DEF Way
<1>5. /\ Len(w) > 1 /\ w[2] \in Nodes(program) /\ w[2] = <<w[2][1], w[2][2]>>
      /\ w[2][1] \in Inside(StatementAt(program, here)) /\ w[2][2] \in Nat \ {0}
      /\ Resume(program, saved, here) = w[2]
  <2>1. Len(w) # 1
    <3>1. Len(w) = 1 => StatementAt(program, w[1]).op = "end_case"
      BY <1>4 DEF Leads
    <3> QED
      BY <1>1, <1>4, <3>1
  <2>2. Len(w) \in Nat \ {0}
    BY <1>4, WayStarts
  <2>3. Len(w) > 1
    <3> DEFINE n == Len(w)
    <3>1. n \in Nat /\ n # 0 /\ n # 1
      BY <2>1, <2>2
    <3> HIDE DEF n
    <3>2. n > 1
      BY <3>1
    <3> QED
      BY <3>2 DEF n
  <2>4. /\ w[2] \in Nodes(program) /\ Resume(program, saved, here) = w[2]
        /\ w[2][1] \in Inside(StatementAt(program, here))
    BY <1>4, <2>3, WayStarts
  <2> QED
    BY <2>3, <2>4, NodesAre, ParsedNode DEF WayInv
<1>6. stack' = Enter(stack, w[2][1], w[2][2])
  <2>1. CASE DoIfResumes
    <3>1. /\ StatementAt(program, here).op = "do_if"
          /\ stack' = Enter(stack, saved[here][1], saved[here][2])
      BY <2>1, Executing DEF DoIfResumes
    <3>2. saved[here] = w[2]
      BY <1>5, <3>1 DEF Resume
    <3> QED
      BY <3>1, <3>2
  <2>2. CASE LoopResumes
    <3>1. /\ StatementAt(program, here).op = "loop"
          /\ stack' = Enter(stack, Loop(here).body, saved[here])
      BY <2>2, Executing DEF LoopResumes
    <3>2. w[2] = <<StatementAt(program, here).body, saved[here]>>
      BY <1>5, <3>1 DEF Resume
    <3>3. Loop(here) = StatementAt(program, here)
      BY DEF Loop, Block, StatementAt
    <3> QED
      BY <3>1, <3>2, <3>3
  <2> QED
    BY <2>1, <2>2
<1>7. \A nd \in Nodes(program) : saved'[nd] = IF nd = here THEN NULL ELSE saved[nd]
  BY <1>1, <1>2 DEF WayInv
<1>8. Leads(program, saved', Tail(w)) /\ (Tail(w) # <<>> => Tail(w)[1] = w[2])
  <2>1. saved'[w[1]] = NULL /\ \A nd \in Nodes(program) : nd # w[1] => saved'[nd] = saved[nd]
    BY <1>1, <1>4, <1>7
  <2> QED
    BY <1>4, <1>5, <2>1, WayShorter DEF WayInv
<1>9. Nested(program, stack', saved') /\ Start(stack', idx) = w[2]
  <2>1. Nested(program, stack, saved')
    BY <1>1, <1>7, KeptHere
  <2>2. here = Place(stack[Len(stack)]) /\ saved'[here] = NULL
    BY <1>1, <1>7, Frame DEF top
  <2>3. Nested(program, stack', saved') /\ stack' # <<>>
    BY <1>1, <1>5, <1>6, <2>1, <2>2, NestedEnter DEF WayInv
  <2>4. stack'[Len(stack')] = [block |-> w[2][1], at |-> w[2][2]]
    <3>1. stack \in Seq(Frames(program)) /\ w[2][1] \in DOMAIN program.blocks
      BY <1>1, <1>5, ParsedNode DEF WayInv, Nested
    <3> QED
      BY <1>5, <1>6, <3>1, EnterIs
  <2> QED
    BY <1>5, <2>3, <2>4 DEF Start, Place
<1>10. Way(program, stack', saved', idx, result', Tail(w))
  BY <1>1, <1>2, <1>8, <1>9 DEF Way
<1>11. saved' = [nd \in Nodes(program) |-> saved'[nd]]
  BY <1>2 DEF WayInv
<1> QED
  BY <1>2, <1>9, <1>10, <1>11 DEF WayInv

(* A structure that returns at the end of a case keeps where it was.       *)
LEMMA Keeps ==
  ASSUME WayInv, ClauseReturns \/ BodyReturns, result = "end_case"
  PROVE  WayInv'
<1>1. Len(stack) > 1 /\ UNCHANGED <<program, idx>>
  BY DEF ClauseReturns, BodyReturns, program_state
<1>2. /\ stack # <<>> /\ Outer # <<>> /\ owner \in Nodes(program) /\ saved[owner] = NULL
      /\ owner = Place(Outer[Len(Outer)])
      /\ top.block \in Inside(StatementAt(program, owner))
  BY <1>1, Owning
<1>3. PICK w : Way(program, stack, saved, idx, result, w)
  BY DEF WayInv
<1>4. Leads(program, saved, w) /\ w # <<>> /\ w[1] = here
  BY <1>2, <1>3, Frame DEF Way
<1>5. here \in Nodes(program) /\ here = <<top.block, top.at>> /\ top.block \in Nat /\ top.at \in Nat
  <2>1. here \in Nodes(program)
    BY <1>4, WayStarts
  <2> QED
    BY <1>2, <2>1, Frame, BlocksAre DEF WayInv, Frames, here
<1>6. /\ stack' = Outer /\ result' = "end_case"
      /\ \E x : /\ saved' = [saved EXCEPT ![owner] = x] /\ x # NULL
               /\ StatementAt(program, owner).op \in {"loop", "do_if"}
               /\ IF StatementAt(program, owner).op = "loop"
                    THEN x = top.at ELSE x = here
  <2>1. Op(owner) = StatementAt(program, owner).op
    BY DEF Op, Block, StatementAt
  <2>2. top.at # NULL /\ here # NULL
    BY <1>5, ControlAssumption DEF ControlAssumption
  <2>3. CASE ClauseReturns
    BY <2>1, <2>2, <2>3 DEF ClauseReturns
  <2>4. CASE BodyReturns
    BY <2>1, <2>2, <2>4 DEF BodyReturns
  <2> QED
    BY <2>3, <2>4
<1>7. PICK x : /\ saved' = [saved EXCEPT ![owner] = x] /\ x # NULL
               /\ StatementAt(program, owner).op \in {"loop", "do_if"}
               /\ IF StatementAt(program, owner).op = "loop"
                    THEN x = top.at ELSE x = here
  BY <1>6
<1>8. \A nd \in Nodes(program) : saved'[nd] = IF nd = owner THEN x ELSE saved[nd]
  BY <1>2, <1>7 DEF WayInv
<1>9. Resume(program, saved', owner) = w[1]
  <2>1. saved'[owner] = x
    BY <1>2, <1>8
  <2>2. StatementAt(program, owner).op = "loop" => StatementAt(program, owner).body = top.block
    BY <1>2, InsideIs
  <2> QED
    BY <1>4, <1>5, <1>7, <2>1, <2>2 DEF Resume
<1>10. PICK v : Leads(program, saved', v) /\ v # <<>> /\ v[1] = owner
  <2>1. w[1][1] \in Inside(StatementAt(program, owner))
    BY <1>2, <1>4, <1>5
  <2>2. saved'[owner] # NULL /\ \A nd \in Nodes(program) : nd # owner => saved'[nd] = saved[nd]
    BY <1>2, <1>7, <1>8
  <2>3. /\ Parsed(program) /\ Leads(program, saved, w) /\ w # <<>>
        /\ owner \in Nodes(program) /\ saved[owner] = NULL
        /\ StatementAt(program, owner).op \in {"loop", "do_if"}
    BY <1>2, <1>4, <1>7 DEF WayInv
  <2> QED
    BY <1>9, <2>1, <2>2, <2>3, WayLonger
<1>11. Nested(program, Outer, saved')
  BY <1>1, <1>8, KeptOutside
<1>12. Way(program, Outer, saved', idx, "end_case", v)
  BY <1>2, <1>10 DEF Way, Start
<1>13. saved' = [nd \in Nodes(program) |-> saved'[nd]]
  BY <1>7 DEF WayInv
<1> QED
  BY <1>1, <1>6, <1>11, <1>12, <1>13 DEF WayInv

(* The reader goes where it was, and keeps where it is.                    *)
LEMMA ReadsCase ==
  ASSUME WayInv, ReadCase
  PROVE  WayInv'
<1>1. stack = <<>> /\ UNCHANGED <<program, saved, idx, result>> /\ stack' = Enter(<<>>, 1, idx)
  BY DEF ReadCase, Idle, program_state
<1>2. Nested(program, stack', saved) /\ Start(stack', idx) = <<1, idx>>
  BY <1>1, NestedBegin DEF WayInv
<1>3. PICK w : Way(program, stack, saved, idx, result, w)
  BY DEF WayInv
<1>4. Way(program, stack', saved, idx, result, w)
  BY <1>1, <1>2, <1>3 DEF Way, Start
<1> QED
  BY <1>1, <1>2, <1>4 DEF WayInv

LEMMA GivesCase ==
  ASSUME WayInv, CaseComes
  PROVE  WayInv'
<1>1. /\ stack # <<>> /\ Len(stack) = 1 /\ result = "end_case" /\ result' = "continue"
      /\ UNCHANGED <<program, saved>> /\ stack' = <<>> /\ idx' = top.at
  BY DEF CaseComes, Returns
<1>2. here = <<1, top.at>> /\ top.at \in Nat \ {0}
  <2>1. top.block = 1
    BY <1>1 DEF WayInv, Nested, top
  <2> QED
    BY <1>1, <2>1, Frame DEF here, Frames
<1>3. PICK w : Way(program, stack, saved, idx, result, w)
  BY DEF WayInv
<1>4. Way(program, <<>>, saved, idx', "continue", w)
  BY <1>1, <1>2, <1>3, Frame DEF Way, Start
<1>5. Nested(program, <<>>, saved)
  BY <1>1, Going
<1> QED
  BY <1>1, <1>2, <1>4, <1>5 DEF WayInv

-----------------------------------------------------------------------------
LEMMA EndCaseAdded ==
  ASSUME NEW p, Parsed(p)
  PROVE  Parsed(cmd_input_program(p))
<1> DEFINE e == [op |-> "end_case"]
           q == [p EXCEPT !.blocks[1] = Append(@, e)]
<1>1. CASE cmd_input_program(p) = p
  BY <1>1
<1>2. CASE cmd_input_program(p) # p
  <2>1. cmd_input_program(p) = q /\ p.mode # "data"
    BY <1>2 DEF cmd_input_program
  <2>2. /\ p = [mode |-> p.mode, blocks |-> p.blocks] /\ p.mode = "input"
        /\ p.blocks \in Seq(Seq(Statements)) /\ p.blocks # <<>>
    BY <2>1 DEF Parsed
  <2>3. /\ Len(p.blocks) \in Nat \ {0} /\ p.blocks[1] \in Seq(Statements)
        /\ DOMAIN p.blocks = 1 .. Len(p.blocks) /\ 1 \in DOMAIN p.blocks
    BY <2>2, BlocksAre, EmptySeq
  <2> DEFINE b1 == Append(p.blocks[1], e)
             bs == [p.blocks EXCEPT ![1] = b1]
  <2>4. q = [mode |-> "input", blocks |-> bs]
    <3> HIDE DEF e
    <3>1. q = [p EXCEPT !.blocks = bs]
      OBVIOUS
    <3> HIDE DEF q, bs
    <3>2. [p EXCEPT !.blocks = bs] = [mode |-> p.mode, blocks |-> bs]
      BY <2>2
    <3> QED
      BY <2>2, <3>1, <3>2
  <2>5. e \in Statements /\ e.op = "end_case" /\ Inside(e) = {}
    BY DEF Statements, Inside
  <2> HIDE DEF e, q
  <2>6. /\ b1 \in Seq(Statements) /\ Len(b1) = Len(p.blocks[1]) + 1
        /\ b1[Len(p.blocks[1]) + 1] = e
        /\ \A k \in 1 .. Len(p.blocks[1]) : b1[k] = p.blocks[1][k]
    BY <2>3, <2>5, AppendProperties
  <2> HIDE DEF b1
  <2>7. bs \in [1 .. Len(p.blocks) -> Seq(Statements)]
    BY <2>2, <2>3, <2>6
  <2>8. bs \in Seq(Seq(Statements)) /\ bs # <<>> /\ DOMAIN bs = DOMAIN p.blocks
    <3>1. bs \in Seq(Seq(Statements))
      BY <2>3, <2>7, SeqDef, SMTT(30)
    <3>2. DOMAIN bs = DOMAIN p.blocks
      BY DEF bs
    <3>3. bs # <<>>
      BY <2>3, <3>1, <3>2, EmptySeq, LenProperties
    <3> QED
      BY <3>1, <3>2, <3>3
  <2>9. bs[1] = b1 /\ \A b \in DOMAIN p.blocks \ {1} : bs[b] = p.blocks[b]
    BY <2>3
  <2> HIDE DEF bs
  <2>10. ASSUME NEW b \in DOMAIN bs, NEW k \in DOMAIN bs[b]
         PROVE  /\ Inside(bs[b][k]) \subseteq {d \in DOMAIN bs : d > b}
                /\ bs[b][k].op # "select_if"
    <3>1. CASE b \in DOMAIN p.blocks /\ k \in DOMAIN p.blocks[b] /\ bs[b][k] = p.blocks[b][k]
      BY <2>2, <2>8, <3>1 DEF Parsed
    <3>2. CASE bs[b][k] = e
      BY <2>5, <3>2
    <3>3. b = 1 => k \in 1 .. Len(p.blocks[1]) \/ k = Len(p.blocks[1]) + 1
      <4> DEFINE n == Len(p.blocks[1])
      <4>1. DOMAIN b1 = 1 .. n + 1 /\ n \in Nat
        BY <2>3, <2>6, LenProperties
      <4>2. b = 1 => k \in 1 .. n + 1
        BY <2>9, <4>1
      <4> HIDE DEF n
      <4>3. b = 1 => k \in 1 .. n \/ k = n + 1
        BY <4>1, <4>2
      <4> QED
        BY <4>3 DEF n
    <3>4. DOMAIN p.blocks[1] = 1 .. Len(p.blocks[1])
      BY <2>3, LenProperties
    <3> QED
      BY <2>6, <2>8, <2>9, <3>1, <3>2, <3>3, <3>4
  <2>11. q.mode = "input" /\ q.blocks = bs
    BY <2>4
  <2>12. q \in [mode : {"input", "data"}, blocks : Seq(Seq(Statements))]
    BY <2>4, <2>8
  <2> QED
    BY <2>1, <2>8, <2>10, <2>11, <2>12 DEF Parsed
<1> QED
  BY <1>1, <1>2

LEMMA InitWay == Init => WayInv
<1> SUFFICES ASSUME Init PROVE WayInv
  OBVIOUS
<1>1. Parsed(program)
  BY EndCaseAdded, ProgramsAssumption DEF Init, ProgramsAssumption
<1>2. /\ saved = [nd \in Nodes(program) |-> NULL] /\ idx = 1
      /\ stack = <<>> /\ result = "continue"
  BY DEF Init
<1>3. Nested(program, <<>>, saved)
  BY <1>1, NestedBegin
<1>4. Way(program, <<>>, saved, 1, "continue", <<>>)
  BY <1>2, EmptyWay DEF Way
<1>5. saved = [nd \in Nodes(program) |-> saved[nd]] /\ 1 \in Nat \ {0}
  BY <1>2
<1> QED
  BY <1>1, <1>2, <1>3, <1>4, <1>5 DEF WayInv

LEMMA NextWay == WayInv /\ [Next]_vars => WayInv'
<1> SUFFICES ASSUME WayInv, [Next]_vars PROVE WayInv'
  OBVIOUS
<1>1. CASE Compute \/ Return \/ data_list_trns_proc \/ SelectIf
  BY <1>1, Simple
<1>2. CASE end_case_trns_proc
  BY <1>2, EndsCase
<1>3. CASE DoIfResumes \/ LoopResumes
  BY <1>3, Resumes
<1>4. CASE do_if_find_clause
  BY <1>4, DoIfBegins
<1>5. CASE LoopBegins
  BY <1>5, LoopStarts
<1>6. CASE ClauseEnds \/ LoopEnds \/ LoopRepeats
  BY <1>6, BlockEnds
<1>7. CASE ClauseReturns \/ BodyReturns
  BY <1>7, BlockReturns, Keeps
<1>8. CASE Wrap \/ InputEnds \/ CaseDone \/ CaseDropped \/ BeginCase
  BY <1>8, Reads
<1>9. CASE CaseComes
  BY <1>9, GivesCase
<1>10. CASE ReadCase
  BY <1>10, ReadsCase
<1>11. CASE UNCHANGED vars
  <2>1. UNCHANGED <<program, saved, idx, stack, result>>
    BY <1>11 DEF vars
  <2> QED
    BY <2>1 DEF WayInv
<1> QED
  BY <1>1, <1>2, <1>3, <1>4, <1>5, <1>6, <1>7, <1>8, <1>9, <1>10, <1>11 DEF Next, Step

LEMMA WayImplies == WayInv => OneWayBack
<1> SUFFICES ASSUME WayInv, stack = <<>>, NEW nd \in Nodes(program), saved[nd] # NULL
             PROVE  /\ \/ nd = <<1, idx>>
                       \/ \E p \in Nodes(program) :
                            Op(p) \in {"loop", "do_if"} /\ saved[p] # NULL /\ ResumesAt(p) = nd
                    /\ Op(nd) \in {"loop", "do_if"} => saved[ResumesAt(nd)] # NULL
  BY DEF OneWayBack
<1>1. \A p : Op(p) = StatementAt(program, p).op /\ ResumesAt(p) = Resume(program, saved, p)
  BY DEF Op, Block, StatementAt, ResumesAt, Resume, Loop
<1>2. PICK w : Way(program, stack, saved, idx, result, w)
  BY DEF WayInv
<1>3. Leads(program, saved, w) /\ (w # <<>> => w[1] = <<1, idx>>)
  BY <1>2 DEF Way, Start
<1>4. PICK k \in 1 .. Len(w) : w[k] = nd
  BY <1>3 DEF Leads
<1> DEFINE n == Len(w)
<1>5. n \in Nat /\ w # <<>> /\ \A j \in 1 .. n : w[j] \in Nodes(program) /\ saved[w[j]] # NULL
  <2>1. w \in Seq(Nodes(program)) /\ n \in Nat
    BY <1>3, LenProperties DEF Leads
  <2>2. w # <<>>
    BY <1>4, <2>1, EmptySeq
  <2> QED
    BY <1>3, <2>1, <2>2, ElementOfSeq DEF Leads
<1>6. \A j \in 1 .. n - 1 :
        /\ StatementAt(program, w[j]).op \in {"loop", "do_if"}
        /\ Resume(program, saved, w[j]) = w[j + 1]
  BY <1>3 DEF Leads
<1>7. StatementAt(program, w[n]).op = "end_case"
  BY <1>3, <1>5 DEF Leads
<1>8. k \in 1 .. n
  BY <1>4
<1> HIDE DEF n
<1>9. ASSUME Op(nd) \in {"loop", "do_if"} PROVE saved[ResumesAt(nd)] # NULL
  <2>1. k # n
    BY <1>1, <1>4, <1>7, <1>9
  <2>2. k \in 1 .. n - 1 /\ k + 1 \in 1 .. n
    BY <1>5, <1>8, <2>1
  <2> QED
    BY <1>1, <1>4, <1>5, <1>6, <2>2
<1>10. \/ nd = <<1, idx>>
       \/ \E p \in Nodes(program) :
            Op(p) \in {"loop", "do_if"} /\ saved[p] # NULL /\ ResumesAt(p) = nd
  <2>1. CASE k = 1
    BY <1>3, <1>4, <1>5, <2>1
  <2>2. CASE k # 1
    <3>1. k - 1 \in 1 .. n - 1 /\ k - 1 \in 1 .. n /\ (k - 1) + 1 = k
      BY <1>5, <1>8, <2>2
    <3>2. w[k - 1] \in Nodes(program) /\ saved[w[k - 1]] # NULL
      BY <1>5, <3>1
    <3>3. Op(w[k - 1]) \in {"loop", "do_if"} /\ ResumesAt(w[k - 1]) = nd
      BY <1>1, <1>4, <1>6, <3>1
    <3> QED
      BY <3>2, <3>3
  <2> QED
    BY <2>1, <2>2
<1> QED
  BY <1>9, <1>10

(* Between two cases the places that DO IF, LOOP and END CASE have kept    *)
(* lead from the reader's own to the END CASE that ended the last case,    *)
(* and nothing else is kept (resume of do_if_trns_proc, resume_idx of      *)
(* loop_trns_proc), however deeply the structures of a program are nested. *)
THEOREM WayBack == Spec => []OneWayBack
<1>1. Spec => []WayInv
  BY InitWay, NextWay, PTL DEF Spec
<1> QED
  BY <1>1, WayImplies, PTL

-----------------------------------------------------------------------------
(* The inductive invariant of TotalInProcedures. Between cases the left    *)
(* value has the total, so that the next case begins with it.              *)
Totals ==
  /\ c = [i |-> c.i, n |-> c.n]
  /\ program.mode = "data" => IF stack = <<>> THEN left = total ELSE c.n = total

LEMMA EnterNonempty ==
  ASSUME NEW p, NEW s \in Seq(Frames(p)), NEW b, NEW a
  PROVE  Enter(s, b, a) # <<>>
<1> DEFINE f == [block |-> b, at |-> a]
           F == Frames(p) \cup {f}
<1> HIDE DEF f
<1>1. s \in Seq(F) /\ f \in F
  <2>1. Len(s) \in Nat /\ s \in [1 .. Len(s) -> F]
    BY LenProperties
  <2> QED
    BY <2>1, SeqDef
<1> HIDE DEF F
<1>2. Append(s, f) # <<>>
  BY <1>1, AppendProperties
<1> QED
  BY <1>2 DEF Enter, f

(* While a case is made, and nothing but COMPUTE changes the left variable.*)
LEMMA CaseGoesOn ==
  ASSUME WayInv, Totals, Step,
         ~ (Compute \/ Wrap \/ CaseComes \/ InputEnds \/ CaseDone \/ CaseDropped)
  PROVE  Totals'
<1> DEFINE Others == \/ Return \/ data_list_trns_proc \/ SelectIf \/ end_case_trns_proc
                     \/ DoIfResumes \/ do_if_find_clause \/ ClauseEnds \/ ClauseReturns
                     \/ LoopResumes \/ LoopBegins \/ LoopEnds \/ LoopRepeats \/ BodyReturns
<1>1. Others
  BY DEF Step
<1>2. stack # <<>>
  BY <1>1 DEF Return, data_list_trns_proc, SelectIf, end_case_trns_proc,
     DoIfResumes, do_if_find_clause, ClauseEnds, ClauseReturns, LoopResumes, LoopBegins, LoopEnds, LoopRepeats, BodyReturns,
     Execute, Running, Finished, Returns
<1>3. \/ stack' \in {stack, Onward(stack)}
      \/ \E b, a : stack' = Enter(stack, b, a)
      \/ Len(stack) > 1 /\ stack' \in {Outer, Onward(Outer)}
      \/ Len(stack) > 1 /\ \E b, a : stack' = Enter(Outer, b, a)
  <2>1. CASE Return \/ data_list_trns_proc \/ SelectIf \/ end_case_trns_proc
    BY <2>1 DEF Return, data_list_trns_proc, SelectIf, end_case_trns_proc
  <2>2. CASE DoIfResumes \/ do_if_find_clause \/ ClauseEnds \/ ClauseReturns
    BY <2>2 DEF DoIfResumes, do_if_find_clause, ClauseEnds, ClauseReturns
  <2>3. CASE LoopResumes \/ LoopBegins
    BY <2>3 DEF LoopResumes, LoopBegins, Iterate
  <2>4. CASE LoopEnds \/ LoopRepeats
    BY <2>4 DEF LoopEnds, LoopRepeats, IterateNext, Iterate
  <2>5. CASE BodyReturns
    BY <2>5 DEF BodyReturns
  <2> QED
    BY <1>1, <2>1, <2>2, <2>3, <2>4, <2>5
<1>4. UNCHANGED <<program, total>> /\ (c' = c \/ \E v : c' = [c EXCEPT !.i = v])
  <2>1. CASE Return \/ data_list_trns_proc \/ SelectIf \/ end_case_trns_proc
    BY <2>1 DEF Return, data_list_trns_proc, SelectIf, end_case_trns_proc, case_state, program_state
  <2>2. CASE DoIfResumes \/ do_if_find_clause \/ ClauseEnds \/ ClauseReturns
    BY <2>2 DEF DoIfResumes, do_if_find_clause, ClauseEnds, ClauseReturns,
       case_state, program_state
  <2>3. CASE LoopResumes \/ LoopBegins
    BY <2>3 DEF LoopResumes, LoopBegins, case_state, program_state
  <2>4. CASE LoopEnds \/ LoopRepeats
    BY <2>4 DEF LoopEnds, LoopRepeats, case_state, program_state
  <2>5. CASE BodyReturns
    BY <2>5 DEF BodyReturns, case_state
  <2> QED
    BY <1>1, <2>1, <2>2, <2>3, <2>4, <2>5
<1>5. stack' # <<>>
  <2>1. Nested(program, stack, saved)
    BY DEF WayInv
  <2>2. Onward(stack) # <<>> /\ stack \in Seq(Frames(program))
    BY <1>2, <2>1, NestedOnward DEF Nested
  <2>3. Len(stack) > 1 => Outer # <<>> /\ Onward(Outer) # <<>> /\ Outer \in Seq(Frames(program))
    BY Owning, NestedOnward DEF Nested
  <2> QED
    BY <1>2, <1>3, <2>2, <2>3, EnterNonempty
<1>6. c' = [i |-> c'.i, n |-> c.n]
  BY <1>4 DEF Totals
<1>7. c'.n = c.n
  BY <1>6
<1> QED
  BY <1>2, <1>4, <1>5, <1>6, <1>7 DEF Totals

LEMMA NextTotals ==
  ASSUME WayInv, Totals, [Next]_vars
  PROVE  Totals'
<1>1. CASE Compute
  <2>1. stack # <<>> /\ Nested(program, stack, saved)
    BY <1>1 DEF Compute, Execute, Running, WayInv
  <2>2. stack' # <<>> /\ program' = program
    BY <1>1, <2>1, NestedOnward DEF Compute, program_state
  <2>3. c' = [c EXCEPT !.n = (@ + 1) % Modulus] /\ total' = (total + 1) % Modulus
    BY <1>1 DEF Compute
  <2>4. c' = [i |-> c.i, n |-> (c.n + 1) % Modulus]
    BY <2>3 DEF Totals
  <2>5. c'.n = (c.n + 1) % Modulus /\ c'.i = c.i
    BY <2>4
  <2> QED
    BY <2>1, <2>2, <2>3, <2>4, <2>5 DEF Totals
<1>2. CASE Wrap \/ CaseComes \/ InputEnds \/ ReadCase
  <2>1. program.mode = "input" /\ program' = program /\ (c' = c \/ \E v : c' = Fresh(v))
    BY <1>2 DEF Wrap, CaseComes, InputEnds, ReadCase, program_state, case_state
  <2> QED
    BY <2>1 DEF Totals, Fresh
<1>3. CASE CaseDone \/ CaseDropped
  <2>1. /\ stack # <<>> /\ stack' = <<>> /\ UNCHANGED <<program, c, total>> /\ left' = c.n
    BY <1>3 DEF CaseDone, CaseDropped, Finished, Running, Returns, program_state
  <2> QED
    BY <2>1 DEF Totals
<1>4. CASE BeginCase
  <2>1. stack = <<>> /\ UNCHANGED <<program, total>> /\ c' = Fresh(left) /\ stack' = Enter(<<>>, 1, 1)
    BY <1>4 DEF BeginCase, Idle, program_state
  <2>2. stack' # <<>>
    BY <2>1, NestedBegin DEF WayInv
  <2> QED
    BY <2>1, <2>2 DEF Totals, Fresh
<1>5. CASE UNCHANGED vars
  BY <1>5 DEF vars, Totals
<1> QED
  BY <1>1, <1>2, <1>3, <1>4, <1>5, CaseGoesOn DEF Next, Step

(* In a procedure a left variable that counts has the running total, in    *)
(* whatever structures it counts and whatever cases are dropped            *)
(* (caseinit_save_left_vars at every case of the active file).             *)
THEOREM Totalling == Spec => []TotalInProcedures
<1>1. Init => Totals
  BY DEF Init, Totals, Fresh
<1>2. Spec => []WayInv
  BY InitWay, NextWay, PTL DEF Spec
<1>3. Spec => []Totals
  BY <1>1, <1>2, NextTotals, PTL DEF Spec
<1>4. Totals => TotalInProcedures
  BY DEF Totals, TotalInProcedures, RunningTotal
<1> QED
  BY <1>3, <1>4, PTL
=============================================================================
