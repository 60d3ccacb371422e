-------------------------- MODULE CaseWindowProofs --------------------------
(***************************************************************************)
(* Proofs about CaseWindow, for every limit of cases in memory and every   *)
(* number of cases: the window keeps to its limit and, in memory or on     *)
(* disk, is the queue of CaseQueue.                                        *)
(***************************************************************************)
EXTENDS CaseWindow, SequenceTheorems, TLAPS

Case == 1 .. MaxCases

(* A window whose temporary file works.                                    *)
Window ==
  [class : {"memory", "file"}, max : Nat, deque : Seq(Case), slots : Seq(Case),
   head : Nat, tail : Nat, broken : {FALSE}, tainted : {FALSE}]

(* What the functions of casewindow.c keep true of it. The file may hold   *)
(* more slots than are in use: popping everything starts over at slot 0.   *)
Sound(w) ==
  /\ w \in Window
  /\ w.class = "memory" => w.slots = <<>> /\ w.head = 0 /\ w.tail = 0
  /\ w.class = "file" => w.deque = <<>>
  /\ Len(w.deque) <= w.max
  /\ w.head <= Len(w.slots)
  /\ w.tail = 0 \/ w.tail < w.head
  /\ w.tail <= w.head

(* No case enters but through a push.                                      *)
Held(w, n) == Len(w.deque) <= n /\ w.head <= n

IInv ==
  /\ pushed \in 0 .. MaxCases
  /\ Sound(window)
  /\ Held(window, pushed)

-----------------------------------------------------------------------------
(* A new window is empty.                                                  *)
LEMMA CreateEmpty ==
  ASSUME NEW m \in Nat
  PROVE  LET w == casewindow_create(m) IN
         /\ Sound(w)
         /\ Held(w, 0)
         /\ Contents(w) = <<>>
<1> DEFINE w == casewindow_create(m)
<1>1. <<>> \in Seq(Case) /\ Len(<<>>) = 0
  BY EmptySeq
<1>2. w \in Window
  BY <1>1 DEF casewindow_create, Window
<1>3. w.deque = <<>> /\ w.slots = <<>> /\ w.head = 0 /\ w.tail = 0 /\ w.max = m
  BY DEF casewindow_create
<1>4. SubSeq(<<>>, 1, 0) = <<>>
  BY SubSeqEmpty
<1> HIDE DEF w
<1>5. Contents(w) = <<>>
  BY <1>3, <1>4 DEF Contents
<1>6. Sound(w) /\ Held(w, 0)
  BY <1>1, <1>2, <1>3 DEF Sound, Held
<1> QED
  BY <1>5, <1>6 DEF w

(* The elements behind the first m, up to the n-th.                        *)
LEMMA Between ==
  ASSUME NEW S, NEW s \in Seq(S), NEW m \in Nat, NEW n \in Nat, m <= n, n <= Len(s)
  PROVE  /\ SubSeq(s, m + 1, n) \in Seq(S)
         /\ Len(SubSeq(s, m + 1, n)) = n - m
         /\ \A i \in 1 .. n - m : SubSeq(s, m + 1, n)[i] = s[m + i]
<1> DEFINE q == SubSeq(s, m + 1, n)
<1>1. \A i \in m + 1 .. n : s[i] \in S
  <2>1. \A i \in m + 1 .. n : i \in 1 .. Len(s)
    BY LenProperties
  <2> QED
    BY <2>1, ElementOfSeq
<1>2. /\ q \in Seq(S)
      /\ Len(q) = IF m + 1 <= n THEN n - (m + 1) + 1 ELSE 0
      /\ \A i \in 1 .. n - (m + 1) + 1 : q[i] = s[m + 1 + i - 1]
  <2>1. m + 1 \in Int /\ n \in Int
    OBVIOUS
  <2> QED
    BY <1>1, <2>1, SubSeqProperties
<1> HIDE DEF q
<1>3. Len(q) = n - m
  BY <1>2
<1>4. ASSUME NEW i \in 1 .. n - m PROVE q[i] = s[m + i]
  <2>1. i \in 1 .. n - (m + 1) + 1 /\ m + 1 + i - 1 = m + i
    OBVIOUS
  <2> QED
    BY <1>2, <2>1
<1> QED
  BY <1>2, <1>3, <1>4 DEF q

LEMMA CasesBetween ==
  \A s \in Seq(Case), m, n \in Nat : m <= n /\ n <= Len(s) =>
     /\ SubSeq(s, m + 1, n) \in Seq(Case)
     /\ Len(SubSeq(s, m + 1, n)) = n - m
     /\ \A i \in 1 .. n - m : SubSeq(s, m + 1, n)[i] = s[m + i]
BY Between

(* What case_tmpfile_put_case makes of the slots.                          *)
Overwritten(s, n, c) == SubSeq(s, 1, n) \o <<c>> \o SubSeq(s, n + 2, Len(s))

(* Writing an element into the place behind the first n, a new one or one  *)
(* in use, puts it behind them.                                            *)
LEMMA Overwrite ==
  ASSUME NEW S, NEW s \in Seq(S), NEW c \in S, NEW m \in Nat, NEW n \in Nat,
         m <= n, n <= Len(s)
  PROVE  /\ Overwritten(s, n, c) \in Seq(S)
         /\ n + 1 <= Len(Overwritten(s, n, c))
         /\ SubSeq(Overwritten(s, n, c), m + 1, n + 1) = Append(SubSeq(s, m + 1, n), c)
<1> DEFINE a == SubSeq(s, 1, n)
           b == SubSeq(s, n + 2, Len(s))
           p == a \o <<c>>
           t == Overwritten(s, n, c)
           q == SubSeq(s, m + 1, n)
           u == SubSeq(t, m + 1, n + 1)
<1>1. Len(s) \in Nat /\ t = p \o b
  BY LenProperties DEF Overwritten
<1> HIDE DEF t
<1>2. a \in Seq(S) /\ Len(a) = n /\ \A i \in 1 .. n : a[i] = s[i]
  <2>1. /\ SubSeq(s, 0 + 1, n) \in Seq(S)
        /\ Len(SubSeq(s, 0 + 1, n)) = n - 0
        /\ \A i \in 1 .. n - 0 : SubSeq(s, 0 + 1, n)[i] = s[0 + i]
    BY Between
  <2>2. 0 + 1 = 1 /\ n - 0 = n /\ \A i \in 1 .. n : 0 + i = i
    OBVIOUS
  <2> QED
    BY <2>1, <2>2
<1>3. b \in Seq(S) /\ Len(b) \in Nat
  <2>1. \A i \in n + 2 .. Len(s) : s[i] \in S
    <3>1. \A i \in n + 2 .. Len(s) : i \in 1 .. Len(s)
      BY <1>1
    <3> QED
      BY <3>1, ElementOfSeq
  <2>2. b \in Seq(S)
    <3>1. n + 2 \in Int /\ Len(s) \in Int
      BY <1>1
    <3> QED
      BY <2>1, <3>1, SubSeqProperties
  <2> QED
    BY <2>2, LenProperties
<1>4. q \in Seq(S) /\ Len(q) = n - m /\ \A i \in 1 .. n - m : q[i] = s[m + i]
  BY Between
<1> HIDE DEF a, b, q
<1>5. /\ p \in Seq(S) /\ Len(p) = n + 1
      /\ \A i \in 1 .. n + 1 : p[i] = IF i <= n THEN s[i] ELSE c
  <2>1. <<c>> \in Seq(S) /\ Len(<<c>>) = 1 /\ <<c>>[1] = c
    OBVIOUS
  <2>2. /\ p \in Seq(S) /\ Len(p) = n + 1
        /\ \A i \in 1 .. n + 1 : p[i] = IF i <= n THEN a[i] ELSE <<c>>[i - n]
    BY <1>2, <2>1, ConcatProperties
  <2> HIDE DEF p
  <2>3. ASSUME NEW i \in 1 .. n + 1 PROVE p[i] = IF i <= n THEN s[i] ELSE c
    <3>1. CASE i <= n
      BY <1>2, <2>2, <3>1
    <3>2. CASE i = n + 1
      <4>1. i - n = 1
        BY <3>2
      <4> QED
        BY <2>1, <2>2, <3>2, <4>1
    <3> QED
      BY <3>1, <3>2
  <2> QED
    BY <2>2, <2>3
<1> HIDE DEF p
<1>6. /\ t \in Seq(S) /\ Len(t) \in Nat /\ n + 1 <= Len(t)
      /\ \A i \in 1 .. n + 1 : t[i] = IF i <= n THEN s[i] ELSE c
  <2>1. /\ t \in Seq(S) /\ Len(t) = n + 1 + Len(b)
        /\ \A i \in 1 .. n + 1 + Len(b) : t[i] = IF i <= n + 1 THEN p[i] ELSE b[i - (n + 1)]
    <3>1. /\ t \in Seq(S) /\ Len(t) = Len(p) + Len(b)
          /\ \A i \in 1 .. Len(p) + Len(b) : t[i] = IF i <= Len(p) THEN p[i] ELSE b[i - Len(p)]
      BY <1>1, <1>3, <1>5, ConcatProperties
    <3> QED
      BY <1>5, <3>1
  <2>2. \A i \in 1 .. n + 1 : i \in 1 .. n + 1 + Len(b) /\ i <= n + 1
    BY <1>3
  <2>3. \A i \in 1 .. n + 1 : t[i] = IF i <= n THEN s[i] ELSE c
    BY <1>5, <2>1, <2>2
  <2> QED
    BY <1>3, <2>1, <2>3
<1>7. /\ u \in Seq(S) /\ Len(u) = n + 1 - m
      /\ \A i \in 1 .. n + 1 - m : u[i] = t[m + i]
  <2>1. n + 1 \in Nat /\ m <= n + 1
    OBVIOUS
  <2> QED
    BY <1>6, <2>1, Between
<1>8. /\ Append(q, c) \in Seq(S) /\ Len(Append(q, c)) = n - m + 1
      /\ \A i \in 1 .. n - m : Append(q, c)[i] = q[i]
      /\ Append(q, c)[n - m + 1] = c
  BY <1>4, AppendProperties
<1> HIDE DEF u
<1>9. ASSUME NEW i \in 1 .. Len(u) PROVE u[i] = Append(q, c)[i]
  <2>1. u[i] = t[m + i] /\ m + i \in 1 .. n + 1
    BY <1>7
  <2>2. u[i] = IF m + i <= n THEN s[m + i] ELSE c
    BY <1>6, <2>1
  <2>3. CASE m + i <= n
    <3>1. i \in 1 .. n - m
      BY <1>7, <2>3
    <3> QED
      BY <1>4, <1>8, <2>2, <2>3, <3>1
  <2>4. CASE ~ (m + i <= n)
    <3>1. i = n - m + 1
      BY <1>7, <2>4
    <3> QED
      BY <1>8, <2>2, <2>4, <3>1
  <2> QED
    BY <2>3, <2>4
<1>10. u = Append(q, c)
  <2>1. Len(u) = Len(Append(q, c))
    BY <1>7, <1>8
  <2> QED
    BY <1>7, <1>8, <1>9, <2>1, SeqEqual
<1> QED
  BY <1>6, <1>10 DEF q, u, t

(* As many cases as casewindow_get_n_cases says, and the i-th is where     *)
(* casewindow_get_case looks for it.                                       *)
LEMMA ContentsCases ==
  ASSUME NEW w, Sound(w)
  PROVE  /\ Contents(w) \in Seq(Case)
         /\ Len(Contents(w)) = casewindow_get_n_cases(w)
         /\ casewindow_get_n_cases(w) \in Nat
         /\ \A i \in 1 .. casewindow_get_n_cases(w) :
              Contents(w)[i] = IF w.class = "memory" THEN w.deque[i] ELSE w.slots[w.tail + i]
<1>1. CASE w.class = "memory"
  <2>1. w.deque \in Seq(Case)
    BY DEF Sound, Window
  <2> QED
    BY <1>1, <2>1, LenProperties DEF Contents, casewindow_get_n_cases
<1>2. CASE w.class = "file"
  <2>1. /\ w.slots \in Seq(Case) /\ w.head \in Nat /\ w.tail \in Nat
        /\ w.head <= Len(w.slots) /\ w.tail <= w.head
    BY DEF Sound, Window
  <2>2. /\ SubSeq(w.slots, w.tail + 1, w.head) \in Seq(Case)
        /\ Len(SubSeq(w.slots, w.tail + 1, w.head)) = w.head - w.tail
        /\ \A i \in 1 .. w.head - w.tail :
             SubSeq(w.slots, w.tail + 1, w.head)[i] = w.slots[w.tail + i]
    BY <2>1, CasesBetween, Zenon
  <2>3. w.head - w.tail \in Nat
    BY <2>1
  <2> QED
    BY <1>2, <2>2, <2>3 DEF Contents, casewindow_get_n_cases
<1> QED
  BY <1>1, <1>2 DEF Sound, Window

-----------------------------------------------------------------------------
(* casewindow_push_head puts the case behind the others, whether it stays  *)
(* in memory, is written to the file or is the one that sends all to disk. *)
LEMMA PushAppends ==
  ASSUME NEW w, Sound(w), NEW n \in Nat, n < MaxCases, Held(w, n), NEW c \in Case
  PROVE  LET v == casewindow_push_head(w, c, MaxCases) IN
         /\ Sound(v)
         /\ Held(v, n + 1)
         /\ Contents(v) = Append(Contents(w), c)
<1> DEFINE v == casewindow_push_head(w, c, MaxCases)
           d == Append(w.deque, c)
<1>1. /\ w \in Window /\ ~w.tainted /\ ~w.broken /\ MaxCases \in Nat /\ MaxCases > 0
      /\ w.deque \in Seq(Case) /\ w.slots \in Seq(Case) /\ w.max \in Nat
      /\ w.head \in Nat /\ w.tail \in Nat /\ w.tail <= w.head /\ w.head <= Len(w.slots)
  <2>1. MaxCases \in Nat /\ MaxCases > 0
    BY WindowAssumption
  <2>2. w \in Window /\ w.tail <= w.head /\ w.head <= Len(w.slots)
    BY DEF Sound
  <2> QED
    BY <2>1, <2>2 DEF Window
<1>2. /\ Len(w.deque) \in Nat /\ Len(w.slots) \in Nat
      /\ Len(w.deque) <= n /\ w.head <= n /\ Len(w.deque) <= w.max
  BY <1>1, LenProperties DEF Sound, Held
<1>3. d \in Seq(Case) /\ Len(d) = Len(w.deque) + 1
  BY <1>1, AppendProperties
<1>4. CASE w.class = "file"
  <2> DEFINE s == Overwritten(w.slots, w.head, c)
  <2>1. v = [w EXCEPT !.slots = s, !.head = w.head + 1]
    BY <1>1, <1>4 DEF casewindow_push_head, file_push_head, WriteOk,
         case_tmpfile_put_case, Overwritten, Window
  <2>2. /\ s \in Seq(Case)
        /\ w.head + 1 <= Len(s)
        /\ SubSeq(s, w.tail + 1, w.head + 1) = Append(SubSeq(w.slots, w.tail + 1, w.head), c)
    <3>1. \A x \in Seq(Case), l, k \in Nat : l <= k /\ k <= Len(x) =>
            /\ Overwritten(x, k, c) \in Seq(Case)
            /\ k + 1 <= Len(Overwritten(x, k, c))
            /\ SubSeq(Overwritten(x, k, c), l + 1, k + 1) = Append(SubSeq(x, l + 1, k), c)
      BY Overwrite
    <3> QED
      BY <1>1, <3>1, Zenon
  <2> HIDE DEF s, v
  <2>3. /\ v.class = "file" /\ v.slots = s /\ v.head = w.head + 1 /\ v.tail = w.tail
        /\ v.deque = w.deque /\ v.max = w.max
    BY <1>1, <1>4, <2>1 DEF Window
  <2>4. v \in Window
    <3>1. s \in Seq(Case) /\ w.head + 1 \in Nat
      <4>1. w.head + 1 \in Nat
        BY <1>1
      <4> QED
        BY <2>2, <4>1, Zenon
    <3> QED
      BY <1>1, <2>1, <3>1 DEF Window
  <2>5. w.deque = <<>>
    BY <1>4 DEF Sound
  <2>6. Sound(v)
    BY <1>1, <1>2, <2>2, <2>3, <2>4, <2>5 DEF Sound
  <2>7. Held(v, n + 1)
    BY <1>1, <1>2, <2>3 DEF Held
  <2>8. Contents(v) = Append(Contents(w), c)
    BY <1>4, <2>2, <2>3 DEF Contents
  <2> QED
    BY <2>6, <2>7, <2>8 DEF v
<1>5. CASE w.class = "memory" /\ Len(d) <= w.max
  <2>1. v = [w EXCEPT !.deque = d]
    BY <1>1, <1>3, <1>5 DEF casewindow_push_head, Window
  <2> HIDE DEF d, v
  <2>2. /\ v.class = "memory" /\ v.deque = d /\ v.max = w.max
        /\ v.slots = w.slots /\ v.head = w.head /\ v.tail = w.tail
    BY <1>1, <1>5, <2>1 DEF Window
  <2>3. v \in Window
    BY <1>1, <1>3, <2>1 DEF Window
  <2>4. Sound(v) /\ Held(v, n + 1)
    BY <1>1, <1>2, <1>3, <1>5, <2>2, <2>3 DEF Sound, Held
  <2>5. Contents(v) = Append(Contents(w), c)
    BY <1>5, <2>2 DEF Contents, d
  <2> QED
    BY <2>4, <2>5 DEF v
<1>6. CASE w.class = "memory" /\ ~ (Len(d) <= w.max)
  <2>1. Len(d) > w.max /\ ~ (MaxCases < Len(d)) /\ Len(d) \in Nat
    BY <1>1, <1>2, <1>3, <1>6
  <2>2. SubSeq(d, 1, Len(d)) = d
    BY <1>3, SubSeqFull
  <2>3. [w EXCEPT !.deque = Append(@, c)].deque = d
        /\ [w EXCEPT !.deque = Append(@, c)].max = w.max
        /\ [w EXCEPT !.deque = Append(@, c)].tainted = FALSE
    BY <1>1 DEF Window
  <2> HIDE DEF d
  <2>4. v = [casewindow_create(0) EXCEPT !.slots = d, !.head = Len(d), !.broken = FALSE,
                                         !.tainted = FALSE]
    <3>1. v = casewindow_to_disk([w EXCEPT !.deque = Append(@, c)], MaxCases)
      BY <1>1, <1>6, <2>1, <2>3 DEF casewindow_push_head
    <3> HIDE DEF v
    <3>2. (Len(d) < Len(d)) = FALSE
      BY <2>1
    <3> DEFINE x == [w EXCEPT !.deque = Append(@, c)]
    <3> HIDE DEF x
    <3>3. v = casewindow_to_disk(x, MaxCases) /\ x.deque = d /\ x.tainted = FALSE
      BY <2>3, <3>1 DEF x
    <3>4. v = [casewindow_create(0) EXCEPT !.slots = SubSeq(d, 1, Len(d)), !.head = Len(d),
                 !.broken = Len(d) < Len(d), !.tainted = FALSE]
      BY <2>1, <3>3, Zenon DEF casewindow_to_disk
    <3> QED
      BY <2>2, <3>2, <3>4
  <2> HIDE DEF v
  <2>5. /\ v.class = "file" /\ v.deque = <<>> /\ v.max = 0 /\ v.slots = d
        /\ v.head = Len(d) /\ v.tail = 0 /\ v.broken = FALSE /\ v.tainted = FALSE
    BY <2>4 DEF casewindow_create
  <2>6. v \in Window
    <3>1. <<>> \in Seq(Case)
      OBVIOUS
    <3> QED
      BY <1>3, <2>1, <2>4, <3>1 DEF Window, casewindow_create
  <2>7. Len(<<>>) = 0
    OBVIOUS
  <2>8. Sound(v) /\ Held(v, n + 1)
    BY <1>2, <1>3, <2>1, <2>5, <2>6, <2>7 DEF Sound, Held
  <2>9. Contents(v) = d
    BY <2>2, <2>5 DEF Contents
  <2> QED
    BY <1>6, <2>8, <2>9 DEF v, d, Contents
<1> QED
  BY <1>1, <1>4, <1>5, <1>6 DEF Window

(* casewindow_pop_tail takes away the oldest cases. When none is left the  *)
(* file starts over, and what its slots still hold is not in the window.   *)
LEMMA PopRemoves ==
  ASSUME NEW w, Sound(w), NEW h \in Nat, Held(w, h),
         NEW n \in Nat, n > 0, n <= casewindow_get_n_cases(w)
  PROVE  LET v == casewindow_pop_tail(w, n) IN
         /\ Sound(v)
         /\ Held(v, h)
         /\ Contents(v) = SubSeq(Contents(w), n + 1, Len(Contents(w)))
<1> DEFINE v == casewindow_pop_tail(w, n)
<1>1. /\ w \in Window /\ ~w.tainted
      /\ w.deque \in Seq(Case) /\ w.slots \in Seq(Case) /\ w.max \in Nat
      /\ w.head \in Nat /\ w.tail \in Nat /\ w.tail <= w.head /\ w.head <= Len(w.slots)
  <2>1. w \in Window /\ w.tail <= w.head /\ w.head <= Len(w.slots)
    BY DEF Sound
  <2> QED
    BY <2>1 DEF Window
<1>2. /\ Len(w.deque) \in Nat /\ Len(w.slots) \in Nat
      /\ Len(w.deque) <= h /\ w.head <= h /\ Len(w.deque) <= w.max
  BY <1>1, LenProperties DEF Sound, Held
<1>3. CASE w.class = "memory"
  <2> DEFINE d == SubSeq(w.deque, n + 1, Len(w.deque))
  <2>1. n <= Len(w.deque)
    BY <1>3 DEF casewindow_get_n_cases
  <2>2. d \in Seq(Case) /\ Len(d) = Len(w.deque) - n
    <3>1. Len(w.deque) <= Len(w.deque)
      BY <1>2
    <3> QED
      BY <1>1, <1>2, <2>1, <3>1, CasesBetween, Zenon
  <2>3. v = [w EXCEPT !.deque = d]
    BY <1>1, <1>3 DEF casewindow_pop_tail, Window
  <2>4. Contents(w) = w.deque
    BY <1>3 DEF Contents
  <2> HIDE DEF v, d
  <2>5. /\ v.class = "memory" /\ v.deque = d /\ v.max = w.max
        /\ v.slots = w.slots /\ v.head = w.head /\ v.tail = w.tail
    BY <1>1, <1>3, <2>3 DEF Window
  <2>6. v \in Window
    BY <1>1, <2>2, <2>3 DEF Window
  <2>7. Sound(v) /\ Held(v, h)
    BY <1>1, <1>2, <1>3, <2>2, <2>5, <2>6 DEF Sound, Held
  <2>8. Contents(v) = d
    BY <2>5 DEF Contents
  <2> QED
    BY <2>4, <2>7, <2>8 DEF v, d
<1>4. CASE w.class = "file"
  <2> DEFINE q == SubSeq(w.slots, w.tail + 1, w.head)
  <2>1. n <= w.head - w.tail /\ w.deque = <<>> /\ Contents(w) = q
    BY <1>4 DEF casewindow_get_n_cases, Contents, Sound
  <2>2. /\ q \in Seq(Case) /\ Len(q) = w.head - w.tail
        /\ \A i \in 1 .. w.head - w.tail : q[i] = w.slots[w.tail + i]
    BY <1>1, CasesBetween, ZenonT(30)
  <2> HIDE DEF q
  <2>3. CASE w.tail + n = w.head
    <3>1. v = [w EXCEPT !.head = 0, !.tail = 0]
      BY <1>1, <1>4, <2>3 DEF casewindow_pop_tail, file_pop_tail
    <3> HIDE DEF v
    <3>2. /\ v.class = "file" /\ v.deque = <<>> /\ v.max = w.max
          /\ v.slots = w.slots /\ v.head = 0 /\ v.tail = 0
      BY <1>1, <1>4, <2>1, <3>1 DEF Window
    <3>3. v \in Window
      BY <1>1, <3>1 DEF Window
    <3>4. Sound(v) /\ Held(v, h)
      BY <1>1, <1>2, <2>1, <3>2, <3>3 DEF Sound, Held
    <3>5. Contents(v) = <<>>
      <4>1. SubSeq(w.slots, 0 + 1, 0) = <<>>
        BY SubSeqEmpty
      <4> QED
        BY <3>2, <4>1 DEF Contents
    <3>6. SubSeq(q, n + 1, Len(q)) = <<>>
      <4>1. Len(q) < n + 1 /\ Len(q) \in Int /\ n + 1 \in Int
        BY <1>1, <2>2, <2>3
      <4> QED
        BY <4>1, SubSeqEmpty
    <3> QED
      BY <2>1, <3>4, <3>5, <3>6 DEF v
  <2>4. CASE w.tail + n # w.head
    <3> DEFINE u == SubSeq(w.slots, w.tail + n + 1, w.head)
               r == SubSeq(q, n + 1, Len(q))
    <3>1. v = [w EXCEPT !.tail = w.tail + n]
      BY <1>1, <1>4, <2>4 DEF casewindow_pop_tail, file_pop_tail, Window
    <3> HIDE DEF v
    <3>2. /\ v.class = "file" /\ v.deque = <<>> /\ v.max = w.max
          /\ v.slots = w.slots /\ v.head = w.head /\ v.tail = w.tail + n
      BY <1>1, <1>4, <2>1, <3>1 DEF Window
    <3>3. w.tail + n < w.head /\ w.tail + n \in Nat
      BY <1>1, <2>1, <2>4
    <3>4. v \in Window
      BY <1>1, <3>1, <3>3 DEF Window
    <3>5. Sound(v) /\ Held(v, h)
      BY <1>1, <1>2, <2>1, <3>2, <3>3, <3>4 DEF Sound, Held
    <3>6. /\ u \in Seq(Case) /\ Len(u) = w.head - (w.tail + n)
          /\ \A i \in 1 .. w.head - (w.tail + n) : u[i] = w.slots[w.tail + n + i]
      <4>1. w.tail + n <= w.head
        BY <1>1, <3>3
      <4> QED
        BY <1>1, <3>3, <4>1, CasesBetween, Zenon
    <3>7. /\ r \in Seq(Case) /\ Len(r) = Len(q) - n
          /\ \A i \in 1 .. Len(q) - n : r[i] = q[n + i]
      <4>1. Len(q) \in Nat /\ n <= Len(q)
        BY <1>1, <2>1, <2>2
      <4> QED
        BY <2>2, <4>1, Between
    <3> HIDE DEF u, r
    <3>8. ASSUME NEW i \in 1 .. Len(u) PROVE u[i] = r[i]
      <4>1. /\ i \in 1 .. w.head - (w.tail + n)
            /\ i \in 1 .. Len(q) - n
            /\ n + i \in 1 .. w.head - w.tail
            /\ w.tail + (n + i) = w.tail + n + i
        <5>1. /\ w.head \in Nat /\ w.tail \in Nat /\ Len(q) = w.head - w.tail
              /\ Len(u) = w.head - (w.tail + n) /\ w.tail + n < w.head
          BY <1>1, <2>2, <3>3, <3>6, Zenon
        <5> QED
          BY <5>1
      <4> QED
        BY <2>2, <3>6, <3>7, <4>1
    <3>9. u = r
      <4>1. Len(u) = Len(r)
        BY <1>1, <2>2, <3>6, <3>7
      <4> QED
        BY <3>6, <3>7, <3>8, <4>1, SeqEqual
    <3>10. Contents(v) = u
      BY <3>2 DEF Contents, u
    <3> QED
      BY <2>1, <3>5, <3>9, <3>10 DEF v, r
  <2> QED
    BY <2>3, <2>4
<1> QED
  BY <1>1, <1>3, <1>4 DEF Window

(* casewindow_get_case finds the case that many places from the tail and   *)
(* leaves the window alone.                                                *)
LEMMA GetFinds ==
  ASSUME NEW w, Sound(w), NEW idx \in Nat, idx < casewindow_get_n_cases(w)
  PROVE  /\ AfterGet(w, TRUE) = w
         /\ casewindow_get_case(w, idx, TRUE) = Contents(w)[idx + 1]
<1>1. /\ ~w.tainted /\ ~w.broken /\ w.class \in {"memory", "file"} /\ w.tail \in Nat
      /\ w.class = "file" => w.head \in Nat
  BY DEF Sound, Window
<1>2. idx + 1 \in 1 .. casewindow_get_n_cases(w) /\ w.tail + idx + 1 = w.tail + (idx + 1)
  BY <1>1, ContentsCases
<1>3. casewindow_get_case(w, idx, TRUE) =
        IF w.class = "memory" THEN w.deque[idx + 1] ELSE w.slots[w.tail + (idx + 1)]
  BY <1>1, <1>2 DEF casewindow_get_case, ReadOk
<1> QED
  BY <1>1, <1>2, <1>3, ContentsCases DEF AfterGet

-----------------------------------------------------------------------------
(* The initial states and the steps of CaseWindow are those of CaseQueue.  *)
LEMMA InitQueue ==
  ASSUME Init
  PROVE  IInv /\ Queue!Init
<1>1. PICK m \in 0 .. MaxInCore : window = casewindow_create(m)
  BY DEF Init
<1>2. m \in Nat /\ MaxCases \in Nat
  BY WindowAssumption
<1>3. Sound(window) /\ Held(window, 0) /\ Contents(window) = <<>>
  BY <1>1, <1>2, CreateEmpty
<1> QED
  BY <1>2, <1>3 DEF Init, IInv, Queue!Init, NoCase

LEMMA NextQueue ==
  ASSUME IInv, [Next]_vars
  PROVE  IInv' /\ [Queue!Next]_Queue!vars
<1>1. /\ Sound(window) /\ pushed \in Nat /\ Held(window, pushed) /\ MaxCases \in Nat
      /\ pushed \in 0 .. MaxCases
  BY WindowAssumption DEF IInv
<1>2. /\ Contents(window) \in Seq(Case)
      /\ Len(Contents(window)) = casewindow_get_n_cases(window)
      /\ casewindow_get_n_cases(window) \in Nat
  BY <1>1, ContentsCases
<1>3. CASE PushHead
  <2>1. pushed < MaxCases /\ pushed' = pushed + 1 /\ pushed' \in Case /\ reply' = 0
    BY <1>1, <1>3 DEF PushHead, Case, NoCase
  <2>2. /\ Sound(window')
        /\ Held(window', pushed + 1)
        /\ Contents(window') = Append(Contents(window), pushed')
    BY <1>1, <1>3, <2>1, PushAppends DEF PushHead
  <2>3. IInv'
    BY <1>1, <2>1, <2>2 DEF IInv
  <2>4. Queue!Push
    BY <2>1, <2>2 DEF Queue!Push
  <2> QED
    BY <2>3, <2>4 DEF Queue!Next
<1>4. ASSUME NEW n \in 1 .. MaxCases, PopTail(n) PROVE IInv' /\ Queue!Next
  <2>1. /\ n \in Nat /\ n > 0 /\ n <= casewindow_get_n_cases(window)
        /\ pushed' = pushed /\ reply' = 0
    BY <1>4 DEF PopTail, NoCase
  <2>2. /\ Sound(window')
        /\ Held(window', pushed)
        /\ Contents(window') = SubSeq(Contents(window), n + 1, Len(Contents(window)))
    BY <1>1, <1>4, <2>1, PopRemoves DEF PopTail
  <2>3. IInv'
    BY <1>1, <2>1, <2>2 DEF IInv
  <2>4. Queue!Pop(n)
    BY <1>2, <2>1, <2>2 DEF Queue!Pop
  <2> QED
    BY <1>4, <2>3, <2>4 DEF Queue!Next
<1>5. ASSUME NEW idx \in 0 .. MaxCases, GetCase(idx) PROVE IInv' /\ Queue!Next
  <2>1. /\ idx \in Nat /\ idx < casewindow_get_n_cases(window) /\ pushed' = pushed
        /\ window' = AfterGet(window, TRUE)
        /\ reply' = casewindow_get_case(window, idx, TRUE)
    BY <1>5 DEF GetCase
  <2>2. window' = window /\ reply' = Contents(window)[idx + 1]
    BY <1>1, <2>1, GetFinds
  <2>3. IInv'
    BY <1>1, <2>1, <2>2 DEF IInv
  <2>4. Queue!Get(idx)
    BY <1>2, <2>1, <2>2 DEF Queue!Get
  <2> QED
    BY <1>5, <2>3, <2>4 DEF Queue!Next
<1>6. CASE UNCHANGED vars
  BY <1>6 DEF vars, IInv, Queue!vars
<1> QED
  BY <1>3, <1>4, <1>5, <1>6 DEF Next

THEOREM Inductive == Spec => []IInv
<1>1. Init => IInv
  BY InitQueue
<1>2. IInv /\ [Next]_vars => IInv'
  BY NextQueue
<1> QED
  BY <1>1, <1>2, PTL DEF Spec

(* The window never keeps more cases in memory than it was created for,    *)
(* and a file that has been emptied is used from its start again           *)
(* (casewindow_push_head, casewindow_file_pop_tail).                       *)
THEOREM InMemory == Spec => []WithinCore
<1>1. IInv => WithinCore
  BY DEF IInv, Sound, Window, WithinCore
<1> QED
  BY <1>1, Inductive, PTL

(* For any limit and any number of cases, the move to disk and the reuse   *)
(* of slots never show: a casewindow is a first-in first-out queue.        *)
THEOREM FirstInFirstOut == Spec => IsQueue
<1>1. Init => Queue!Init
  BY InitQueue
<1>2. IInv /\ [Next]_vars => [Queue!Next]_Queue!vars
  BY NextQueue
<1> QED
  BY <1>1, <1>2, Inductive, PTL DEF Spec, IsQueue, Queue!Spec
=============================================================================
