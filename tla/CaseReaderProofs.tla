-------------------------- MODULE CaseReaderProofs --------------------------
(* Proofs about CaseReader, for any readers, lengths and limits.           *)
EXTENDS MCCaseReader, SequenceTheorems, WellFoundedInduction, TLAPS

(* A window as a value, whatever has become of its temporary file, and the *)
(* case at a place of it.                                                  *)
Windows ==
  [class : {"memory", "file"}, max : Nat, deque : Seq(Nat), slots : Seq(Nat),
   head : Nat, tail : Nat, broken : BOOLEAN, tainted : {FALSE}]

Size(w) == casewindow_get_n_cases(w)
CaseAt(w, k) == IF w.class = "memory" THEN w.deque[k] ELSE w.slots[w.tail + k]

Sound(w) ==
  /\ w \in Windows
  /\ w.class = "memory" => Len(w.deque) <= w.max /\ ~ w.broken
  /\ w.class = "file" => w.tail <= w.head /\ w.head <= Len(w.slots)

Counts == (0 .. NCases) \cup {CASENUMBER_MAX}

Calls ==
  {Idle} \cup [op : {"read", "peek"}, r : Reader, depth : 0 .. NCases]
         \cup [op : {"clone"}, r : Reader, new : Reader]

Countings ==
  {Idle} \cup [op : {"count"}, r : Reader, clone : Reader, max : Counts, i : 0 .. NCases,
               more : BOOLEAN]

Random(r) == class[r] = "random"

(* The call in progress is of a reader that exists; what a read will take  *)
(* off the limit is already taken off.                                     *)
Calling ==
  /\ call # Idle => class[call.r] # "none"
  /\ call.op = "read" => call.depth = 0
                         /\ n_cases[call.r] \in {CASENUMBER_MAX} \cup 0 .. NCases - 1
  /\ call.op = "peek" => call.depth < n_cases[call.r]
  /\ call.op = "clone" => class[call.new] = "none"

(* The clone that counts is as far ahead of its original as it has counted. *)
Counting ==
  count # Idle =>
    /\ n_cases[count.r] = CASENUMBER_MAX /\ count.r # count.clone
    /\ class[count.r] # "none" /\ count.i <= count.max
    /\ \/ /\ call.op = "clone" /\ call.r = count.r /\ call.new = count.clone
          /\ count.i = 0 /\ count.more
       \/ /\ \/ call = Idle
             \/ call.op = "read" /\ call.r = count.clone /\ count.more /\ count.i < count.max
          /\ Random(count.r) /\ Random(count.clone)
          /\ offset[count.clone] = offset[count.r] + count.i
          /\ count.more => n_cases[count.clone] = CASENUMBER_MAX

(* A sequential reader is alone; random ones have a window, which begins   *)
(* where the hindmost stands and has no more than came from the source.    *)
Spread ==
  /\ \A r \in Reader : class[r] = "source" => store = "none" /\ \A q \in Live : q = r
  /\ \A r \in Reader : ~ Random(r) => offset[r] = 0
  /\ \A r \in Reader : Random(r) =>
       /\ store \in {"window", "shim"} /\ offset[r] >= min_offset
       /\ \E q \in Reader : Random(q) /\ offset[q] = min_offset
  /\ Live = {} => min_offset = 0
  /\ store = "writer" => Live = {}
  /\ min_offset + Size(window) <= source.taken

Ordered ==
  /\ \A k \in 1 .. Size(window) : CaseAt(window, k) \in 1 .. source.taken
  /\ \A j, k \in 1 .. Size(window) : j < k => CaseAt(window, j) < CaseAt(window, k)

(* The inductive invariant, also where the temporary file fails. Lost      *)
(* cases may make an assertion fail, which is the end.                     *)
Safe ==
  /\ TypeOK /\ call \in Calls /\ count \in Countings
  /\ Sound(window) /\ Ordered
  /\ source.taken <= source.length
  /\ store = "writer" => source.taken = source.length
  /\ IF aborted THEN call = Idle /\ store # "writer"
     ELSE Calling /\ Counting /\ Spread

(* What is true besides where it does not: the window has the last cases   *)
(* that came from the source.                                              *)
Latest ==
  /\ ~ aborted /\ ~ window.broken
  /\ window.class = "memory" => window.max \in {MaxInCore, CASENUMBER_MAX}
  /\ \A k \in 1 .. Size(window) : CaseAt(window, k) = source.taken - Size(window) + k
  /\ \A r \in Reader : Random(r) => offset[r] <= min_offset + Size(window)
  /\ store = "writer" => Size(window) = source.taken /\ tainted = {}
  /\ store = "none" => Size(window) = 0

(* Where no case is to come any more, the source had no more, or it failed *)
(* as the readers know, or none of them is to read beyond it.              *)
Spoken(q) == Limit(q) + Place(q)

Known ==
  /\ \A r \in Reader : class[r] = "source" => "reader" \notin tainted
  /\ (\E r \in Reader : Random(r)) =>
       /\ "source" \in tainted => "reader" \in tainted
       /\ IF subreader.open
          THEN subreader.n_cases # CASENUMBER_MAX =>
                 \A r \in Reader : Random(r) =>
                   n_cases[r] # CASENUMBER_MAX /\ Spoken(r) <= source.taken + subreader.n_cases
          ELSE \/ source.taken = source.length \/ "reader" \in tainted
               \/ \A r \in Reader : Random(r) => Spoken(r) <= source.taken
  /\ store \in {"none", "writer", "window"} => ~ subreader.open
  /\ (count # Idle /\ call = Idle /\ ~ count.more) =>
       Place(count.clone) = source.length \/ "reader" \in tainted

Exact == Latest /\ Known

-----------------------------------------------------------------------------
(* The window.                                                             *)
LEMMA WindowIs ==
  ASSUME NEW w, Sound(w)
  PROVE  /\ w \in Windows
         /\ w.class \in {"memory", "file"} /\ w.max \in Nat /\ w.broken \in BOOLEAN
         /\ w.deque \in Seq(Nat) /\ w.slots \in Seq(Nat) /\ w.head \in Nat /\ w.tail \in Nat
         /\ Len(w.deque) \in Nat /\ Len(w.slots) \in Nat /\ ~ w.tainted
<1>1. /\ w \in Windows
      /\ w.class \in {"memory", "file"} /\ w.max \in Nat /\ w.broken \in BOOLEAN
      /\ w.deque \in Seq(Nat) /\ w.slots \in Seq(Nat) /\ w.head \in Nat /\ w.tail \in Nat
  BY DEF Sound, Windows
<1>2. ~ w.tainted
  BY DEF Sound, Windows
<1> QED
  BY <1>1, <1>2, LenProperties

LEMMA SizeIs ==
  ASSUME NEW w, Sound(w)
  PROVE  /\ Size(w) \in Nat
         /\ w.class = "memory" => Size(w) = Len(w.deque) /\ Size(w) <= w.max
         /\ w.class = "file" => Size(w) = w.head - w.tail
         /\ \A k \in 1 .. Size(w) : CaseAt(w, k) \in Nat
<1>1. /\ w.class \in {"memory", "file"} /\ w.deque \in Seq(Nat) /\ w.slots \in Seq(Nat)
      /\ w.head \in Nat /\ w.tail \in Nat /\ Len(w.deque) \in Nat /\ Len(w.slots) \in Nat
  BY WindowIs
<1>2. CASE w.class = "memory"
  <2>1. Size(w) = Len(w.deque) /\ Size(w) <= w.max
    BY <1>2 DEF Size, casewindow_get_n_cases, Sound
  <2> QED
    BY <1>1, <1>2, <2>1, ElementOfSeq DEF CaseAt
<1>3. CASE w.class = "file"
  <2>1. Size(w) = w.head - w.tail /\ w.tail <= w.head /\ w.head <= Len(w.slots)
    BY <1>3 DEF Size, casewindow_get_n_cases, Sound
  <2>2. Size(w) \in Nat /\ \A k \in 1 .. Size(w) : w.tail + k \in 1 .. Len(w.slots)
    BY <1>1, <2>1, SMTT(30)
  <2> QED
    BY <1>1, <1>3, <2>1, <2>2, ElementOfSeq DEF CaseAt
<1> QED
  BY <1>1, <1>2, <1>3

(* A part of a sequence.                                                   *)
LEMMA Part ==
  ASSUME NEW s \in Seq(Nat), NEW m \in Nat, NEW n \in Nat, m <= n, n <= Len(s)
  PROVE  /\ SubSeq(s, m + 1, n) \in Seq(Nat)
         /\ Len(SubSeq(s, m + 1, n)) = n - m
         /\ \A i \in 1 .. n - m : SubSeq(s, m + 1, n)[i] = s[m + i]
<1> DEFINE q == SubSeq(s, m + 1, n)
<1>1. m + 1 \in Int /\ n \in Int /\ \A i \in m + 1 .. n : i \in 1 .. Len(s)
  BY LenProperties
<1>2. \A i \in m + 1 .. n : s[i] \in Nat
  BY <1>1, ElementOfSeq
<1>3. /\ q \in Seq(Nat)
      /\ Len(q) = IF m + 1 <= n THEN n - (m + 1) + 1 ELSE 0
      /\ \A i \in 1 .. n - (m + 1) + 1 : q[i] = s[m + 1 + i - 1]
  BY <1>1, <1>2, SubSeqProperties
<1> HIDE DEF q
<1>4. Len(q) = n - m
  BY <1>3
<1>5. ASSUME NEW i \in 1 .. n - m PROVE q[i] = s[m + i]
  <2>1. i \in 1 .. n - (m + 1) + 1 /\ m + 1 + i - 1 = m + i
    OBVIOUS
  <2> QED
    BY <1>3, <2>1
<1> QED
  BY <1>3, <1>4, <1>5 DEF q

LEMMA PartsOf ==
  \A s \in Seq(Nat), m, n \in Nat : m <= n /\ n <= Len(s) =>
    /\ SubSeq(s, m + 1, n) \in Seq(Nat)
    /\ Len(SubSeq(s, m + 1, n)) = n - m
    /\ \A i \in 1 .. n - m : SubSeq(s, m + 1, n)[i] = s[m + i]
BY Part

LEMMA ContentsAre ==
  ASSUME NEW w, Sound(w)
  PROVE  /\ Contents(w) \in Seq(Nat) /\ Len(Contents(w)) = Size(w)
         /\ \A k \in 1 .. Size(w) : Contents(w)[k] = CaseAt(w, k)
<1>1. CASE w.class = "memory"
  BY <1>1, WindowIs, SizeIs DEF Contents, CaseAt
<1>2. CASE w.class = "file"
  <2>1. /\ w.slots \in Seq(Nat) /\ w.tail \in Nat /\ w.head \in Nat
        /\ w.tail <= w.head /\ w.head <= Len(w.slots)
    BY <1>2, WindowIs DEF Sound
  <2>2. Size(w) = w.head - w.tail
    BY <1>2, SizeIs
  <2>3. /\ SubSeq(w.slots, w.tail + 1, w.head) \in Seq(Nat)
        /\ Len(SubSeq(w.slots, w.tail + 1, w.head)) = w.head - w.tail
        /\ \A k \in 1 .. w.head - w.tail :
             SubSeq(w.slots, w.tail + 1, w.head)[k] = w.slots[w.tail + k]
    BY <2>1, PartsOf, Zenon
  <2>4. Contents(w) = SubSeq(w.slots, w.tail + 1, w.head) /\ \A k : CaseAt(w, k) = w.slots[w.tail + k]
    BY <1>2 DEF Contents, CaseAt
  <2> QED
    BY <2>2, <2>3, <2>4
<1> QED
  BY <1>1, <1>2, WindowIs

LEMMA Created ==
  ASSUME NEW m \in Nat
  PROVE  LET w == casewindow_create(m)
         IN Sound(w) /\ Size(w) = 0 /\ ~ w.broken /\ w.max = m
<1> DEFINE w == casewindow_create(m)
<1>1. <<>> \in Seq(Nat) /\ Len(<<>>) = 0
  BY EmptySeq
<1>2. /\ w \in Windows /\ w.deque = <<>> /\ w.slots = <<>> /\ w.head = 0 /\ w.tail = 0
      /\ ~ w.broken /\ w.max = m
  BY <1>1 DEF casewindow_create, Windows
<1> HIDE DEF w
<1> QED
  BY <1>1, <1>2 DEF Sound, Size, casewindow_get_n_cases, w

(* What case_tmpfile_put_case makes of the slots.                          *)
Written(s, n, c) == SubSeq(s, 1, n) \o <<c>> \o SubSeq(s, n + 2, Len(s))

LEMMA PutCase ==
  ASSUME NEW s \in Seq(Nat), NEW n \in Nat, n <= Len(s), NEW c \in Nat
  PROVE  /\ Written(s, n, c) \in Seq(Nat) /\ n + 1 <= Len(Written(s, n, c))
         /\ \A k \in 1 .. n + 1 : Written(s, n, c)[k] = IF k <= n THEN s[k] ELSE c
<1> DEFINE a == SubSeq(s, 1, n)
           b == SubSeq(s, n + 2, Len(s))
           p == a \o <<c>>
           t == Written(s, n, c)
<1>0. t = p \o b
  BY DEF Written
<1> HIDE DEF t
<1>1. a \in Seq(Nat) /\ Len(a) = n /\ \A k \in 1 .. n : a[k] = s[k]
  <2>1. /\ SubSeq(s, 0 + 1, n) \in Seq(Nat) /\ Len(SubSeq(s, 0 + 1, n)) = n - 0
        /\ \A i \in 1 .. n - 0 : SubSeq(s, 0 + 1, n)[i] = s[0 + i]
    BY Part
  <2>2. 0 + 1 = 1 /\ n - 0 = n /\ \A i \in 1 .. n : 0 + i = i
    OBVIOUS
  <2> QED
    BY <2>1, <2>2
<1>2. b \in Seq(Nat) /\ Len(b) \in Nat
  <2>1. n + 2 \in Int /\ Len(s) \in Int /\ \A i \in n + 2 .. Len(s) : i \in 1 .. Len(s)
    BY LenProperties
  <2>2. \A i \in n + 2 .. Len(s) : s[i] \in Nat
    BY <2>1, ElementOfSeq
  <2>3. b \in Seq(Nat)
    BY <2>1, <2>2, SubSeqProperties
  <2> QED
    BY <2>3, LenProperties
<1> HIDE DEF a, b
<1>3. p \in Seq(Nat) /\ Len(p) = n + 1 /\ \A k \in 1 .. n + 1 : p[k] = IF k <= n THEN s[k] ELSE c
  <2>1. <<c>> \in Seq(Nat) /\ Len(<<c>>) = 1 /\ <<c>>[1] = c
    OBVIOUS
  <2>2. /\ p \in Seq(Nat) /\ Len(p) = n + 1
        /\ \A k \in 1 .. n + 1 : p[k] = IF k <= n THEN a[k] ELSE <<c>>[k - n]
    BY <1>1, <2>1, ConcatProperties
  <2> HIDE DEF p
  <2>3. ASSUME NEW k \in 1 .. n + 1 PROVE p[k] = IF k <= n THEN s[k] ELSE c
    <3>1. CASE k <= n
      BY <1>1, <2>2, <3>1
    <3>2. CASE k = n + 1
      <4>1. k - n = 1
        BY <3>2
      <4> QED
        BY <2>1, <2>2, <3>2, <4>1
    <3> QED
      BY <3>1, <3>2
  <2> QED
    BY <2>2, <2>3
<1> HIDE DEF p
<1>4. /\ t \in Seq(Nat) /\ Len(t) = n + 1 + Len(b)
      /\ \A k \in 1 .. n + 1 + Len(b) : t[k] = IF k <= n + 1 THEN p[k] ELSE b[k - (n + 1)]
  <2>1. /\ t \in Seq(Nat) /\ Len(t) = Len(p) + Len(b)
        /\ \A k \in 1 .. Len(p) + Len(b) : t[k] = IF k <= Len(p) THEN p[k] ELSE b[k - Len(p)]
    BY <1>0, <1>2, <1>3, ConcatProperties
  <2> QED
    BY <1>3, <2>1
<1>5. \A k \in 1 .. n + 1 : k \in 1 .. n + 1 + Len(b) /\ k <= n + 1
  BY <1>2
<1> QED
  BY <1>2, <1>3, <1>4, <1>5, SMTT(30) DEF t

(* A case is put behind the others, or is lost with some of the newest.    *)
LEMMA Pushed ==
  ASSUME NEW w, Sound(w), NEW c \in Nat, NEW good \in Nat,
         NEW v, v = casewindow_push_head(w, c, good)
  PROVE  /\ Sound(v) /\ Size(v) <= Size(w) + 1
         /\ \A k \in 1 .. Size(v) : CaseAt(v, k) = IF k <= Size(w) THEN CaseAt(w, k) ELSE c
         /\ v.class = "memory" => v.max = w.max
         /\ (~ w.broken /\ good > 0 /\ (good > Size(w) \/ w.class = "file" \/ Size(w) < w.max)) =>
                 Size(v) = Size(w) + 1 /\ ~ v.broken
<1> DEFINE d == Append(w.deque, c)
<1>1. /\ w \in Windows
      /\ w.class \in {"memory", "file"} /\ w.max \in Nat /\ w.broken \in BOOLEAN
      /\ w.deque \in Seq(Nat) /\ w.slots \in Seq(Nat) /\ w.head \in Nat /\ w.tail \in Nat
      /\ Len(w.deque) \in Nat /\ Len(w.slots) \in Nat /\ ~ w.tainted
  BY WindowIs
<1>2. CASE w.class = "file"
  <2> DEFINE s == Written(w.slots, w.head, c)
  <2>0. w.tail <= w.head /\ w.head <= Len(w.slots) /\ Size(w) = w.head - w.tail
    BY <1>2, SizeIs DEF Sound
  <2>1. /\ s \in Seq(Nat) /\ w.head + 1 <= Len(s) /\ Len(s) \in Nat
        /\ \A k \in 1 .. w.head + 1 : s[k] = IF k <= w.head THEN w.slots[k] ELSE c
    <3> DEFINE sl == w.slots
               h == w.head
    <3>0. sl \in Seq(Nat) /\ h \in Nat /\ h <= Len(sl) /\ s = Written(sl, h, c)
      BY <1>1, <2>0
    <3> HIDE DEF sl, h, s, d
    <3>1. /\ s \in Seq(Nat) /\ h + 1 <= Len(s)
          /\ \A k \in 1 .. h + 1 : s[k] = IF k <= h THEN sl[k] ELSE c
      BY <3>0, PutCase
    <3> QED
      BY <3>1, LenProperties DEF sl, h
  <2>2. v = IF ~ w.broken /\ good > 0
            THEN [w EXCEPT !.slots = s, !.head = w.head + 1] ELSE [w EXCEPT !.broken = TRUE]
    BY <1>1, <1>2 DEF casewindow_push_head, file_push_head, WriteOk, case_tmpfile_put_case,
       Written, Windows
  <2> HIDE DEF s
  <2>3. CASE ~ w.broken /\ good > 0
    <3>0. w.head + 1 \in Nat
      BY <1>1
    <3>1. /\ v \in Windows
          /\ v.class = "file" /\ v.max = w.max /\ v.deque = w.deque /\ v.slots = s
          /\ v.head = w.head + 1 /\ v.tail = w.tail /\ v.broken = FALSE
      BY <1>1, <1>2, <2>1, <2>2, <2>3, <3>0 DEF Windows
    <3>2. Sound(v)
      BY <1>1, <2>0, <2>1, <3>1 DEF Sound
    <3>3. Size(v) = Size(w) + 1 /\ ~ v.broken
      BY <1>1, <2>0, <3>1 DEF Size, casewindow_get_n_cases
    <3>4. ASSUME NEW k \in 1 .. Size(v)
          PROVE  CaseAt(v, k) = IF k <= Size(w) THEN CaseAt(w, k) ELSE c
      <4>1. w.tail + k \in 1 .. w.head + 1 /\ (k <= Size(w) <=> w.tail + k <= w.head)
        BY <1>1, <2>0, <3>3
      <4>2. CaseAt(v, k) = s[w.tail + k] /\ CaseAt(w, k) = w.slots[w.tail + k]
        BY <1>2, <3>1 DEF CaseAt
      <4> QED
        BY <2>1, <4>1, <4>2
    <3>5. Size(w) \in Nat
      BY SizeIs
    <3> QED
      BY <1>1, <3>1, <3>2, <3>3, <3>4, <3>5
  <2>4. CASE ~ (~ w.broken /\ good > 0)
    <3>1. /\ v \in Windows
          /\ v.class = "file" /\ v.max = w.max /\ v.deque = w.deque /\ v.slots = w.slots
          /\ v.head = w.head /\ v.tail = w.tail /\ v.broken = TRUE
      BY <1>1, <1>2, <2>2, <2>4 DEF Windows
    <3>2. Sound(v)
      BY <1>1, <2>0, <3>1 DEF Sound, Windows
    <3>3. Size(v) = Size(w) /\ \A k : CaseAt(v, k) = CaseAt(w, k)
      BY <1>2, <2>0, <3>1 DEF Size, casewindow_get_n_cases, CaseAt
    <3>4. Size(w) \in Nat
      BY SizeIs
    <3> QED
      BY <2>4, <3>1, <3>2, <3>3, <3>4
  <2> QED
    BY <2>3, <2>4
<1>3. d \in Seq(Nat) /\ Len(d) = Len(w.deque) + 1 /\ Len(d) \in Nat
      /\ \A k \in 1 .. Len(d) : d[k] = IF k <= Len(w.deque) THEN w.deque[k] ELSE c
  <2>1. /\ d \in Seq(Nat) /\ Len(d) = Len(w.deque) + 1 /\ d[Len(w.deque) + 1] = c
        /\ \A k \in 1 .. Len(w.deque) : d[k] = w.deque[k]
    BY <1>1, AppendProperties
  <2> HIDE DEF d
  <2> DEFINE n == Len(w.deque)
  <2>2. n \in Nat /\ Len(d) = n + 1
    BY <1>1, <2>1
  <2> HIDE DEF n
  <2>3. \A k \in 1 .. Len(d) : IF k <= n THEN k \in 1 .. n ELSE k = n + 1
    BY <2>2
  <2> QED
    BY <2>1, <2>2, <2>3 DEF n
<1> HIDE DEF d
<1>4. CASE w.class = "memory" /\ Len(d) <= w.max
  <2>0. Size(w) = Len(w.deque) /\ ~ w.broken
    BY <1>4, SizeIs DEF Sound
  <2>1. v = [w EXCEPT !.deque = d]
    BY <1>1, <1>3, <1>4 DEF casewindow_push_head, d
  <2>2. /\ v \in Windows
        /\ v.class = "memory" /\ v.max = w.max /\ v.deque = d /\ v.slots = w.slots
        /\ v.head = w.head /\ v.tail = w.tail /\ v.broken = FALSE
    BY <1>1, <1>3, <1>4, <2>0, <2>1 DEF Windows
  <2>3. Sound(v) /\ Size(v) = Size(w) + 1
    BY <1>1, <1>3, <1>4, <2>0, <2>2 DEF Sound, Size, casewindow_get_n_cases
  <2>4. \A k \in 1 .. Size(v) : CaseAt(v, k) = IF k <= Size(w) THEN CaseAt(w, k) ELSE c
    BY <1>3, <1>4, <2>0, <2>2, <2>3 DEF CaseAt
  <2> QED
    BY <1>1, <1>3, <1>4, <2>0, <2>2, <2>3, <2>4
<1>5. CASE w.class = "memory" /\ ~ (Len(d) <= w.max)
  <2> DEFINE x == [w EXCEPT !.deque = Append(@, c)]
             n == IF good < Len(d) THEN good ELSE Len(d)
             q == SubSeq(d, 1, n)
  <2>0. Size(w) = Len(w.deque) /\ ~ w.broken
    BY <1>5, SizeIs DEF Sound
  <2>1. x.deque = d /\ x.max = w.max /\ x.tainted = FALSE
    BY <1>1 DEF d
  <2>2. v = casewindow_to_disk(x, good)
    BY <1>1, <1>3, <1>5, <2>1 DEF casewindow_push_head
  <2> HIDE DEF x
  <2>3. v = [casewindow_create(0) EXCEPT !.slots = q, !.head = n, !.broken = n < Len(d),
                                         !.tainted = FALSE]
    BY <2>1, <2>2, Zenon DEF casewindow_to_disk
  <2>4. n \in Nat /\ n <= Len(d) /\ (good > Size(w) => n = Len(d))
    BY <1>1, <1>3, <2>0
  <2>5. q \in Seq(Nat) /\ Len(q) = n /\ \A k \in 1 .. n : q[k] = d[k]
    <3> HIDE DEF n, q
    <3>1. /\ SubSeq(d, 0 + 1, n) \in Seq(Nat) /\ Len(SubSeq(d, 0 + 1, n)) = n - 0
          /\ \A i \in 1 .. n - 0 : SubSeq(d, 0 + 1, n)[i] = d[0 + i]
      BY <1>3, <2>4, Part
    <3>2. 0 + 1 = 1 /\ n - 0 = n /\ \A i \in 1 .. n : 0 + i = i
      BY <2>4
    <3> QED
      BY <3>1, <3>2 DEF q
  <2> HIDE DEF q, n
  <2>6. /\ v \in Windows
        /\ v.class = "file" /\ v.max = 0 /\ v.deque = <<>> /\ v.slots = q
        /\ v.head = n /\ v.tail = 0 /\ v.broken = (n < Len(d))
    <3> DEFINE b == n < Len(d)
    <3>1. b \in BOOLEAN /\ <<>> \in Seq(Nat)
      OBVIOUS
    <3> HIDE DEF b
    <3>2. v = [casewindow_create(0) EXCEPT !.slots = q, !.head = n, !.broken = b, !.tainted = FALSE]
      BY <2>3 DEF b
    <3> DEFINE x0 == casewindow_create(0)
    <3>4. x0 \in Windows /\ x0.class = "file" /\ x0.max = 0 /\ x0.deque = <<>> /\ x0.tail = 0
      BY <3>1 DEF casewindow_create, Windows
    <3> HIDE DEF x0
    <3>5. v = [x0 EXCEPT !.slots = q, !.head = n, !.broken = b, !.tainted = FALSE]
      BY <3>2 DEF x0
    <3>3. /\ v \in Windows
          /\ v.class = "file" /\ v.max = 0 /\ v.deque = <<>> /\ v.slots = q
          /\ v.head = n /\ v.tail = 0 /\ v.broken = b
      BY <2>4, <2>5, <3>1, <3>4, <3>5 DEF Windows
    <3> QED
      BY <3>3 DEF b
  <2>7. Sound(v) /\ Size(v) = n
    <3>1. <<>> \in Seq(Nat) /\ (n < Len(d)) \in BOOLEAN
      OBVIOUS
    <3>2. v \in Windows
      BY <2>4, <2>5, <2>6, <3>1 DEF Windows
    <3> QED
      BY <2>4, <2>5, <2>6, <3>2 DEF Sound, Size, casewindow_get_n_cases
  <2>8. \A k \in 1 .. n : CaseAt(v, k) = IF k <= Size(w) THEN CaseAt(w, k) ELSE c
    <3>1. \A k \in 1 .. n : 0 + k = k /\ k \in 1 .. Len(d)
      BY <1>3, <2>4
    <3>2. \A k \in 1 .. n : CaseAt(v, k) = d[k] /\ CaseAt(w, k) = w.deque[k]
      BY <1>5, <2>5, <2>6, <3>1 DEF CaseAt
    <3> QED
      BY <1>3, <2>0, <3>1, <3>2
  <2>9. good > Size(w) => n = Size(w) + 1 /\ ~ v.broken
    <3>1. good > Size(w) => n = Len(d) /\ Len(d) = Size(w) + 1 /\ ~ (n < Len(d))
      BY <1>3, <2>0, <2>4
    <3> QED
      BY <2>6, <3>1
  <2>10. ~ (w.class = "file" \/ Size(w) < w.max) /\ v.class = "file"
    BY <1>1, <1>3, <1>5, <2>0, <2>6
  <2> QED
    BY <1>1, <1>3, <2>0, <2>4, <2>7, <2>8, <2>9, <2>10
<1> QED
  BY <1>1, <1>2, <1>4, <1>5

LEMMA PushedAt ==
  ASSUME NEW w, Sound(w), NEW c \in Nat, NEW good \in Nat,
         NEW k \in 1 .. Size(casewindow_push_head(w, c, good))
  PROVE  CaseAt(casewindow_push_head(w, c, good), k) = IF k <= Size(w) THEN CaseAt(w, k) ELSE c
<1> DEFINE v == casewindow_push_head(w, c, good)
<1>1. \A j \in 1 .. Size(v) : CaseAt(v, j) = IF j <= Size(w) THEN CaseAt(w, j) ELSE c
  BY Pushed
<1> QED
  BY <1>1

(* Cases do not come back into memory.                                     *)
LEMMA StaysFile ==
  ASSUME NEW w, Sound(w), w.class = "file", NEW c, NEW good
  PROVE  casewindow_push_head(w, c, good).class = "file"
<1>1. w \in Windows /\ ~ w.tainted
  BY WindowIs
<1>2. casewindow_push_head(w, c, good) = file_push_head(w, c, good)
  BY <1>1 DEF casewindow_push_head
<1>3. case_tmpfile_put_case(w, c).class = "file" /\ case_tmpfile_put_case(w, c).head = w.head
  BY <1>1 DEF case_tmpfile_put_case, Windows
<1> QED
  BY <1>1, <1>2, <1>3 DEF file_push_head, case_tmpfile_put_case, Windows

LEMMA Emptied ==
  ASSUME NEW w \in Windows, NEW v, v = [w EXCEPT !.head = 0, !.tail = 0]
  PROVE  v \in Windows
BY DEF Windows

(* The oldest cases are taken away.                                        *)
LEMMA Popped ==
  ASSUME NEW w, Sound(w), NEW n \in Nat, n <= Size(w),
         NEW v, v = casewindow_pop_tail(w, n)
  PROVE  /\ Sound(v) /\ Size(v) = Size(w) - n
         /\ \A k \in 1 .. Size(v) : n + k \in 1 .. Size(w) /\ CaseAt(v, k) = CaseAt(w, n + k)
         /\ v.class = w.class /\ v.max = w.max /\ v.broken = w.broken
<1>1. /\ w \in Windows
      /\ w.class \in {"memory", "file"} /\ w.max \in Nat /\ w.broken \in BOOLEAN
      /\ w.deque \in Seq(Nat) /\ w.slots \in Seq(Nat) /\ w.head \in Nat /\ w.tail \in Nat
      /\ Len(w.deque) \in Nat /\ Len(w.slots) \in Nat /\ ~ w.tainted
  BY WindowIs
<1>2. CASE w.class = "memory"
  <2> DEFINE d == SubSeq(w.deque, n + 1, Len(w.deque))
  <2>1. Size(w) = Len(w.deque) /\ Size(w) \in Nat /\ Len(w.deque) <= w.max /\ ~ w.broken
    BY <1>2, SizeIs DEF Sound
  <2>2. /\ d \in Seq(Nat) /\ Len(d) = Len(w.deque) - n
        /\ \A i \in 1 .. Len(w.deque) - n : d[i] = w.deque[n + i]
    <3>1. n <= Len(w.deque) /\ Len(w.deque) <= Len(w.deque)
      BY <2>1
    <3> QED
      BY <1>1, <3>1, PartsOf, Zenon
  <2>3. v = [w EXCEPT !.deque = d]
    BY <1>1, <1>2 DEF casewindow_pop_tail
  <2> HIDE DEF d
  <2>4. /\ v \in Windows
        /\ v.class = "memory" /\ v.max = w.max /\ v.deque = d /\ v.slots = w.slots
        /\ v.head = w.head /\ v.tail = w.tail /\ v.broken = w.broken
    BY <1>1, <1>2, <2>2, <2>3 DEF Windows
  <2>5. Sound(v) /\ Size(v) = Size(w) - n
    BY <1>1, <2>1, <2>2, <2>4 DEF Sound, Size, casewindow_get_n_cases
  <2>6. \A k \in 1 .. Size(v) : n + k \in 1 .. Size(w) /\ CaseAt(v, k) = CaseAt(w, n + k)
    <3>1. \A k \in 1 .. Size(v) : n + k \in 1 .. Size(w) /\ k \in 1 .. Len(w.deque) - n
      BY <2>1, <2>5
    <3>2. \A k : CaseAt(v, k) = d[k] /\ CaseAt(w, n + k) = w.deque[n + k]
      BY <1>2, <2>4 DEF CaseAt
    <3> QED
      BY <2>2, <3>1, <3>2
  <2> QED
    BY <1>2, <2>4, <2>5, <2>6
<1>3. CASE w.class = "file"
  <2>1. Size(w) = w.head - w.tail /\ w.tail <= w.head /\ w.head <= Len(w.slots)
    BY <1>3, SizeIs DEF Sound
  <2>2. v = IF w.tail + n = w.head THEN [w EXCEPT !.head = 0, !.tail = 0]
            ELSE [w EXCEPT !.tail = w.tail + n]
    BY <1>1, <1>3 DEF casewindow_pop_tail, file_pop_tail, Windows
  <2>3. CASE w.tail + n = w.head
    <3>1. /\ v \in Windows
          /\ v.class = "file" /\ v.max = w.max /\ v.deque = w.deque /\ v.slots = w.slots
          /\ v.head = 0 /\ v.tail = 0 /\ v.broken = w.broken
      <4>1. v = [w EXCEPT !.head = 0, !.tail = 0]
        BY <2>2, <2>3
      <4>2. /\ v.class = "file" /\ v.max = w.max /\ v.deque = w.deque /\ v.slots = w.slots
            /\ v.head = 0 /\ v.tail = 0 /\ v.broken = w.broken
        BY <1>1, <1>3, <4>1 DEF Windows
      <4>3. v \in Windows
        BY <1>1, <4>1, Emptied
      <4> QED
        BY <4>2, <4>3
    <3>2. Sound(v) /\ Size(v) = 0 /\ Size(w) - n = 0
      <4>1. 0 - 0 = 0 /\ Size(w) - n = 0 /\ 0 <= Len(w.slots)
        BY <1>1, <2>1, <2>3
      <4> QED
        BY <3>1, <4>1 DEF Sound, Size, casewindow_get_n_cases
    <3> QED
      BY <1>3, <3>1, <3>2
  <2>4. CASE w.tail + n # w.head
    <3>0. w.tail + n \in Nat
      BY <1>1
    <3>1. /\ v \in Windows
          /\ v.class = "file" /\ v.max = w.max /\ v.deque = w.deque /\ v.slots = w.slots
          /\ v.head = w.head /\ v.tail = w.tail + n /\ v.broken = w.broken
      <4>1. v = [w EXCEPT !.tail = w.tail + n]
        BY <2>2, <2>4
      <4> QED
        BY <1>1, <1>3, <3>0, <4>1 DEF Windows
    <3>2. Sound(v) /\ Size(v) = Size(w) - n
      <4>1. w.tail + n <= w.head /\ w.head - (w.tail + n) = Size(w) - n
        BY <1>1, <2>1
      <4> QED
        BY <2>1, <3>1, <4>1 DEF Sound, Size, casewindow_get_n_cases
    <3>3. ASSUME NEW k \in 1 .. Size(v)
          PROVE  n + k \in 1 .. Size(w) /\ CaseAt(v, k) = CaseAt(w, n + k)
      <4>1. n + k \in 1 .. Size(w) /\ w.tail + n + k = w.tail + (n + k)
        BY <1>1, <2>1, <3>2, SMTT(30)
      <4> QED
        BY <1>3, <3>1, <4>1 DEF CaseAt
    <3> QED
      BY <1>3, <3>1, <3>2, <3>3
  <2> QED
    BY <2>3, <2>4
<1> QED
  BY <1>1, <1>2, <1>3

(* Getting a case leaves the cases as they are.                            *)
LEMMA Got ==
  ASSUME NEW w, Sound(w), NEW readable \in BOOLEAN,
         NEW v, v = AfterGet(w, readable)
  PROVE  /\ Sound(v) /\ Size(v) = Size(w) /\ \A k : CaseAt(v, k) = CaseAt(w, k)
         /\ readable => v = w
         /\ \A idx \in 0 .. Size(w) - 1 :
                 /\ casewindow_get_case(w, idx, readable) \in {NoCase, CaseAt(w, idx + 1)}
                 /\ (readable /\ ~ w.broken) =>
                      casewindow_get_case(w, idx, readable) = CaseAt(w, idx + 1)
<1>1. /\ w \in Windows
      /\ w.class \in {"memory", "file"} /\ w.max \in Nat /\ w.broken \in BOOLEAN
      /\ w.deque \in Seq(Nat) /\ w.slots \in Seq(Nat) /\ w.head \in Nat /\ w.tail \in Nat
      /\ Len(w.deque) \in Nat /\ Len(w.slots) \in Nat /\ ~ w.tainted
  BY WindowIs
<1>2. Sound(v) /\ Size(v) = Size(w) /\ (\A k : CaseAt(v, k) = CaseAt(w, k)) /\ (readable => v = w)
  <2>1. CASE v = w
    BY <2>1
  <2>2. CASE v # w
    <3>1. w.class = "file" /\ ~ readable /\ v = [w EXCEPT !.broken = TRUE]
      BY <2>2 DEF AfterGet
    <3>2. /\ v \in Windows
          /\ v.class = "file" /\ v.max = w.max /\ v.deque = w.deque /\ v.slots = w.slots
          /\ v.head = w.head /\ v.tail = w.tail /\ v.broken = TRUE
      BY <1>1, <3>1 DEF Windows
    <3> QED
      BY <1>1, <3>1, <3>2 DEF Sound, Size, casewindow_get_n_cases, CaseAt
  <2> QED
    BY <2>1, <2>2
<1>3. ASSUME NEW idx \in 0 .. Size(w) - 1
      PROVE  /\ casewindow_get_case(w, idx, readable) \in {NoCase, CaseAt(w, idx + 1)}
             /\ (readable /\ ~ w.broken) =>
                  casewindow_get_case(w, idx, readable) = CaseAt(w, idx + 1)
  <2>1. w.tail + idx + 1 = w.tail + (idx + 1)
    <3>1. Size(w) \in Nat /\ w.tail \in Nat
      BY <1>1, SizeIs
    <3> QED
      BY <3>1
  <2> QED
    BY <1>1, <2>1 DEF casewindow_get_case, CaseAt, ReadOk
<1> QED
  BY <1>2, <1>3

-----------------------------------------------------------------------------
(* What the types say of the call and the count.                           *)
LEMMA CallIs ==
  ASSUME call \in Calls
  PROVE  /\ call = Idle => call.op = "idle"
         /\ call # Idle => call.op \in {"read", "peek", "clone"} /\ call.r \in Reader
         /\ call.op \in {"read", "peek"} => call # Idle /\ call.depth \in 0 .. NCases
         /\ call.op = "clone" => call # Idle /\ call.new \in Reader
BY DEF Calls, Idle

LEMMA CountIs ==
  ASSUME count \in Countings, count # Idle
  PROVE  /\ count = [op |-> "count", r |-> count.r, clone |-> count.clone, max |-> count.max,
                     i |-> count.i, more |-> count.more]
         /\ count.r \in Reader /\ count.clone \in Reader /\ count.max \in Counts
         /\ count.i \in 0 .. NCases /\ count.more \in BOOLEAN
BY DEF Countings

LEMMA Numbers ==
  /\ NCases \in Nat /\ MaxInCore \in Nat /\ CASENUMBER_MAX \in Nat /\ CASENUMBER_MAX > NCases
  /\ Writes \subseteq Nat /\ Readable \subseteq BOOLEAN /\ First \in Reader
  /\ \A n \in Counts : n \in Nat /\ (n # CASENUMBER_MAX => n \in 0 .. NCases)
  /\ 0 \in Counts /\ CASENUMBER_MAX \in Counts /\ 0 .. NCases \subseteq Counts
<1>1. NCases \in Nat /\ MaxInCore \in Nat /\ CASENUMBER_MAX \in Nat /\ CASENUMBER_MAX > NCases
      /\ First \in Reader
  BY ReaderAssumption DEF ReaderAssumption
<1>2. Writes \subseteq Nat /\ Readable \subseteq BOOLEAN
  <2>1. MaxInCore + 1 \in Nat /\ 0 .. MaxInCore + 1 \subseteq Nat
    BY <1>1
  <2> QED
    BY <2>1 DEF Writes, Readable
<1>3. /\ \A n \in Counts : n \in Nat /\ (n # CASENUMBER_MAX => n \in 0 .. NCases)
      /\ 0 \in Counts /\ CASENUMBER_MAX \in Counts /\ 0 .. NCases \subseteq Counts
  BY <1>1 DEF Counts
<1> QED
  BY <1>1, <1>2, <1>3

LEMMA Types ==
  ASSUME Safe
  PROVE  /\ class \in [Reader -> {"none", "source", "random"}] /\ n_cases \in [Reader -> Counts]
         /\ offset \in [Reader -> 0 .. NCases] /\ min_offset \in 0 .. NCases
         /\ source.length \in 0 .. NCases /\ source.taken \in 0 .. NCases
         /\ source = [length |-> source.length, taken |-> source.taken, bad |-> source.bad]
         /\ source.bad \in 0 .. NCases + 1
         /\ subreader.n_cases \in Counts /\ subreader.open \in BOOLEAN
         /\ subreader = [open |-> subreader.open, n_cases |-> subreader.n_cases]
         /\ Size(window) \in Nat
BY SizeIs DEF Safe, TypeOK, Counts

(* A set of numbers has a least one.                                       *)
Smaller == {ss \in Nat \X Nat : ss[1] < ss[2]}

LEMMA Least ==
  ASSUME NEW T \in SUBSET Nat, T # {}
  PROVE  \E x \in T : \A y \in T : x <= y
<1>1. IsWellFoundedOn(Smaller, Nat)
  BY NatLessThanWellFounded DEF Smaller, OpToRel
<1>2. PICK x \in T : \A y \in T : ~ (<<y, x>> \in Smaller)
  BY <1>1, WFMin
<1>3. ASSUME NEW y \in T PROVE x <= y
  <2>1. <<y, x>> \in Nat \X Nat /\ x \in Nat /\ y \in Nat
    OBVIOUS
  <2>2. ~ (y < x)
    BY <1>2, <2>1 DEF Smaller
  <2> QED
    BY <2>1, <2>2
<1> QED
  BY <1>3

-----------------------------------------------------------------------------
(* The window after a push, and after it has followed the readers.         *)
LEMMA Pushes ==
  ASSUME Safe, NEW good \in Nat, window' = casewindow_push_head(window, source.taken + 1, good),
         source'.taken = source.taken + 1
  PROVE  Sound(window') /\ Ordered' /\ Size(window') \in Nat /\ Size(window') <= Size(window) + 1
<1> DEFINE n == source.taken + 1
           s == Size(window)
<1>1. Sound(window) /\ Ordered /\ n \in Nat /\ s \in Nat /\ source.taken \in Nat
  BY Types DEF Safe
<1>2. /\ Sound(window') /\ Size(window') <= s + 1
      /\ \A k \in 1 .. Size(window') :
           /\ k <= s => CaseAt(window', k) = CaseAt(window, k)
           /\ k > s => CaseAt(window', k) = n
  <2> HIDE DEF n
  <2>1. window' = casewindow_push_head(window, n, good)
    BY DEF n
  <2>2. Sound(window) /\ n \in Nat
    BY <1>1
  <2> HIDE DEF s
  <2>3. Sound(window') /\ Size(window') <= Size(window) + 1
    BY <2>1, <2>2, Pushed
  <2>4. \A k \in 1 .. Size(window') :
          CaseAt(window', k) = IF k <= Size(window) THEN CaseAt(window, k) ELSE n
    BY <2>1, <2>2, PushedAt
  <2>5. \A k \in 1 .. Size(window') : k > s => ~ (k <= s)
    BY <1>1
  <2> QED
    BY <2>3, <2>4, <2>5 DEF s
<1>3. Size(window') \in Nat
  BY <1>2, SizeIs
<1>4. \A k \in 1 .. s : CaseAt(window, k) \in 1 .. source.taken
  BY <1>1 DEF Ordered
<1>5. \A j, k \in 1 .. s : j < k => CaseAt(window, j) < CaseAt(window, k)
  BY <1>1 DEF Ordered
<1> HIDE DEF s
<1>6. \A k \in 1 .. Size(window') : CaseAt(window', k) \in 1 .. source.taken + 1
  BY <1>1, <1>2, <1>3, <1>4
<1>7. ASSUME NEW j \in 1 .. Size(window'), NEW k \in 1 .. Size(window'), j < k
      PROVE  CaseAt(window', j) < CaseAt(window', k)
  <2>1. CASE k <= s
    <3>1. j \in 1 .. s /\ k \in 1 .. s
      BY <1>1, <1>3, <1>7, <2>1
    <3>2. CaseAt(window', j) = CaseAt(window, j) /\ CaseAt(window', k) = CaseAt(window, k)
      BY <1>2, <3>1
    <3> QED
      BY <1>5, <1>7, <3>1, <3>2
  <2>2. CASE ~ (k <= s)
    <3>1. CaseAt(window', k) = n /\ j \in 1 .. s
      BY <1>1, <1>2, <1>3, <1>7, <2>2
    <3>2. CaseAt(window', j) = CaseAt(window, j) /\ CaseAt(window, j) \in 1 .. source.taken
      BY <1>2, <1>4, <3>1
    <3> QED
      BY <1>1, <3>1, <3>2
  <2> QED
    BY <2>1, <2>2
<1> QED
  BY <1>2, <1>3, <1>6, <1>7 DEF Ordered, s

LEMMA Advances ==
  ASSUME Safe, ~ aborted, NEW offs \in [Reader -> 0 .. NCases], NEW rs \in SUBSET Reader, rs # {},
         \A q \in rs : offs[q] >= min_offset,
         NEW w, Sound(w), Size(w) = Size(window), \A k : CaseAt(w, k) = CaseAt(window, k),
         advance_random_reader(offs, rs, w), source' = source
  PROVE  /\ min_offset' \in 0 .. NCases /\ min_offset' >= min_offset
         /\ \E q \in rs : offs[q] = min_offset'
         /\ \A q \in rs : offs[q] >= min_offset'
         /\ aborted' \in BOOLEAN /\ Sound(window') /\ Ordered' /\ Size(window') \in Nat
         /\ aborted' <=> min_offset' > min_offset + Size(window)
         /\ ~ aborted' =>
              /\ min_offset' + Size(window') = min_offset + Size(window)
              /\ window'.class = w.class /\ window'.max = w.max /\ window'.broken = w.broken
              /\ \A k \in 1 .. Size(window') :
                   CaseAt(window', k) = CaseAt(window, (min_offset' - min_offset) + k)
<1> DEFINE new == CHOOSE o \in {offs[r] : r \in rs} : \A r \in rs : o <= offs[r]
           n == new - min_offset
<1>1. /\ min_offset \in 0 .. NCases /\ NCases \in Nat /\ Size(window) \in Nat
      /\ Ordered /\ source.taken \in Nat
  BY Types, Numbers DEF Safe
<1>2. new \in {offs[r] : r \in rs} /\ \A r \in rs : new <= offs[r]
  <2> DEFINE T == {offs[r] : r \in rs}
  <2>1. T \in SUBSET Nat /\ T # {}
    BY <1>1
  <2>2. \E o \in T : \A y \in T : o <= y
    BY <2>1, Least
  <2>3. \E o \in T : \A r \in rs : o <= offs[r]
    BY <2>2
  <2> QED
    BY <2>3, Zenon
<1>3. /\ min_offset' = new
      /\ aborted' = (new < min_offset \/ (~ w.tainted /\ n > casewindow_get_n_cases(w)))
      /\ window' = IF aborted' THEN w ELSE casewindow_pop_tail(w, n)
  BY DEF advance_random_reader
<1> HIDE DEF new
<1>4. new \in 0 .. NCases /\ new >= min_offset /\ \E q \in rs : offs[q] = new
  BY <1>1, <1>2
<1>5. n \in Nat /\ ~ (new < min_offset) /\ new = min_offset + n
  BY <1>1, <1>4
<1> HIDE DEF n
<1>6. ~ w.tainted /\ casewindow_get_n_cases(w) = Size(window)
  BY WindowIs DEF Size
<1>7. aborted' \in BOOLEAN /\ (aborted' <=> n > Size(window))
  BY <1>3, <1>5, <1>6
<1>8. CASE aborted'
  <2>1. window' = w
    BY <1>3, <1>8
  <2>2. Sound(window') /\ Size(window') = Size(window) /\ \A k : CaseAt(window', k) = CaseAt(window, k)
    BY <2>1
  <2>3. Ordered'
    BY <1>1, <2>2 DEF Ordered
  <2> QED
    BY <1>1, <1>2, <1>3, <1>4, <1>5, <1>7, <1>8, <2>2, <2>3
<1>9. CASE ~ aborted'
  <2>1. window' = casewindow_pop_tail(w, n) /\ n <= Size(w)
    BY <1>1, <1>3, <1>5, <1>7, <1>9
  <2>2. /\ Sound(window') /\ Size(window') = Size(window) - n
        /\ \A k \in 1 .. Size(window') :
             n + k \in 1 .. Size(window) /\ CaseAt(window', k) = CaseAt(window, n + k)
        /\ window'.class = w.class /\ window'.max = w.max /\ window'.broken = w.broken
    BY <1>5, <2>1, Popped
  <2>3. Size(window') \in Nat /\ min_offset' + Size(window') = min_offset + Size(window)
    BY <1>1, <1>3, <1>5, <2>1, <2>2
  <2>4. \A j, k \in 1 .. Size(window') : j < k => n + j < n + k
    BY <1>5
  <2>5. Ordered'
    BY <1>1, <2>2, <2>4 DEF Ordered
  <2>6. min_offset' - min_offset = n
    BY <1>1, <1>3, <1>5
  <2> QED
    BY <1>1, <1>2, <1>3, <1>4, <1>5, <1>7, <1>9, <2>2, <2>3, <2>5, <2>6
<1> QED
  BY <1>8, <1>9

-----------------------------------------------------------------------------
(* The steps keep Safe.                                                    *)
LEMMA Alive ==
  ASSUME Safe, ~ aborted
  PROVE  Calling /\ Counting /\ Spread
BY DEF Safe

LEMMA Frame ==
  ASSUME Safe, ~ aborted,
         class' = class, offset' = offset, min_offset' = min_offset, store' = store,
         window' = window, source' = source, aborted' = aborted,
         n_cases' \in [Reader -> Counts],
         subreader' \in [open : BOOLEAN, n_cases : Counts], tainted' \subseteq {"source", "reader"},
         call' \in Calls, count' \in Countings, Calling', Counting'
  PROVE  Safe'
<1>1. TypeOK'
  BY DEF Safe, TypeOK, Counts
<1>2. Sound(window') /\ Ordered'
  BY DEF Safe, Ordered
<1>3. Spread'
  BY Alive DEF Spread, Live, Random
<1> QED
  BY <1>1, <1>2, <1>3 DEF Safe

(* Where there is no reader, nothing is in progress.                       *)
LEMMA Nobody ==
  ASSUME Safe, ~ aborted, Live = {}
  PROVE  call = Idle /\ count = Idle
<1>1. Calling /\ Counting /\ call \in Calls /\ count \in Countings
  BY Alive DEF Safe
<1>2. call = Idle
  BY <1>1, CallIs DEF Calling, Live
<1>3. count = Idle
  BY <1>1, CountIs DEF Counting, Live
<1> QED
  BY <1>2, <1>3

LEMMA SafeWrites ==
  ASSUME Safe, ~ aborted, NEW good \in Writes, casewriter_write(good)
  PROVE  Safe'
<1>1. /\ class' = class /\ offset' = offset /\ min_offset' = min_offset /\ n_cases' = n_cases
      /\ store' = store /\ store = "writer" /\ subreader' = subreader /\ tainted' = tainted
      /\ call' = call /\ count' = count /\ aborted' = aborted
      /\ source.taken < NCases
      /\ window' = casewindow_push_head(window, source.taken + 1, good)
      /\ source' = [source EXCEPT !.length = source.length + 1, !.taken = source.taken + 1]
  BY DEF casewriter_write, readers
<1>2. /\ source.length \in 0 .. NCases /\ source.taken \in 0 .. NCases /\ NCases \in Nat
      /\ good \in Nat /\ source.taken = source.length /\ Size(window) \in Nat
      /\ min_offset \in 0 .. NCases
  BY <1>1, Types, Numbers DEF Safe
<1>3. /\ source'.taken = source.taken + 1 /\ source'.length = source.taken + 1
      /\ source' \in [length : 0 .. NCases, taken : 0 .. NCases, bad : 0 .. NCases + 1]
  <2>1. source \in [length : 0 .. NCases, taken : 0 .. NCases, bad : 0 .. NCases + 1]
    BY DEF Safe, TypeOK
  <2>2. source.taken + 1 \in 0 .. NCases /\ source.length + 1 = source.taken + 1
    BY <1>1, <1>2
  <2> QED
    BY <1>1, <2>1, <2>2
<1>4. Sound(window') /\ Ordered' /\ Size(window') \in Nat /\ Size(window') <= Size(window) + 1
  BY <1>1, <1>2, <1>3, Pushes
<1>5. Spread /\ Live = {} /\ call = Idle /\ count = Idle
  BY <1>1, Alive, Nobody DEF Spread
<1>6. Spread'
  <2>1. min_offset' + Size(window') <= source'.taken
    BY <1>1, <1>2, <1>3, <1>4, <1>5 DEF Spread
  <2> QED
    BY <1>1, <1>5, <2>1 DEF Spread, Live, Random
<1>7. TypeOK'
  BY <1>1, <1>3 DEF Safe, TypeOK
<1>8. Calling' /\ Counting'
  BY <1>1, <1>5, CallIs DEF Calling, Counting, Safe
<1>9. source'.taken <= source'.length /\ source'.taken = source'.length
  BY <1>2, <1>3
<1> QED
  BY <1>1, <1>4, <1>6, <1>7, <1>8, <1>9 DEF Safe

LEMMA SafeOpens ==
  ASSUME Safe, ~ aborted, casewriter_make_reader
  PROVE  Safe'
<1>1. /\ class' = [class EXCEPT ![First] = "random"] /\ offset' = offset /\ min_offset' = min_offset
      /\ n_cases' = [n_cases EXCEPT ![First] = Size(window)]
      /\ store' = "window" /\ store = "writer" /\ subreader' = subreader /\ tainted' = tainted
      /\ call' = call /\ count' = count /\ aborted' = aborted /\ window' = window
      /\ source' = source
  BY DEF casewriter_make_reader, Size
<1>2. /\ class \in [Reader -> {"none", "source", "random"}] /\ n_cases \in [Reader -> Counts]
      /\ source.taken \in 0 .. NCases /\ NCases \in Nat /\ First \in Reader
      /\ Size(window) \in Nat /\ min_offset \in 0 .. NCases /\ 0 .. NCases \subseteq Counts
  BY Types, Numbers
<1>3. Spread /\ Live = {} /\ call = Idle /\ count = Idle
  BY <1>1, Alive, Nobody DEF Spread
<1>4. /\ min_offset = 0 /\ \A r \in Reader : class[r] = "none" /\ offset[r] = 0
      /\ min_offset + Size(window) <= source.taken
  BY <1>2, <1>3 DEF Spread, Live, Random
<1>5. Size(window) \in 0 .. NCases
  BY <1>2, <1>4
<1>6. Spread'
  <2>1. \A r \in Reader : class'[r] = IF r = First THEN "random" ELSE "none"
    BY <1>1, <1>2, <1>4
  <2>2. Random(First)' /\ 0 >= 0 /\ Live' # {}
    BY <1>2, <2>1 DEF Random, Live
  <2> QED
    BY <1>1, <1>2, <1>4, <2>1, <2>2 DEF Spread, Random
<1>7. TypeOK'
  BY <1>1, <1>2, <1>5 DEF Safe, TypeOK, Counts
<1>8. Calling' /\ Counting'
  BY <1>1, <1>3, CallIs DEF Calling, Counting, Safe
<1> QED
  BY <1>1, <1>6, <1>7, <1>8 DEF Safe, Ordered

(* No reader's place or class changes, nor what the window serves.         *)
LEMMA SafeQuiet ==
  ASSUME Safe, NoCall,
         class' = class, offset' = offset, min_offset' = min_offset, store' = store,
         window' = window, source' = source, aborted' = aborted, subreader' = subreader,
         call' = call, count' = count,
         n_cases' \in [Reader -> Counts], count = Idle \/ n_cases' = n_cases,
         tainted' \subseteq {"source", "reader"}
  PROVE  Safe'
<1>1. ~ aborted /\ call = Idle /\ Calling /\ Counting /\ call \in Calls /\ count \in Countings
  BY Alive DEF NoCall, Safe
<1>2. Calling'
  BY <1>1, CallIs DEF Calling
<1>3. Counting'
  BY <1>1 DEF Counting, Random
<1>4. subreader' \in [open : BOOLEAN, n_cases : Counts]
  BY DEF Safe, TypeOK, Counts
<1> QED
  BY <1>1, <1>2, <1>3, <1>4, Frame

(* The limit of a read goes down when it begins.                           *)
LEMMA Lessened ==
  ASSUME NEW n \in Counts, n # 0
  PROVE  Less(n) \in {CASENUMBER_MAX} \cup 0 .. NCases - 1 /\ Less(n) \in Counts
<1>1. n \in Nat /\ (n # CASENUMBER_MAX => n \in 0 .. NCases) /\ NCases \in Nat
  BY Numbers
<1>2. CASE n = CASENUMBER_MAX
  BY <1>2, Numbers DEF Less
<1>3. CASE n # CASENUMBER_MAX
  BY <1>1, <1>3 DEF Less, Counts
<1> QED
  BY <1>2, <1>3

LEMMA SafeStartsRead ==
  ASSUME Safe, NoCall, NEW r \in Live, StartRead(r), count' = count,
         \/ count = Idle
         \/ count # Idle /\ r = count.clone /\ count.more /\ count.i < count.max
  PROVE  Safe'
<1>1. /\ n_cases[r] # 0 /\ n_cases' = [n_cases EXCEPT ![r] = Less(n_cases[r])]
      /\ call' = [op |-> "read", r |-> r, depth |-> 0]
      /\ class' = class /\ offset' = offset /\ min_offset' = min_offset /\ store' = store
      /\ window' = window /\ source' = source /\ subreader' = subreader /\ tainted' = tainted
      /\ aborted' = aborted
  BY DEF StartRead, backend
<1>2. /\ ~ aborted /\ call = Idle /\ Calling /\ Counting /\ call \in Calls /\ count \in Countings
      /\ call.op = "idle"
  BY Alive, CallIs DEF NoCall, Safe
<1>3. /\ n_cases \in [Reader -> Counts] /\ r \in Reader /\ class[r] # "none"
      /\ 0 \in 0 .. NCases
  BY Types, Numbers DEF Live
<1>4. Less(n_cases[r]) \in {CASENUMBER_MAX} \cup 0 .. NCases - 1 /\ Less(n_cases[r]) \in Counts
  BY <1>1, <1>3, Lessened
<1>5. n_cases' \in [Reader -> Counts] /\ n_cases'[r] = Less(n_cases[r])
      /\ \A q \in Reader : q # r => n_cases'[q] = n_cases[q]
  BY <1>1, <1>3, <1>4
<1>6. call' \in Calls /\ call' # Idle /\ call'.op = "read" /\ call'.r = r /\ call'.depth = 0
  BY <1>1, <1>3 DEF Calls, Idle
<1>7. Calling'
  BY <1>1, <1>3, <1>4, <1>5, <1>6 DEF Calling
<1>8. CASE count = Idle
  <2>1. Counting'
    BY <1>8 DEF Counting
  <2> QED
    BY <1>1, <1>2, <1>5, <1>6, <1>7, <2>1, Frame DEF Safe, TypeOK, Counts
<1>9. CASE count # Idle /\ r = count.clone /\ count.more /\ count.i < count.max
  <2>1. /\ n_cases[count.r] = CASENUMBER_MAX /\ count.r # count.clone /\ class[count.r] # "none"
        /\ count.i <= count.max /\ Random(count.r) /\ Random(count.clone)
        /\ offset[count.clone] = offset[count.r] + count.i /\ n_cases[count.clone] = CASENUMBER_MAX
    BY <1>2, <1>9 DEF Counting
  <2>2. Less(CASENUMBER_MAX) = CASENUMBER_MAX
    BY DEF Less
  <2>3. count.r \in Reader /\ count.clone \in Reader
    BY <1>2, <1>9, CountIs
  <2>4. Counting'
    BY <1>1, <1>5, <1>6, <1>9, <2>1, <2>2, <2>3 DEF Counting, Random
  <2> QED
    BY <1>1, <1>2, <1>5, <1>6, <1>7, <2>4, Frame DEF Safe, TypeOK, Counts
<1> QED
  BY <1>8, <1>9

LEMMA SafeStartsPeek ==
  ASSUME Safe, NEW r \in Reader, NEW idx \in 0 .. NCases, casereader_peek(r, idx)
  PROVE  Safe'
<1>1. /\ ~ aborted /\ count = Idle /\ class[r] # "none" /\ idx < n_cases[r]
      /\ call' = [op |-> "peek", r |-> r, depth |-> idx] /\ n_cases' = n_cases
      /\ class' = class /\ offset' = offset /\ min_offset' = min_offset /\ store' = store
      /\ window' = window /\ source' = source /\ subreader' = subreader /\ tainted' = tainted
      /\ aborted' = aborted /\ count' = count
  BY DEF casereader_peek, Client, NoCall, Live, backend, readers
<1>2. call' \in Calls /\ call' # Idle /\ call'.op = "peek" /\ call'.r = r /\ call'.depth = idx
  BY <1>1 DEF Calls, Idle
<1>3. Calling' /\ Counting'
  BY <1>1, <1>2 DEF Calling, Counting
<1> QED
  BY <1>1, <1>2, <1>3, Frame DEF Safe, TypeOK, Counts

LEMMA SafeStartsClone ==
  ASSUME Safe, NEW r \in Reader, NEW new \in Reader, casereader_clone(r, new)
  PROVE  Safe'
<1>1. /\ ~ aborted /\ count = Idle /\ class[r] # "none" /\ class[new] = "none"
      /\ call' = [op |-> "clone", r |-> r, new |-> new] /\ n_cases' = n_cases
      /\ class' = class /\ offset' = offset /\ min_offset' = min_offset /\ store' = store
      /\ window' = window /\ source' = source /\ subreader' = subreader /\ tainted' = tainted
      /\ aborted' = aborted /\ count' = count
  BY DEF casereader_clone, Client, NoCall, Live, backend, readers
<1>2. call' \in Calls /\ call' # Idle /\ call'.op = "clone" /\ call'.r = r /\ call'.new = new
  BY <1>1 DEF Calls, Idle
<1>3. Calling' /\ Counting'
  BY <1>1, <1>2 DEF Calling, Counting
<1> QED
  BY <1>1, <1>2, <1>3, Frame DEF Safe, TypeOK, Counts

LEMMA SafeStartsCount ==
  ASSUME Safe, NEW r \in Reader, NEW new \in Reader, NEW max \in Counts,
         casereader_count(r, new, max)
  PROVE  Safe'
<1>1. /\ ~ aborted /\ class[r] # "none" /\ class[new] = "none" /\ n_cases[r] = CASENUMBER_MAX
      /\ call' = [op |-> "clone", r |-> r, new |-> new] /\ n_cases' = n_cases
      /\ count' = [op |-> "count", r |-> r, clone |-> new, max |-> max, i |-> 0, more |-> TRUE]
      /\ class' = class /\ offset' = offset /\ min_offset' = min_offset /\ store' = store
      /\ window' = window /\ source' = source /\ subreader' = subreader /\ tainted' = tainted
      /\ aborted' = aborted
  BY DEF casereader_count, Client, NoCall, Live, backend, readers
<1>2. call' \in Calls /\ call' # Idle /\ call'.op = "clone" /\ call'.r = r /\ call'.new = new
  BY <1>1 DEF Calls, Idle
<1>3. /\ count'.r = r /\ count'.clone = new /\ count'.max = max /\ count'.i = 0 /\ count'.more = TRUE
      /\ r # new /\ 0 <= max
  BY <1>1, Numbers
<1>4. count' \in Countings
  BY <1>1, Numbers DEF Countings
<1>5. Calling' /\ Counting'
  BY <1>1, <1>2, <1>3 DEF Calling, Counting
<1> QED
  BY <1>1, <1>2, <1>4, <1>5, Frame DEF Safe, TypeOK, Counts

(* While the source is read without a shim, its reader is the only one.    *)
LEMMA Only ==
  ASSUME Safe, ~ aborted, NEW r \in Reader, class[r] = "source"
  PROVE  /\ store = "none" /\ \A q \in Reader : q # r => class[q] = "none"
         /\ \A q \in Reader : offset[q] = 0
BY Alive DEF Spread, Live, Random

LEMMA SafeShims ==
  ASSUME Safe, ~ aborted, casereader_shim_insert
  PROVE  Safe'
<1>1. /\ call.op \in {"peek", "clone"} /\ class[call.r] = "source"
      /\ class' = [class EXCEPT ![call.r] = "random"] /\ offset' = [offset EXCEPT ![call.r] = 0]
      /\ min_offset' = 0 /\ store' = "shim" /\ window' = casewindow_create(MaxInCore)
      /\ subreader' = [open |-> TRUE, n_cases |-> n_cases[call.r]]
      /\ tainted' = tainted \cup (IF "source" \in tainted THEN {"reader"} ELSE {})
      /\ n_cases' = n_cases /\ source' = source /\ call' = call /\ count' = count
      /\ aborted' = aborted
  BY DEF casereader_shim_insert
<1>2. /\ Calling /\ Counting /\ call \in Calls /\ count \in Countings
      /\ call # Idle /\ call.r \in Reader
  BY <1>1, Alive, CallIs DEF Safe
<1>3. /\ class \in [Reader -> {"none", "source", "random"}] /\ n_cases \in [Reader -> Counts]
      /\ offset \in [Reader -> 0 .. NCases] /\ source.taken \in 0 .. NCases /\ NCases \in Nat
      /\ MaxInCore \in Nat
  BY Types, Numbers
<1>4. Sound(window') /\ Size(window') = 0
  BY <1>1, <1>3, Created
<1>5. /\ \A q \in Reader : q # call.r => class[q] = "none" /\ class'[q] = "none"
      /\ \A q \in Reader : offset'[q] = 0
      /\ class'[call.r] = "random"
  BY <1>1, <1>2, <1>3, Only
<1>6. Ordered' /\ Spread'
  <2>1. Ordered'
    BY <1>4 DEF Ordered
  <2>2. 0 >= 0 /\ 0 + Size(window') <= source.taken
    BY <1>3, <1>4
  <2> QED
    BY <1>1, <1>2, <1>5, <2>1, <2>2 DEF Spread, Live, Random
<1>7. Calling'
  <2>1. call.op = "clone" => call.new \in Reader /\ call.new # call.r /\ class[call.new] = "none"
    BY <1>1, <1>2, CallIs DEF Calling
  <2> QED
    BY <1>1, <1>2, <1>5, <2>1 DEF Calling
<1>8. Counting'
  <2>1. count # Idle => call.op = "clone"
    BY <1>1, <1>2 DEF Counting
  <2>2. count # Idle => class'[count.r] # "none"
    BY <1>2, <1>5, <2>1 DEF Counting
  <2> QED
    BY <1>1, <1>2, <2>1, <2>2 DEF Counting
<1>9. TypeOK'
  BY <1>1, <1>2, <1>3, Numbers DEF Safe, TypeOK, Counts
<1> QED
  BY <1>1, <1>2, <1>4, <1>6, <1>7, <1>8, <1>9 DEF Safe

LEMMA SafeClones ==
  ASSUME Safe, ~ aborted, random_reader_clone
  PROVE  Safe'
<1>1. /\ call.op = "clone" /\ class[call.r] = "random"
      /\ class' = [class EXCEPT ![call.new] = "random"]
      /\ n_cases' = [n_cases EXCEPT ![call.new] = n_cases[call.r]]
      /\ offset' = [offset EXCEPT ![call.new] = offset[call.r]]
      /\ call' = Idle /\ min_offset' = min_offset /\ store' = store /\ window' = window
      /\ subreader' = subreader /\ source' = source /\ tainted' = tainted /\ count' = count
      /\ aborted' = aborted
  BY DEF random_reader_clone, backend
<1>2. /\ Calling /\ Counting /\ Spread /\ call \in Calls /\ count \in Countings /\ call # Idle
      /\ call.r \in Reader /\ call.new \in Reader /\ class[call.new] = "none"
      /\ call.new # call.r
  BY <1>1, Alive, CallIs DEF Safe, Calling
<1>3. /\ class \in [Reader -> {"none", "source", "random"}] /\ n_cases \in [Reader -> Counts]
      /\ offset \in [Reader -> 0 .. NCases] /\ min_offset \in 0 .. NCases
  BY Types
<1>4. /\ \A q \in Reader : class'[q] = IF q = call.new THEN "random" ELSE class[q]
      /\ \A q \in Reader : n_cases'[q] = IF q = call.new THEN n_cases[call.r] ELSE n_cases[q]
      /\ \A q \in Reader : offset'[q] = IF q = call.new THEN offset[call.r] ELSE offset[q]
  BY <1>1, <1>2, <1>3
<1>5. Spread'
  <2>1. \A q \in Reader : class'[q] # "source"
    BY <1>1, <1>2, <1>3, <1>4, Only
  <2>2. \A q \in Reader : class'[q] # "random" => offset'[q] = 0
    BY <1>2, <1>4 DEF Spread, Random
  <2>3. store \in {"window", "shim"} /\ offset[call.r] >= min_offset
    BY <1>1, <1>2 DEF Spread, Random
  <2>4. \A q \in Reader : class'[q] = "random" => offset'[q] >= min_offset
    BY <1>2, <1>4, <2>3 DEF Spread, Random
  <2>5. \E q \in Reader : class'[q] = "random" /\ offset'[q] = min_offset
    <3>1. PICK q \in Reader : class[q] = "random" /\ offset[q] = min_offset
      BY <1>1, <1>2 DEF Spread, Random
    <3> QED
      BY <1>2, <1>4, <3>1
  <2>6. Live' # {}
    BY <1>2, <1>4 DEF Live
  <2>7. min_offset + Size(window) <= source.taken
    BY <1>2 DEF Spread
  <2> QED
    BY <1>1, <2>1, <2>2, <2>3, <2>4, <2>5, <2>6, <2>7 DEF Spread, Random
<1>6. Calling'
  BY <1>1, CallIs DEF Calling, Idle
<1>7. Counting'
  <2>1. SUFFICES ASSUME count # Idle PROVE Counting'
    BY <1>1 DEF Counting
  <2>2. /\ n_cases[count.r] = CASENUMBER_MAX /\ count.r # count.clone /\ class[count.r] # "none"
        /\ count.i <= count.max /\ call.r = count.r /\ call.new = count.clone /\ count.i = 0
        /\ count.more
    BY <1>1, <1>2, <2>1 DEF Counting
  <2>3. count.r \in Reader /\ count.clone \in Reader
    BY <1>2, <2>1, CountIs
  <2>4. /\ class'[count.r] = "random" /\ class'[count.clone] = "random"
        /\ n_cases'[count.r] = CASENUMBER_MAX /\ n_cases'[count.clone] = CASENUMBER_MAX
        /\ offset'[count.clone] = offset'[count.r]
    BY <1>1, <1>4, <2>2, <2>3
  <2>5. offset'[count.clone] = offset'[count.r] + count.i
    <3>1. offset'[count.r] \in 0 .. NCases
      BY <1>3, <1>4, <2>2, <2>3
    <3> QED
      BY <2>2, <2>4, <3>1
  <2> QED
    BY <1>1, <2>2, <2>4, <2>5 DEF Counting, Random
<1>8. TypeOK'
  BY <1>1, <1>2, <1>3 DEF Safe, TypeOK, Counts
<1>9. call' \in Calls /\ Sound(window') /\ Ordered'
  BY <1>1 DEF Safe, Calls, Ordered
<1> QED
  BY <1>1, <1>2, <1>5, <1>6, <1>7, <1>8, <1>9 DEF Safe

(* A call that asks for a case of the window.                              *)
LEMMA Asking ==
  ASSUME Safe, ~ aborted, Asks
  PROVE  /\ call # Idle /\ call.r \in Reader /\ Random(call.r) /\ call.depth \in 0 .. NCases
         /\ offset[call.r] >= min_offset /\ Wanted \in Nat
         /\ Wanted = offset[call.r] - min_offset + call.depth
         /\ \A q \in Reader : class[q] \in {"none", "random"}
         /\ store \in {"window", "shim"} /\ Live # {}
         /\ count # Idle => /\ call.op = "read" /\ call.r = count.clone /\ count.more
                            /\ count.i < count.max
<1>1. /\ Calling /\ Counting /\ Spread /\ call \in Calls /\ count \in Countings
  BY Alive DEF Safe
<1>2. /\ call # Idle /\ call.r \in Reader /\ Random(call.r) /\ call.depth \in 0 .. NCases
      /\ call.op \in {"read", "peek"}
  BY <1>1, CallIs DEF Asks, Random
<1>3. store \in {"window", "shim"} /\ offset[call.r] >= min_offset /\ Live # {}
  BY <1>1, <1>2 DEF Spread, Live, Random
<1>4. offset[call.r] \in 0 .. NCases /\ min_offset \in 0 .. NCases /\ NCases \in Nat
  BY <1>2, Types, Numbers
<1>5. \A q \in Reader : class[q] \in {"none", "random"}
  BY <1>3, Types, Only
<1>6. count # Idle => call.op = "read" /\ call.r = count.clone /\ count.more /\ count.i < count.max
  BY <1>1, <1>2 DEF Counting
<1> QED
  BY <1>2, <1>3, <1>4, <1>5, <1>6 DEF Wanted

LEMMA LessIs ==
  ASSUME NEW n \in Counts
  PROVE  Less(n) \in Counts
BY Lessened DEF Less

LEMMA SafeBuffers ==
  ASSUME Safe, ~ aborted, NEW good \in Writes, buffer_case(good)
  PROVE  Safe'
<1>1. /\ Asks /\ class' = class /\ offset' = offset /\ min_offset' = min_offset
      /\ n_cases' = n_cases /\ store' = store /\ call' = call /\ count' = count
      /\ aborted' = aborted
  BY DEF buffer_case, readers
<1>2. Calling /\ Counting /\ Spread /\ call \in Calls /\ count \in Countings
  BY Alive DEF Safe
<1>3. Calling' /\ Counting'
  BY <1>1, <1>2 DEF Calling, Counting, Random
<1>4. CASE SourceHas(subreader.n_cases)
  <2>1. /\ source' = [source EXCEPT !.taken = source.taken + 1]
        /\ window' = casewindow_push_head(window, source.taken + 1, good)
        /\ subreader' = [subreader EXCEPT !.n_cases = Less(subreader.n_cases)]
        /\ tainted' = tainted /\ source.taken < source.length
    BY <1>4 DEF buffer_case, SourceHas
  <2>2. /\ source.length \in 0 .. NCases /\ source.taken \in 0 .. NCases /\ NCases \in Nat
        /\ good \in Nat /\ Size(window) \in Nat /\ min_offset \in 0 .. NCases
        /\ subreader.n_cases \in Counts
    BY Types, Numbers
  <2>3. /\ source'.taken = source.taken + 1 /\ source'.length = source.length
        /\ source' \in [length : 0 .. NCases, taken : 0 .. NCases, bad : 0 .. NCases + 1]
        /\ source'.taken <= source'.length
    <3>1. source \in [length : 0 .. NCases, taken : 0 .. NCases, bad : 0 .. NCases + 1]
      BY DEF Safe, TypeOK
    <3>2. source.taken + 1 \in 0 .. NCases /\ source.taken + 1 <= source.length
      BY <2>1, <2>2
    <3> QED
      BY <2>1, <3>1, <3>2
  <2>4. Sound(window') /\ Ordered' /\ Size(window') \in Nat /\ Size(window') <= Size(window) + 1
    BY <2>1, <2>2, <2>3, Pushes
  <2>5. Spread'
    <3>1. min_offset + Size(window) <= source.taken
      BY <1>2 DEF Spread
    <3>2. min_offset + Size(window') <= source'.taken
      BY <2>2, <2>3, <2>4, <3>1
    <3> QED
      BY <1>1, <1>2, <3>2 DEF Spread, Live, Random
  <2>6. TypeOK'
    <3>1. subreader' \in [open : BOOLEAN, n_cases : Counts]
      BY <2>1, <2>2, LessIs DEF Safe, TypeOK, Counts
    <3> QED
      BY <1>1, <2>1, <2>3, <3>1 DEF Safe, TypeOK, Counts
  <2>7. store # "writer"
    BY <1>1, Asking
  <2> QED
    BY <1>1, <1>2, <1>3, <2>3, <2>4, <2>5, <2>6, <2>7 DEF Safe
<1>5. CASE ~ SourceHas(subreader.n_cases)
  <2>1. /\ subreader' = [open |-> FALSE, n_cases |-> 0] /\ source' = source /\ window' = window
        /\ tainted' \subseteq tainted \cup {"source", "reader"}
    BY <1>5 DEF buffer_case
  <2>2. subreader' \in [open : BOOLEAN, n_cases : Counts] /\ tainted \subseteq {"source", "reader"}
    BY <2>1, Numbers DEF Safe, TypeOK
  <2> QED
    BY <1>1, <1>2, <1>3, <2>1, <2>2, Types, Frame
<1> QED
  BY <1>4, <1>5

(* What a call leaves to the count that it is part of.                     *)
LEMMA Returned ==
  ASSUME Safe, ~ aborted, call.op \in {"read", "peek"}, NEW c, Return(c),
         class' = class, offset' \in [Reader -> 0 .. NCases],
         \A q \in Reader : q # call.r => offset'[q] = offset[q] /\ n_cases'[q] = n_cases[q],
         count # Idle => /\ offset'[call.r] = IF c = NoCase THEN offset[call.r]
                                                           ELSE offset[call.r] + 1
                         /\ c # NoCase => n_cases'[call.r] = n_cases[call.r]
  PROVE  call' = Idle /\ call' \in Calls /\ count' \in Countings /\ Calling' /\ Counting'
<1>1. Calling /\ Counting /\ call \in Calls /\ count \in Countings /\ call' = Idle
  BY Alive DEF Safe, Return
<1>2. call' \in Calls /\ Calling'
  BY <1>1 DEF Calls, Calling, Idle
<1>3. CASE count = Idle
  <2>1. count' = Idle
    BY <1>3 DEF Return
  <2> QED
    BY <1>1, <1>2, <2>1 DEF Counting, Countings
<1>4. CASE count # Idle
  <2>1. /\ call.r = count.clone /\ count.more /\ count.i < count.max
        /\ n_cases[count.r] = CASENUMBER_MAX /\ count.r # count.clone
        /\ Random(count.r) /\ Random(count.clone) /\ class[count.r] # "none"
        /\ offset[count.clone] = offset[count.r] + count.i
        /\ n_cases[count.clone] = CASENUMBER_MAX
    BY <1>1, <1>4 DEF Counting, Idle
  <2>2. /\ count.r \in Reader /\ count.clone \in Reader /\ count.i \in 0 .. NCases
        /\ count.max \in Nat /\ NCases \in Nat /\ count.max \in Counts
    BY <1>1, <1>4, CountIs, Numbers
  <2>3. /\ offset[count.r] \in 0 .. NCases /\ offset'[count.clone] \in 0 .. NCases
        /\ offset'[count.r] = offset[count.r] /\ n_cases'[count.r] = CASENUMBER_MAX
    BY <2>1, <2>2, Types
  <2>4. CASE c = NoCase
    <3>1. count' = [count EXCEPT !.more = FALSE]
      BY <1>4, <2>4 DEF Return
    <3>2. /\ count' \in Countings /\ count' # Idle /\ count'.r = count.r /\ count'.max = count.max
          /\ count'.clone = count.clone /\ count'.i = count.i /\ ~ count'.more
      BY <1>1, <1>4, <3>1 DEF Countings, Idle
    <3>3. offset'[count.clone] = offset'[count.r] + count.i /\ count.i <= count.max
      BY <1>4, <2>1, <2>2, <2>3, <2>4
    <3> QED
      BY <1>1, <1>2, <2>1, <2>3, <3>2, <3>3 DEF Counting, Random
  <2>5. CASE c # NoCase
    <3>1. count' = [count EXCEPT !.i = count.i + 1]
      BY <1>4, <2>5 DEF Return
    <3>2. offset'[count.clone] = offset'[count.r] + (count.i + 1)
      BY <1>4, <2>1, <2>2, <2>3, <2>5
    <3>3. count.i + 1 \in 0 .. NCases /\ count.i + 1 <= count.max
      BY <2>1, <2>2, <2>3, <3>2
    <3>4. /\ count' \in Countings /\ count' # Idle /\ count'.r = count.r /\ count'.max = count.max
          /\ count'.clone = count.clone /\ count'.i = count.i + 1 /\ count'.more = count.more
      BY <1>1, <1>4, <3>1, <3>3 DEF Countings, Idle
    <3>5. n_cases'[count.clone] = CASENUMBER_MAX
      BY <1>4, <2>1, <2>5
    <3> QED
      BY <1>1, <1>2, <2>1, <2>3, <3>2, <3>3, <3>4, <3>5 DEF Counting, Random
  <2> QED
    BY <2>4, <2>5
<1> QED
  BY <1>3, <1>4

LEMMA SpentIs ==
  ASSUME Safe, ~ aborted, call.op \in {"read", "peek"}
  PROVE  Spent(call.r) \in Counts
<1>1. call.r \in Reader /\ call.depth \in 0 .. NCases /\ n_cases[call.r] \in Counts
  BY Types, CallIs DEF Safe
<1> QED
  BY <1>1, Numbers DEF Spent

LEMMA SafeExhausts ==
  ASSUME Safe, ~ aborted, Exhausted
  PROVE  Safe'
<1>1. /\ Asks /\ n_cases' = [n_cases EXCEPT ![call.r] = Spent(call.r)] /\ Return(NoCase)
      /\ class' = class /\ offset' = offset /\ min_offset' = min_offset /\ store' = store
      /\ window' = window /\ source' = source /\ subreader' = subreader /\ tainted' = tainted
      /\ aborted' = aborted
  BY DEF Exhausted, backend
<1>2. call.r \in Reader /\ Spent(call.r) \in Counts /\ call.op \in {"read", "peek"}
  BY <1>1, Asking, SpentIs DEF Asks
<1>3. /\ n_cases' \in [Reader -> Counts]
      /\ \A q \in Reader : q # call.r => n_cases'[q] = n_cases[q]
  BY <1>1, <1>2, Types
<1>4. call' \in Calls /\ count' \in Countings /\ Calling' /\ Counting'
  BY <1>1, <1>2, <1>3, Types, Returned
<1> QED
  BY <1>1, <1>3, <1>4, Frame DEF Safe, TypeOK, Counts

LEMMA SafeReadsSource ==
  ASSUME Safe, ~ aborted, ReadSource
  PROVE  Safe'
<1> DEFINE c == IF SourceHas(1) THEN source.taken + 1 ELSE NoCase
<1>1. /\ call.op = "read" /\ class[call.r] = "source"
      /\ Return(c)
      /\ n_cases' = IF SourceHas(1) THEN n_cases ELSE [n_cases EXCEPT ![call.r] = 0]
      /\ source' = IF SourceHas(1) THEN [source EXCEPT !.taken = source.taken + 1] ELSE source
      /\ tainted' = IF SourceFails(1) THEN tainted \cup {"source"} ELSE tainted
      /\ class' = class /\ offset' = offset /\ min_offset' = min_offset /\ store' = store
      /\ window' = window /\ subreader' = subreader /\ aborted' = aborted
  BY DEF ReadSource, backend
<1> HIDE DEF c
<1>2. /\ Calling /\ Counting /\ Spread /\ call \in Calls /\ count \in Countings /\ call.r \in Reader
  BY <1>1, Alive, CallIs DEF Safe
<1>3. count = Idle
  BY <1>1, <1>2 DEF Counting, Idle, Random
<1>4. /\ n_cases' \in [Reader -> Counts]
      /\ \A q \in Reader : q # call.r => n_cases'[q] = n_cases[q]
  BY <1>1, <1>2, Types, Numbers
<1>5. call' \in Calls /\ count' \in Countings /\ Calling' /\ Counting'
  <2>1. /\ call.op \in {"read", "peek"} /\ offset' \in [Reader -> 0 .. NCases]
        /\ \A q \in Reader : q # call.r => offset'[q] = offset[q] /\ n_cases'[q] = n_cases[q]
    BY <1>1, <1>4, Types
  <2> QED
    BY <1>1, <1>3, <2>1, Returned
<1>6. /\ source.length \in 0 .. NCases /\ source.taken \in 0 .. NCases /\ NCases \in Nat
      /\ Size(window) \in Nat /\ min_offset \in 0 .. NCases /\ source.taken <= source.length
  BY Types, Numbers DEF Safe
<1>7. /\ source' \in [length : 0 .. NCases, taken : 0 .. NCases, bad : 0 .. NCases + 1]
      /\ source'.taken <= source'.length /\ source'.taken >= source.taken
      /\ source'.taken \in Nat
  <2>1. source \in [length : 0 .. NCases, taken : 0 .. NCases, bad : 0 .. NCases + 1]
    BY DEF Safe, TypeOK
  <2>2. CASE SourceHas(1)
    <3>1. source.taken + 1 \in 0 .. NCases /\ source.taken + 1 <= source.length
      BY <1>6, <2>2 DEF SourceHas
    <3> QED
      BY <1>1, <1>6, <2>1, <2>2, <3>1
  <2>3. CASE ~ SourceHas(1)
    BY <1>1, <1>6, <2>1, <2>3
  <2> QED
    BY <2>2, <2>3
<1>8. Sound(window') /\ Ordered'
  <2>1. \A k \in 1 .. Size(window) : CaseAt(window, k) \in 1 .. source'.taken
    BY <1>6, <1>7 DEF Safe, Ordered
  <2> QED
    BY <1>1, <2>1 DEF Safe, Ordered
<1>9. Spread'
  <2>1. min_offset + Size(window) <= source'.taken
    BY <1>2, <1>6, <1>7 DEF Spread
  <2> QED
    BY <1>1, <1>2, <2>1 DEF Spread, Live, Random
<1>10. TypeOK' /\ store' = "none"
  <2>1. tainted' \subseteq {"source", "reader"}
    BY <1>1 DEF Safe, TypeOK
  <2> QED
    BY <1>1, <1>2, <1>4, <1>7, <2>1, Only DEF Safe, TypeOK, Counts
<1> QED
  BY <1>1, <1>5, <1>7, <1>8, <1>9, <1>10 DEF Safe

LEMMA SafeDelivers ==
  ASSUME Safe, ~ aborted, NEW readable \in Readable, Deliver(readable)
  PROVE  Safe'
<1> DEFINE c == casewindow_get_case(window, Wanted, readable)
           w == AfterGet(window, readable)
           on == [offset EXCEPT ![call.r] = offset[call.r] + 1]
<1>1. /\ Asks /\ InWindow /\ Return(c)
      /\ n_cases' = IF c = NoCase THEN [n_cases EXCEPT ![call.r] = Spent(call.r)] ELSE n_cases
      /\ class' = class /\ store' = store /\ subreader' = subreader /\ source' = source
      /\ tainted' = tainted
  BY DEF Deliver
<1>2. \/ /\ call.op = "read" /\ c # NoCase /\ offset' = on
         /\ advance_random_reader(on, Live, w)
      \/ /\ ~ (call.op = "read" /\ c # NoCase)
         /\ window' = w /\ offset' = offset /\ min_offset' = min_offset /\ aborted' = aborted
  BY DEF Deliver
<1>3. /\ Calling /\ Counting /\ Spread /\ call \in Calls /\ count \in Countings
      /\ Sound(window) /\ Ordered
  BY Alive DEF Safe
<1>4. /\ call.r \in Reader /\ Random(call.r) /\ store \in {"window", "shim"} /\ Live # {}
      /\ offset[call.r] >= min_offset /\ call.depth \in 0 .. NCases
      /\ Wanted = offset[call.r] - min_offset + call.depth /\ Wanted \in Nat
      /\ \A q \in Reader : class[q] \in {"none", "random"}
      /\ call.op \in {"read", "peek"}
      /\ count # Idle => call.op = "read"
  BY <1>1, Asking DEF Asks
<1>5. /\ source.taken \in 0 .. NCases /\ NCases \in Nat /\ Size(window) \in Nat
      /\ min_offset \in 0 .. NCases /\ offset \in [Reader -> 0 .. NCases]
      /\ n_cases \in [Reader -> Counts]
      /\ min_offset + Size(window) <= source.taken
  BY <1>3, Types, Numbers DEF Spread
<1>6. Wanted < Size(window)
  BY <1>1, <1>4, <1>5 DEF InWindow, Size
<1>7. Sound(w) /\ Size(w) = Size(window) /\ \A k : CaseAt(w, k) = CaseAt(window, k)
  BY <1>3, Got, Numbers
<1> HIDE DEF c, w
<1>8. /\ n_cases' \in [Reader -> Counts]
      /\ \A q \in Reader : q # call.r => n_cases'[q] = n_cases[q]
      /\ c # NoCase => n_cases' = n_cases
  <2>1. Spent(call.r) \in Counts
    BY <1>4, SpentIs
  <2> QED
    BY <1>1, <1>4, <1>5, <2>1
<1>9. CASE call.op = "read" /\ c # NoCase
  <2>1. offset' = on /\ advance_random_reader(on, Live, w)
    BY <1>2, <1>9
  <2>2. /\ on \in [Reader -> 0 .. NCases] /\ on[call.r] = offset[call.r] + 1
        /\ \A q \in Reader : q # call.r => on[q] = offset[q]
        /\ on[call.r] <= min_offset + Size(window)
    <3>1. call.op = "read" => call.depth = 0
      BY <1>3 DEF Calling
    <3>2. offset[call.r] + 1 <= min_offset + Size(window) /\ offset[call.r] \in 0 .. NCases
      BY <1>4, <1>5, <1>6, <1>9, <3>1
    <3>3. offset[call.r] + 1 \in 0 .. NCases
      BY <1>5, <3>2
    <3> QED
      BY <1>4, <1>5, <3>2, <3>3
  <2> HIDE DEF on
  <2>3. Live \in SUBSET Reader /\ call.r \in Live /\ \A q \in Live : Random(q)
    BY <1>4 DEF Live, Random
  <2>4. \A q \in Live : on[q] >= min_offset
    <3>1. \A q \in Live : q \in Reader /\ offset[q] >= min_offset
      BY <1>3, <2>3 DEF Spread
    <3> QED
      BY <1>4, <1>5, <2>2, <3>1
  <2>5. /\ min_offset' \in 0 .. NCases /\ min_offset' >= min_offset
        /\ \E q \in Live : on[q] = min_offset'
        /\ \A q \in Live : on[q] >= min_offset'
        /\ aborted' \in BOOLEAN /\ Sound(window') /\ Ordered' /\ Size(window') \in Nat
        /\ aborted' <=> min_offset' > min_offset + Size(window)
        /\ ~ aborted' => min_offset' + Size(window') = min_offset + Size(window)
    BY <1>1, <1>4, <1>7, <2>1, <2>2, <2>3, <2>4, Advances
  <2>6. ~ aborted'
    <3>1. on[call.r] >= min_offset' /\ on[call.r] \in Nat
      BY <1>4, <1>5, <2>2, <2>3, <2>5
    <3> QED
      BY <1>5, <2>2, <2>5, <3>1
  <2>7. Spread'
    <3>1. min_offset' + Size(window') <= source'.taken
      BY <1>1, <1>5, <2>5, <2>6
    <3>2. \A q \in Reader : ~ Random(q)' => offset'[q] = 0
      BY <1>1, <1>3, <1>4, <2>1, <2>2 DEF Spread, Random
    <3>3. \A q \in Reader : Random(q)' => q \in Live
      BY <1>1 DEF Random, Live
    <3>4. Live' = Live
      BY <1>1 DEF Live
    <3>5. \E q \in Reader : Random(q)' /\ offset'[q] = min_offset'
      BY <1>1, <2>1, <2>3, <2>5 DEF Random
    <3> QED
      BY <1>1, <1>4, <2>1, <2>5, <3>1, <3>2, <3>3, <3>4, <3>5 DEF Spread, Random
  <2>8. call' \in Calls /\ count' \in Countings /\ Calling' /\ Counting'
    BY <1>1, <1>4, <1>8, <1>9, <2>1, <2>2, Returned
  <2>9. TypeOK'
    BY <1>1, <1>8, <2>1, <2>2, <2>5 DEF Safe, TypeOK, Counts
  <2> QED
    BY <1>1, <1>4, <2>5, <2>6, <2>7, <2>8, <2>9 DEF Safe
<1>10. CASE ~ (call.op = "read" /\ c # NoCase)
  <2>1. window' = w /\ offset' = offset /\ min_offset' = min_offset /\ aborted' = aborted
    BY <1>2, <1>10
  <2>2. call' \in Calls /\ count' \in Countings /\ Calling' /\ Counting'
    <3>1. count # Idle => offset[call.r] = IF c = NoCase THEN offset[call.r] ELSE offset[call.r] + 1
      BY <1>4, <1>10
    <3> QED
      BY <1>1, <1>4, <1>5, <1>8, <2>1, <3>1, Returned
  <2>3. Sound(window') /\ Ordered'
    BY <1>1, <1>3, <1>7, <2>1 DEF Ordered
  <2>4. Spread'
    BY <1>1, <1>3, <1>7, <2>1 DEF Spread, Live, Random
  <2>5. TypeOK'
    BY <1>1, <1>8, <2>1 DEF Safe, TypeOK, Counts
  <2> QED
    BY <1>1, <2>1, <2>2, <2>3, <2>4, <2>5 DEF Safe
<1> QED
  BY <1>9, <1>10

LEMMA SafeDrops ==
  ASSUME Safe, NoCall, NEW r \in Live, Drop(r), n_cases' \in [Reader -> Counts],
         call' = call, count' = Idle
  PROVE  Safe'
<1>1. /\ class' = [class EXCEPT ![r] = "none"] /\ offset' = [offset EXCEPT ![r] = 0]
      /\ source' = source /\ tainted' = tainted
  BY DEF Drop
<1>2. \/ /\ Live = {r} /\ store' = "none" /\ window' = casewindow_create(MaxInCore)
         /\ subreader' = [open |-> FALSE, n_cases |-> 0] /\ min_offset' = 0 /\ aborted' = aborted
      \/ /\ Live # {r} /\ advance_random_reader(offset, Live \ {r}, window)
         /\ store' = store /\ subreader' = subreader
  BY DEF Drop
<1>3. /\ Spread /\ ~ aborted /\ call = Idle /\ call \in Calls /\ Sound(window) /\ Ordered
      /\ r \in Reader /\ class[r] # "none"
  BY Alive DEF Safe, NoCall, Live
<1>4. /\ source.taken \in 0 .. NCases /\ NCases \in Nat /\ Size(window) \in Nat
      /\ min_offset \in 0 .. NCases /\ offset \in [Reader -> 0 .. NCases] /\ MaxInCore \in Nat
      /\ class \in [Reader -> {"none", "source", "random"}]
      /\ min_offset + Size(window) <= source.taken /\ 0 \in Counts
  BY <1>3, Types, Numbers DEF Spread
<1>5. /\ class'[r] = "none" /\ offset'[r] = 0
      /\ \A q \in Reader : q # r => class'[q] = class[q] /\ offset'[q] = offset[q]
      /\ class' \in [Reader -> {"none", "source", "random"}] /\ offset' \in [Reader -> 0 .. NCases]
  BY <1>1, <1>3, <1>4
<1>6. call' \in Calls /\ count' \in Countings /\ Calling' /\ Counting'
  BY <1>3, CallIs DEF Calling, Counting, Countings, Idle
<1>7. CASE Live = {r}
  <2>1. /\ store' = "none" /\ window' = casewindow_create(MaxInCore)
        /\ subreader' = [open |-> FALSE, n_cases |-> 0] /\ min_offset' = 0 /\ aborted' = aborted
    BY <1>2, <1>7
  <2>2. Sound(window') /\ Size(window') = 0
    BY <1>4, <2>1, Created
  <2>3. Ordered'
    BY <2>2 DEF Ordered
  <2>4. \A q \in Reader : class'[q] = "none" /\ offset'[q] = 0
    <3>1. \A q \in Reader : q # r => class[q] = "none"
      BY <1>7 DEF Live
    <3> QED
      BY <1>3, <1>5, <3>1 DEF Spread, Random
  <2>5. Spread'
    <3>1. 0 + Size(window') <= source.taken
      BY <1>4, <2>2
    <3> QED
      BY <1>1, <2>1, <2>4, <3>1 DEF Spread, Live, Random
  <2>6. TypeOK'
    BY <1>1, <1>4, <1>5, <2>1 DEF Safe, TypeOK, Counts
  <2> QED
    BY <1>1, <1>3, <1>6, <2>1, <2>2, <2>3, <2>5, <2>6 DEF Safe
<1>8. CASE Live # {r}
  <2> DEFINE rs == Live \ {r}
  <2>1. /\ advance_random_reader(offset, rs, window) /\ store' = store /\ subreader' = subreader
    BY <1>2, <1>8
  <2>2. rs \in SUBSET Reader /\ rs # {}
    BY <1>8 DEF Live
  <2>3. \A q \in Live : Random(q)
    <3>1. \A q \in Reader : class[q] # "source"
      BY <1>3, <1>8 DEF Spread
    <3> QED
      BY <1>4, <3>1 DEF Live, Random
  <2>4. \A q \in rs : Random(q) /\ q # r /\ q \in Reader /\ offset[q] >= min_offset
    BY <1>3, <2>3 DEF Spread, Live
  <2>5. \A q \in Reader : Random(q)' => q \in rs
    BY <1>5 DEF Random, Live
  <2> HIDE DEF rs
  <2>6. /\ min_offset' \in 0 .. NCases /\ min_offset' >= min_offset
        /\ \E q \in rs : offset[q] = min_offset'
        /\ \A q \in rs : offset[q] >= min_offset'
        /\ aborted' \in BOOLEAN /\ Sound(window') /\ Ordered' /\ Size(window') \in Nat
        /\ aborted' <=> min_offset' > min_offset + Size(window)
        /\ ~ aborted' => min_offset' + Size(window') = min_offset + Size(window)
    BY <1>1, <1>3, <1>4, <2>1, <2>2, <2>4, Advances
  <2>7. store \in {"window", "shim"}
    BY <1>3, <2>2, <2>4 DEF Spread
  <2>8. ~ aborted' => Spread'
    <3>0. SUFFICES ASSUME ~ aborted' PROVE Spread'
      OBVIOUS
    <3>1. min_offset' + Size(window') <= source'.taken
      BY <1>1, <1>4, <2>6, <3>0
    <3>2. \A q \in rs : class'[q] = "random" /\ offset'[q] = offset[q]
      BY <1>5, <2>4 DEF Random
    <3>3. \A q \in Reader : class'[q] # "source"
      BY <1>3, <1>5, <2>3 DEF Live, Random
    <3>4. \A q \in Reader : class'[q] # "random" => offset'[q] = 0
      BY <1>3, <1>5 DEF Spread, Random
    <3>5. Live' # {}
      BY <2>2, <3>2 DEF Live
    <3>6. \E q \in Reader : Random(q)' /\ offset'[q] = min_offset'
      BY <2>2, <2>6, <3>2 DEF Random
    <3>7. \A q \in Reader : class'[q] = "random" => offset'[q] >= min_offset'
      BY <2>5, <2>6, <3>2 DEF Random
    <3> QED
      BY <2>1, <2>7, <3>1, <3>3, <3>4, <3>5, <3>6, <3>7 DEF Spread, Random
  <2>9. TypeOK'
    BY <1>1, <1>5, <2>1, <2>6 DEF Safe, TypeOK, Counts
  <2>10. store' # "writer" /\ call' = Idle
    BY <1>3, <2>1, <2>7
  <2>11. source'.taken <= source'.length
    BY <1>1 DEF Safe
  <2> QED
    BY <1>6, <2>6, <2>8, <2>9, <2>10, <2>11 DEF Safe
<1> QED
  BY <1>7, <1>8

LEMMA SafeInit ==
  ASSUME Init
  PROVE  Safe
<1>1. /\ n_cases \in {[r \in Reader |-> IF r = First THEN n ELSE 0] : n \in {NCases, CASENUMBER_MAX}}
      /\ offset = [r \in Reader |-> 0] /\ min_offset = 0
      /\ subreader = [open |-> FALSE, n_cases |-> 0] /\ tainted = {}
      /\ call = Idle /\ count = Idle /\ aborted = FALSE
  BY DEF Init
<1>2. /\ NCases \in Nat /\ MaxInCore \in Nat /\ CASENUMBER_MAX \in Nat /\ 0 \in Nat
      /\ NCases \in Counts /\ CASENUMBER_MAX \in Counts /\ 0 \in Counts /\ First \in Reader
      /\ 0 \in 0 .. NCases /\ 0 \in 0 .. NCases + 1 /\ NCases + 1 \in 0 .. NCases + 1
      /\ NCases \in 0 .. NCases
  BY Numbers
<1>3. n_cases \in [Reader -> Counts]
  BY <1>1, <1>2
<1>4. \A m \in Nat : LET w == casewindow_create(m) IN Sound(w) /\ Size(w) = 0
  BY Created
<1>5. call \in Calls /\ count \in Countings /\ Calling /\ Counting
  BY <1>1, CallIs DEF Calls, Countings, Calling, Counting, Idle
<1>6. CASE /\ store = "none"
           /\ class = [r \in Reader |-> IF r = First THEN "source" ELSE "none"]
           /\ source \in [length : {NCases}, taken : {0}, bad : 0 .. NCases + 1]
           /\ window = casewindow_create(MaxInCore)
  <2>1. Sound(window) /\ Size(window) = 0
    BY <1>2, <1>4, <1>6
  <2>2. source.taken = 0 /\ source.length = NCases /\ 0 + 0 <= 0 /\ 0 <= NCases
    BY <1>2, <1>6
  <2>3. TypeOK
    BY <1>1, <1>2, <1>3, <1>6 DEF TypeOK, Counts
  <2>4. Ordered
    BY <2>1 DEF Ordered
  <2>5. Spread
    <3>1. \A r \in Reader : class[r] = IF r = First THEN "source" ELSE "none"
      BY <1>6
    <3> QED
      BY <1>1, <1>2, <1>6, <2>1, <2>2, <3>1 DEF Spread, Live, Random
  <2> QED
    BY <1>1, <1>5, <1>6, <2>1, <2>2, <2>3, <2>4, <2>5 DEF Safe
<1>7. CASE /\ store = "writer"
           /\ class = [r \in Reader |-> "none"]
           /\ source = [length |-> 0, taken |-> 0, bad |-> NCases + 1]
           /\ window \in {casewindow_create(m) : m \in {MaxInCore, CASENUMBER_MAX, 0}}
  <2>1. Sound(window) /\ Size(window) = 0
    BY <1>2, <1>4, <1>7
  <2>2. source.taken = 0 /\ source.length = 0 /\ 0 + 0 <= 0
    BY <1>7
  <2>3. TypeOK
    BY <1>1, <1>2, <1>3, <1>7 DEF TypeOK, Counts
  <2>4. Ordered
    BY <2>1 DEF Ordered
  <2>5. Spread
    <3>1. \A r \in Reader : class[r] = "none"
      BY <1>7
    <3> QED
      BY <1>1, <1>7, <2>1, <2>2, <3>1 DEF Spread, Live, Random
  <2> QED
    BY <1>1, <1>5, <1>7, <2>1, <2>2, <2>3, <2>4, <2>5 DEF Safe
<1> QED
  BY <1>6, <1>7 DEF Init

(* A failed assertion is the end.                                          *)
LEMMA Dead ==
  ASSUME Safe, Next
  PROVE  ~ aborted
<1>1. SUFFICES ASSUME aborted PROVE FALSE
  OBVIOUS
<1>2. call.op = "idle" /\ ~ NoCall /\ store # "writer"
  BY <1>1, CallIs DEF Safe, NoCall
<1>3. ~ Asks
  BY <1>2 DEF Asks
<1>4. ~ Internal
  BY <1>2, <1>3 DEF Internal, casereader_shim_insert, random_reader_clone, buffer_case,
     Deliver, Exhausted, ReadSource, CountRead, CountEnd
<1>5. ~ External
  <2>1. \A r \in Reader : ~ Client(r)
    BY <1>2 DEF Client
  <2> QED
    BY <1>2, <2>1 DEF External, casewriter_write, casewriter_make_reader, ReadNothing,
       casereader_read, PeekNothing, casereader_peek, casereader_clone, casereader_count,
       casereader_truncate, casereader_force_error, casereader_destroy
<1> QED
  BY <1>4, <1>5 DEF Next

LEMMA SafeInternal ==
  ASSUME Safe, ~ aborted, Internal
  PROVE  Safe'
<1>1. CASE casereader_shim_insert
  BY <1>1, SafeShims
<1>2. CASE random_reader_clone
  BY <1>2, SafeClones
<1>3. ASSUME NEW good \in Writes, buffer_case(good) PROVE Safe'
  BY <1>3, SafeBuffers
<1>4. ASSUME NEW readable \in Readable, Deliver(readable) PROVE Safe'
  BY <1>4, SafeDelivers
<1>5. CASE Exhausted
  BY <1>5, SafeExhausts
<1>6. CASE ReadSource
  BY <1>6, SafeReadsSource
<1>7. ASSUME NoCall, count # Idle
      PROVE  /\ count.clone \in Live /\ count.r \in Reader /\ count.clone \in Reader
             /\ count.i \in 0 .. NCases
             /\ count.more => n_cases[count.clone] = CASENUMBER_MAX
  <2>1. Counting /\ call = Idle /\ call.op = "idle" /\ count \in Countings
    BY <1>7, Alive, CallIs DEF Safe, NoCall
  <2> QED
    BY <1>7, <2>1, CountIs DEF Counting, Live, Random
<1>8. CASE CountRead
  <2>1. NoCall /\ count # Idle /\ count.more /\ count.i < count.max
    BY <1>8 DEF CountRead
  <2>2. n_cases[count.clone] # 0
    BY <1>7, <2>1, Numbers
  <2>3. StartRead(count.clone) /\ count' = count
    BY <1>8, <2>2 DEF CountRead
  <2> QED
    BY <1>7, <2>1, <2>3, SafeStartsRead
<1>9. CASE CountEnd
  <2>1. /\ NoCall /\ count # Idle /\ Drop(count.clone) /\ count' = Idle /\ call' = call
        /\ n_cases' = [n_cases EXCEPT ![count.clone] = 0, ![count.r] = count.i]
    BY <1>9 DEF CountEnd
  <2>2. n_cases' \in [Reader -> Counts]
    BY <1>7, <2>1, Types, Numbers
  <2> QED
    BY <1>7, <2>1, <2>2, SafeDrops
<1> QED
  BY <1>1, <1>2, <1>3, <1>4, <1>5, <1>6, <1>8, <1>9 DEF Internal

LEMMA SafeExternal ==
  ASSUME Safe, ~ aborted, External
  PROVE  Safe'
<1>0. n_cases \in [Reader -> Counts] /\ tainted \subseteq {"source", "reader"}
  BY Types DEF Safe, TypeOK
<1>1. ASSUME NEW good \in Writes, casewriter_write(good) PROVE Safe'
  BY <1>1, SafeWrites
<1>2. CASE casewriter_make_reader
  BY <1>2, SafeOpens
<1>3. ASSUME NEW r \in Reader,
             \/ ReadNothing(r)
             \/ \E idx \in 0 .. NCases : PeekNothing(r, idx)
             \/ \E n \in 0 .. NCases : casereader_truncate(r, n)
             \/ casereader_force_error(r)
      PROVE  Safe'
  <2>1. /\ NoCall /\ count = Idle
        /\ class' = class /\ offset' = offset /\ min_offset' = min_offset /\ store' = store
        /\ window' = window /\ source' = source /\ aborted' = aborted /\ subreader' = subreader
        /\ call' = call /\ count' = count
    BY <1>3 DEF Client, ReadNothing, PeekNothing, casereader_truncate, casereader_force_error,
       readers, backend
  <2>2. \/ n_cases' = n_cases
        \/ \E n \in 0 .. NCases : n_cases' = [n_cases EXCEPT ![r] = n]
    BY <1>3 DEF ReadNothing, PeekNothing, casereader_truncate, casereader_force_error, readers
  <2>3. n_cases' \in [Reader -> Counts]
    BY <1>0, <2>2, Numbers
  <2>4. tainted' \subseteq {"source", "reader"}
    BY <1>0, <1>3 DEF ReadNothing, PeekNothing, casereader_truncate, casereader_force_error
  <2> QED
    BY <2>1, <2>3, <2>4, SafeQuiet
<1>4. ASSUME NEW r \in Reader, casereader_read(r) PROVE Safe'
  <2>1. NoCall /\ count = Idle /\ r \in Live /\ StartRead(r) /\ count' = count
    BY <1>4 DEF casereader_read, Client
  <2> QED
    BY <2>1, SafeStartsRead
<1>5. ASSUME NEW r \in Reader, NEW idx \in 0 .. NCases, casereader_peek(r, idx) PROVE Safe'
  BY <1>5, SafeStartsPeek
<1>6. ASSUME NEW r \in Reader, NEW new \in Reader, casereader_clone(r, new) PROVE Safe'
  BY <1>6, SafeStartsClone
<1>7. ASSUME NEW r \in Reader, NEW new \in Reader, NEW max \in {CASENUMBER_MAX} \cup 0 .. NCases,
             casereader_count(r, new, max)
      PROVE  Safe'
  BY <1>7, SafeStartsCount DEF Counts
<1>8. ASSUME NEW r \in Reader, casereader_destroy(r) PROVE Safe'
  <2>1. /\ NoCall /\ r \in Live /\ Drop(r) /\ n_cases' = [n_cases EXCEPT ![r] = 0]
        /\ call' = call /\ count' = Idle
    BY <1>8 DEF casereader_destroy, Client
  <2> QED
    BY <1>0, <2>1, SafeDrops, Numbers
<1> QED
  BY <1>1, <1>2, <1>3, <1>4, <1>5, <1>6, <1>7, <1>8 DEF External

LEMMA SafeNext ==
  ASSUME Safe, [Next]_vars
  PROVE  Safe'
<1>1. CASE Next
  BY <1>1, Dead, SafeInternal, SafeExternal DEF Next
<1>2. CASE UNCHANGED vars
  BY <1>2 DEF vars, Safe, TypeOK, Ordered, Calling, Counting, Spread, Live, Random
<1> QED
  BY <1>1, <1>2

LEMMA Safety == Spec => []Safe
BY SafeInit, SafeNext, PTL DEF Spec

-----------------------------------------------------------------------------
(* Readers, window, source and the call in progress keep their types       *)
(* whatever the clients call, and whatever the temporary file does.        *)
THEOREM TypeCorrect == Spec => []TypeOK
<1>1. Safe => TypeOK
  BY DEF Safe
<1> QED
  BY <1>1, Safety, PTL

(* However the temporary file fails (case_tmpfile_put_case or              *)
(* case_tmpfile_get_case in casewindow.c), what the window still holds are *)
(* cases of the source in their order, none twice.                         *)
THEOREM Orderly == Spec => []InOrder
<1>1. ASSUME Safe PROVE InOrder
  <2>1. Sound(window) /\ Ordered
    BY <1>1 DEF Safe
  <2>2. /\ Contents(window) \in Seq(Nat) /\ Len(Contents(window)) = Size(window)
        /\ \A k \in 1 .. Size(window) : Contents(window)[k] = CaseAt(window, k)
    BY <2>1, ContentsAre
  <2>3. DOMAIN Contents(window) = 1 .. Size(window)
    BY <2>2, LenProperties
  <2> QED
    BY <2>1, <2>2, <2>3 DEF InOrder, Ordered
<1> QED
  BY <1>1, Safety, PTL

-----------------------------------------------------------------------------
(* While the temporary file works, no case is lost.                        *)
LEMMA Works ==
  ASSUME ~ TempFaults
  PROVE  Writes = {MaxInCore + 1} /\ Readable = {TRUE}
BY DEF Writes, Readable

LEMMA LatestFrame ==
  ASSUME Latest, class' = class, offset' = offset, min_offset' = min_offset, store' = store,
         window' = window, source'.taken = source.taken, aborted' = aborted,
         store = "writer" => tainted' = tainted
  PROVE  Latest'
BY DEF Latest, Random

LEMMA LatestPushes ==
  ASSUME Safe, Latest, ~ TempFaults, NEW good \in Writes, source.taken < NCases,
         window' = casewindow_push_head(window, source.taken + 1, good),
         source'.taken = source.taken + 1
  PROVE  /\ Size(window') = Size(window) + 1 /\ ~ window'.broken
         /\ window'.class = "memory" => window'.max \in {MaxInCore, CASENUMBER_MAX}
         /\ \A k \in 1 .. Size(window') :
              CaseAt(window', k) = source'.taken - Size(window') + k
<1> DEFINE c == source.taken + 1
<1>1. /\ Sound(window) /\ Size(window) \in Nat /\ source.taken \in Nat /\ c \in Nat
      /\ MaxInCore \in Nat /\ CASENUMBER_MAX \in Nat /\ NCases \in Nat /\ CASENUMBER_MAX > NCases
      /\ ~ window.broken
      /\ \A k \in 1 .. Size(window) : CaseAt(window, k) = source.taken - Size(window) + k
  BY Types, Numbers DEF Safe, Latest
<1>2. good = MaxInCore + 1 /\ good \in Nat /\ good > 0
  BY <1>1, Works
<1>3. good > Size(window) \/ window.class = "file" \/ Size(window) < window.max
  <2>1. CASE window.class = "memory"
    <3>1. window.max \in {MaxInCore, CASENUMBER_MAX} /\ Size(window) <= window.max
      BY <1>1, <2>1, SizeIs DEF Latest
    <3>2. ~ aborted /\ min_offset + Size(window) <= source.taken /\ min_offset \in Nat
      BY Alive, Types, Numbers DEF Latest, Spread
    <3> QED
      BY <1>1, <1>2, <3>1, <3>2
  <2> QED
    BY <1>1, <2>1, WindowIs
<1>4. window' = casewindow_push_head(window, c, good)
  OBVIOUS
<1>5. window'.class = "memory" => window.class = "memory"
  BY <1>1, <1>4, StaysFile, WindowIs
<1> HIDE DEF c
<1>6. /\ \A k \in 1 .. Size(window') :
           /\ k <= Size(window) => CaseAt(window', k) = CaseAt(window, k)
           /\ k > Size(window) => CaseAt(window', k) = c
      /\ window'.class = "memory" => window'.max = window.max
      /\ Size(window') = Size(window) + 1 /\ ~ window'.broken
  <2>1. Sound(window) /\ c \in Nat /\ good \in Nat
    BY <1>1, <1>2
  <2>2. ASSUME NEW k \in 1 .. Size(window')
        PROVE  /\ k <= Size(window) => CaseAt(window', k) = CaseAt(window, k)
               /\ k > Size(window) => CaseAt(window', k) = c
    <3>1. CaseAt(window', k) = IF k <= Size(window) THEN CaseAt(window, k) ELSE c
      BY <1>4, <2>1, PushedAt
    <3>2. k > Size(window) => ~ (k <= Size(window))
      BY <1>1
    <3> QED
      BY <3>1, <3>2
  <2>4. window'.class = "memory" => window'.max = window.max
    BY <1>4, <2>1, Pushed
  <2>3. (/\ ~ window.broken /\ good > 0
         /\ good > Size(window) \/ window.class = "file" \/ Size(window) < window.max) =>
           Size(window') = Size(window) + 1 /\ ~ window'.broken
    BY <1>4, <2>1, Pushed
  <2> QED
    BY <1>1, <1>2, <1>3, <2>2, <2>3, <2>4
<1>7. ASSUME NEW k \in 1 .. Size(window')
      PROVE  CaseAt(window', k) = source'.taken - Size(window') + k
  <2>1. CASE k <= Size(window)
    <3>1. k \in 1 .. Size(window) /\ CaseAt(window', k) = CaseAt(window, k)
      BY <1>1, <1>6, <2>1
    <3>2. CaseAt(window, k) = source.taken - Size(window) + k
      BY <1>1, <3>1
    <3> QED
      BY <1>1, <1>6, <3>1, <3>2
  <2>2. CASE ~ (k <= Size(window))
    <3>1. k = Size(window) + 1 /\ CaseAt(window', k) = c
      BY <1>1, <1>6, <2>2
    <3> QED
      BY <1>1, <1>6, <3>1 DEF c
  <2> QED
    BY <2>1, <2>2
<1> QED
  BY <1>5, <1>6, <1>7 DEF Latest

LEMMA Shifted ==
  ASSUME NEW a \in Nat, NEW b \in Nat, NEW s \in Nat, NEW t \in Nat, b + t = a + s, b >= a,
         NEW k \in 1 .. t
  PROVE  (b - a) + k \in 1 .. s
OBVIOUS

LEMMA LatestAdvances ==
  ASSUME Safe, Latest, NEW offs \in [Reader -> 0 .. NCases], NEW rs \in SUBSET Reader, rs # {},
         \A q \in rs : offs[q] >= min_offset /\ offs[q] <= min_offset + Size(window),
         advance_random_reader(offs, rs, window), source' = source
  PROVE  /\ ~ aborted' /\ ~ window'.broken
         /\ window'.class = "memory" => window'.max \in {MaxInCore, CASENUMBER_MAX}
         /\ \A k \in 1 .. Size(window') :
              CaseAt(window', k) = source'.taken - Size(window') + k
         /\ min_offset' + Size(window') = min_offset + Size(window)
<1>1. /\ Sound(window) /\ Size(window) \in Nat /\ source.taken \in Nat /\ min_offset \in Nat
      /\ ~ aborted /\ NCases \in Nat /\ Ordered
  BY Types, Numbers DEF Safe, Latest
<1>2. /\ min_offset' \in 0 .. NCases /\ min_offset' >= min_offset
      /\ \E q \in rs : offs[q] = min_offset'
      /\ Size(window') \in Nat
      /\ aborted' <=> min_offset' > min_offset + Size(window)
      /\ ~ aborted' =>
           /\ min_offset' + Size(window') = min_offset + Size(window)
           /\ window'.class = window.class /\ window'.max = window.max
           /\ window'.broken = window.broken
           /\ \A k \in 1 .. Size(window') :
                CaseAt(window', k) = CaseAt(window, (min_offset' - min_offset) + k)
  BY <1>1, Advances
<1>3. min_offset' <= min_offset + Size(window) /\ min_offset' \in Nat
  BY <1>1, <1>2
<1>4. ~ aborted'
  BY <1>1, <1>2, <1>3
<1>5. ASSUME NEW k \in 1 .. Size(window')
      PROVE  CaseAt(window', k) = source'.taken - Size(window') + k
  <2>1. (min_offset' - min_offset) + k \in 1 .. Size(window)
    <3>1. /\ min_offset' + Size(window') = min_offset + Size(window)
          /\ min_offset' >= min_offset /\ Size(window') \in Nat
      BY <1>2, <1>4
    <3>2. Size(window) \in Nat /\ min_offset \in Nat /\ min_offset' \in Nat
      BY <1>1, <1>3
    <3> QED
      BY <3>1, <3>2, Shifted
  <2>2. CaseAt(window, (min_offset' - min_offset) + k)
        = source.taken - Size(window) + ((min_offset' - min_offset) + k)
    BY <2>1 DEF Latest
  <2>3. CaseAt(window', k) = source.taken - Size(window) + ((min_offset' - min_offset) + k)
    BY <1>2, <1>4, <2>2
  <2> QED
    BY <1>1, <1>2, <1>3, <1>4, <2>3
<1> QED
  BY <1>2, <1>4, <1>5 DEF Latest

LEMMA LatestDelivers ==
  ASSUME Safe, Latest, ~ TempFaults, NEW readable \in Readable, Deliver(readable)
  PROVE  Latest' /\ min_offset' + Size(window') = min_offset + Size(window)
<1> DEFINE c == casewindow_get_case(window, Wanted, readable)
           on == [offset EXCEPT ![call.r] = offset[call.r] + 1]
<1>1. Asks /\ InWindow /\ class' = class /\ store' = store /\ source' = source /\ tainted' = tainted
  BY DEF Deliver
<1>2. Sound(window) /\ readable = TRUE /\ ~ aborted
  BY Works DEF Safe, Latest
<1>3. AfterGet(window, readable) = window
  BY <1>2 DEF AfterGet
<1>4. \/ /\ call.op = "read" /\ offset' = on /\ advance_random_reader(on, Live, window)
      \/ /\ window' = window /\ offset' = offset /\ min_offset' = min_offset /\ aborted' = aborted
  BY <1>3 DEF Deliver
<1>5. /\ call.r \in Reader /\ Random(call.r) /\ offset[call.r] >= min_offset
      /\ Wanted = offset[call.r] - min_offset + call.depth /\ Live # {}
      /\ \A q \in Reader : class[q] \in {"none", "random"}
      /\ store \in {"window", "shim"}
      /\ call.op = "read" => call.depth = 0
  BY <1>1, <1>2, Asking, Alive DEF Calling
<1>6. /\ source.taken \in 0 .. NCases /\ NCases \in Nat /\ Size(window) \in Nat
      /\ min_offset \in 0 .. NCases /\ offset \in [Reader -> 0 .. NCases]
      /\ min_offset + Size(window) <= source.taken
  BY <1>2, Types, Numbers, Alive DEF Spread
<1>7. CASE /\ call.op = "read" /\ offset' = on /\ advance_random_reader(on, Live, window)
  <2>1. offset[call.r] \in 0 .. NCases /\ Size(window) > offset[call.r] - min_offset + 0
    BY <1>1, <1>5, <1>6, <1>7 DEF InWindow, Size
  <2>2. offset[call.r] + 1 <= min_offset + Size(window) /\ offset[call.r] + 1 \in 0 .. NCases
        /\ offset[call.r] + 1 >= min_offset
    BY <1>5, <1>6, <2>1
  <2>3. /\ on \in [Reader -> 0 .. NCases] /\ on[call.r] = offset[call.r] + 1
        /\ \A q \in Reader : q # call.r => on[q] = offset[q]
    BY <1>5, <1>6, <2>2
  <2> HIDE DEF on
  <2>4. /\ Live \in SUBSET Reader
        /\ \A q \in Live : offset[q] >= min_offset /\ offset[q] <= min_offset + Size(window)
    <3>1. \A q \in Live : q \in Reader /\ Random(q)
      BY <1>5 DEF Live, Random
    <3>2. Spread
      BY <1>2, Alive
    <3> QED
      BY <3>1, <3>2 DEF Spread, Latest
  <2>5. \A q \in Live : on[q] >= min_offset /\ on[q] <= min_offset + Size(window)
    BY <2>2, <2>3, <2>4
  <2>6. /\ ~ aborted' /\ ~ window'.broken
        /\ window'.class = "memory" => window'.max \in {MaxInCore, CASENUMBER_MAX}
        /\ \A k \in 1 .. Size(window') :
             CaseAt(window', k) = source'.taken - Size(window') + k
        /\ min_offset' + Size(window') = min_offset + Size(window)
    BY <1>1, <1>5, <1>7, <2>3, <2>4, <2>5, LatestAdvances
  <2>7. \A q \in Reader : Random(q)' => q \in Live
    BY <1>1 DEF Random, Live
  <2> QED
    BY <1>1, <1>5, <1>7, <2>5, <2>6, <2>7 DEF Latest
<1>8. CASE window' = window /\ offset' = offset /\ min_offset' = min_offset /\ aborted' = aborted
  BY <1>1, <1>8, LatestFrame
<1> QED
  BY <1>4, <1>7, <1>8

LEMMA LatestDrops ==
  ASSUME Safe, Latest, NoCall, NEW r \in Live, Drop(r)
  PROVE  Latest' /\ (Live # {r} => min_offset' + Size(window') = min_offset + Size(window))
<1>1. /\ class' = [class EXCEPT ![r] = "none"] /\ offset' = [offset EXCEPT ![r] = 0]
      /\ source' = source /\ tainted' = tainted
  BY DEF Drop
<1>2. \/ /\ Live = {r} /\ store' = "none" /\ window' = casewindow_create(MaxInCore)
         /\ min_offset' = 0 /\ aborted' = aborted
      \/ /\ Live # {r} /\ advance_random_reader(offset, Live \ {r}, window) /\ store' = store
  BY DEF Drop
<1>3. /\ Spread /\ ~ aborted /\ Sound(window) /\ r \in Reader /\ class[r] # "none"
  BY Alive DEF Safe, NoCall, Live
<1>4. /\ MaxInCore \in Nat /\ offset \in [Reader -> 0 .. NCases]
      /\ class \in [Reader -> {"none", "source", "random"}]
  BY <1>3, Types, Numbers
<1>5. /\ class'[r] = "none"
      /\ \A q \in Reader : q # r => class'[q] = class[q] /\ offset'[q] = offset[q]
  BY <1>1, <1>3, <1>4
<1>6. CASE Live = {r}
  <2>1. store' = "none" /\ window' = casewindow_create(MaxInCore) /\ aborted' = aborted
    BY <1>2, <1>6
  <2>2. Size(window') = 0 /\ ~ window'.broken /\ window'.max = MaxInCore
    BY <1>4, <2>1, Created
  <2>3. \A q \in Reader : class'[q] = "none"
    BY <1>5, <1>6 DEF Live
  <2> QED
    BY <1>3, <1>6, <2>1, <2>2, <2>3 DEF Latest, Random
<1>7. CASE Live # {r}
  <2> DEFINE rs == Live \ {r}
  <2>1. advance_random_reader(offset, rs, window) /\ store' = store
    BY <1>2, <1>7
  <2>2. rs \in SUBSET Reader /\ rs # {}
    BY <1>7 DEF Live
  <2>3. \A q \in rs : q \in Reader /\ q # r /\ Random(q)
    <3>1. \A q \in Reader : class[q] # "source"
      BY <1>3, <1>7 DEF Spread
    <3> QED
      BY <1>4, <3>1 DEF Live, Random
  <2>4. \A q \in rs : offset[q] >= min_offset /\ offset[q] <= min_offset + Size(window)
    BY <1>3, <2>3 DEF Spread, Latest
  <2>5. store \in {"window", "shim"}
    BY <1>3, <2>2, <2>3 DEF Spread
  <2>6. \A q \in Reader : Random(q)' => q \in rs
    BY <1>5 DEF Random, Live
  <2> HIDE DEF rs
  <2>7. /\ ~ aborted' /\ ~ window'.broken
        /\ window'.class = "memory" => window'.max \in {MaxInCore, CASENUMBER_MAX}
        /\ \A k \in 1 .. Size(window') :
             CaseAt(window', k) = source'.taken - Size(window') + k
        /\ min_offset' + Size(window') = min_offset + Size(window)
    BY <1>1, <1>4, <2>1, <2>2, <2>4, LatestAdvances
  <2>8. \A q \in Reader : Random(q)' => offset'[q] <= min_offset' + Size(window')
    BY <1>5, <2>3, <2>4, <2>6, <2>7
  <2> QED
    BY <2>1, <2>5, <2>7, <2>8 DEF Latest
<1> QED
  BY <1>6, <1>7

LEMMA LatestInternal ==
  ASSUME Safe, Latest, ~ TempFaults, Internal
  PROVE  Latest'
<1>0. ~ aborted
  BY DEF Latest
<1>1. CASE casereader_shim_insert
  <2>1. /\ call.op \in {"peek", "clone"} /\ class[call.r] = "source" /\ aborted' = aborted
        /\ class' = [class EXCEPT ![call.r] = "random"] /\ offset' = [offset EXCEPT ![call.r] = 0]
        /\ min_offset' = 0 /\ store' = "shim" /\ window' = casewindow_create(MaxInCore)
    BY <1>1 DEF casereader_shim_insert
  <2>2. call.r \in Reader
    BY <2>1, CallIs DEF Safe
  <2>3. \A q \in Reader : q # call.r => class'[q] = "none"
    BY <1>0, <2>1, <2>2, Only, Types
  <2>4. Size(window') = 0 /\ ~ window'.broken /\ window'.max = MaxInCore /\ offset'[call.r] = 0
    BY <2>1, <2>2, Created, Numbers, Types
  <2> QED
    BY <1>0, <2>1, <2>2, <2>3, <2>4 DEF Latest, Random
<1>2. CASE random_reader_clone
  <2>1. /\ call.op = "clone" /\ class[call.r] = "random" /\ aborted' = aborted
        /\ class' = [class EXCEPT ![call.new] = "random"]
        /\ offset' = [offset EXCEPT ![call.new] = offset[call.r]] /\ min_offset' = min_offset
        /\ store' = store /\ window' = window /\ source' = source /\ tainted' = tainted
    BY <1>2 DEF random_reader_clone, backend
  <2>2. call.r \in Reader /\ call.new \in Reader
    BY <2>1, CallIs DEF Safe
  <2>3. /\ \A q \in Reader : q # call.new => class'[q] = class[q] /\ offset'[q] = offset[q]
        /\ offset'[call.new] = offset[call.r]
    BY <2>1, <2>2, Types
  <2> QED
    BY <2>1, <2>2, <2>3 DEF Latest, Random
<1>3. ASSUME NEW good \in Writes, buffer_case(good) PROVE Latest'
  <2>1. /\ Asks /\ class' = class /\ offset' = offset /\ min_offset' = min_offset
        /\ store' = store /\ aborted' = aborted
    BY <1>3 DEF buffer_case, readers
  <2>2. store \in {"window", "shim"}
    BY <1>0, <2>1, Asking
  <2>3. CASE SourceHas(subreader.n_cases)
    <3>1. /\ source' = [source EXCEPT !.taken = source.taken + 1]
          /\ window' = casewindow_push_head(window, source.taken + 1, good)
          /\ source.taken < source.length
      BY <1>3, <2>3 DEF buffer_case, SourceHas
    <3>2. source'.taken = source.taken + 1 /\ source.taken < NCases
      <4>1. /\ source.length \in 0 .. NCases /\ source.taken \in 0 .. NCases /\ NCases \in Nat
            /\ source = [length |-> source.length, taken |-> source.taken, bad |-> source.bad]
        BY Types, Numbers
      <4> QED
        BY <3>1, <4>1
    <3>3. /\ Size(window') = Size(window) + 1 /\ ~ window'.broken
          /\ window'.class = "memory" => window'.max \in {MaxInCore, CASENUMBER_MAX}
          /\ \A k \in 1 .. Size(window') :
               CaseAt(window', k) = source'.taken - Size(window') + k
      BY <3>1, <3>2, LatestPushes
    <3>4. \A q \in Reader : Random(q) => offset[q] <= min_offset + Size(window')
      <4>1. Size(window) \in Nat /\ min_offset \in 0 .. NCases /\ offset \in [Reader -> 0 .. NCases]
        BY Types
      <4>2. \A q \in Reader : Random(q) => offset[q] <= min_offset + Size(window)
        BY DEF Latest
      <4> QED
        BY <3>3, <4>1, <4>2, Numbers
    <3> QED
      BY <1>0, <2>1, <2>2, <3>3, <3>4 DEF Latest, Random
  <2>4. CASE ~ SourceHas(subreader.n_cases)
    <3>1. source' = source /\ window' = window
      BY <1>3, <2>4 DEF buffer_case
    <3> QED
      BY <2>1, <2>2, <3>1, LatestFrame
  <2> QED
    BY <2>3, <2>4
<1>4. ASSUME NEW readable \in Readable, Deliver(readable) PROVE Latest'
  BY <1>4, LatestDelivers
<1>5. CASE Exhausted
  BY <1>5, LatestFrame DEF Exhausted, backend
<1>6. CASE ReadSource
  <2>1. /\ call.op = "read" /\ class[call.r] = "source"
        /\ class' = class /\ offset' = offset /\ min_offset' = min_offset /\ store' = store
        /\ window' = window /\ aborted' = aborted
    BY <1>6 DEF ReadSource, backend
  <2>2. call.r \in Reader
    BY <2>1, CallIs DEF Safe
  <2>3. store = "none"
    BY <1>0, <2>1, <2>2, Only
  <2> QED
    BY <2>1, <2>3 DEF Latest, Random
<1>7. CASE CountRead
  BY <1>7, LatestFrame DEF CountRead, StartRead, backend, readers
<1>8. CASE CountEnd
  <2>1. NoCall /\ count # Idle /\ Drop(count.clone)
    BY <1>8 DEF CountEnd
  <2>2. count.clone \in Live
    <3>1. Counting /\ call = Idle /\ call.op = "idle" /\ count \in Countings
      BY <1>0, <2>1, Alive, CallIs DEF Safe, NoCall
    <3> QED
      BY <2>1, <3>1, CountIs DEF Counting, Live, Random
  <2> QED
    BY <2>1, <2>2, LatestDrops
<1> QED
  BY <1>1, <1>2, <1>3, <1>4, <1>5, <1>6, <1>7, <1>8 DEF Internal

LEMMA LatestExternal ==
  ASSUME Safe, Latest, ~ TempFaults, External
  PROVE  Latest'
<1>0. ~ aborted
  BY DEF Latest
<1>1. ASSUME NEW good \in Writes, casewriter_write(good) PROVE Latest'
  <2>1. /\ class' = class /\ offset' = offset /\ min_offset' = min_offset
        /\ store' = store /\ store = "writer" /\ tainted' = tainted /\ aborted' = aborted
        /\ source.taken < NCases
        /\ window' = casewindow_push_head(window, source.taken + 1, good)
        /\ source' = [source EXCEPT !.length = source.length + 1, !.taken = source.taken + 1]
    BY <1>1 DEF casewriter_write, readers
  <2>2. source'.taken = source.taken + 1
    BY <2>1, Types
  <2>3. /\ Size(window') = Size(window) + 1 /\ ~ window'.broken
        /\ window'.class = "memory" => window'.max \in {MaxInCore, CASENUMBER_MAX}
        /\ \A k \in 1 .. Size(window') :
             CaseAt(window', k) = source'.taken - Size(window') + k
    BY <2>1, <2>2, LatestPushes
  <2>4. \A q \in Reader : ~ Random(q)'
    <3>1. Live = {}
      BY <1>0, <2>1, Alive DEF Spread
    <3> QED
      BY <2>1, <3>1 DEF Live, Random
  <2>5. Size(window') = source'.taken
    BY <2>1, <2>2, <2>3 DEF Latest
  <2> QED
    BY <1>0, <2>1, <2>3, <2>4, <2>5 DEF Latest
<1>2. CASE casewriter_make_reader
  <2>1. /\ class' = [class EXCEPT ![First] = "random"] /\ offset' = offset
        /\ min_offset' = min_offset /\ store' = "window" /\ store = "writer" /\ aborted' = aborted
        /\ window' = window /\ source' = source
    BY <1>2 DEF casewriter_make_reader
  <2>2. Spread /\ Live = {} /\ min_offset = 0 /\ Size(window) \in Nat /\ First \in Reader
    BY <1>0, <2>1, Alive, Types, Numbers DEF Spread
  <2>3. offset[First] = 0 /\ \A q \in Reader : q # First => ~ Random(q)'
    BY <2>1, <2>2, Types DEF Spread, Live, Random
  <2>4. 0 <= 0 + Size(window)
    BY <2>2
  <2> QED
    BY <2>1, <2>2, <2>3, <2>4 DEF Latest
<1>3. ASSUME NEW r \in Reader,
             \/ ReadNothing(r)
             \/ casereader_read(r)
             \/ \E idx \in 0 .. NCases : PeekNothing(r, idx) \/ casereader_peek(r, idx)
             \/ \E new \in Reader :
                  \/ casereader_clone(r, new)
                  \/ \E max \in {CASENUMBER_MAX} \cup 0 .. NCases : casereader_count(r, new, max)
             \/ \E n \in 0 .. NCases : casereader_truncate(r, n)
             \/ casereader_force_error(r)
      PROVE  Latest'
  <2>1. /\ Client(r)
        /\ class' = class /\ offset' = offset /\ min_offset' = min_offset /\ store' = store
        /\ window' = window /\ source' = source /\ aborted' = aborted
    BY <1>3 DEF ReadNothing, casereader_read, StartRead, PeekNothing, casereader_peek, Client,
       casereader_clone, casereader_count, casereader_truncate, casereader_force_error, readers,
       backend
  <2>2. store # "writer"
    BY <1>0, <2>1, Alive DEF Client, Spread
  <2> QED
    BY <2>1, <2>2, LatestFrame
<1>4. ASSUME NEW r \in Reader, casereader_destroy(r) PROVE Latest'
  BY <1>4, LatestDrops DEF casereader_destroy, Client
<1> QED
  BY <1>1, <1>2, <1>3, <1>4 DEF External

LEMMA LatestInit ==
  ASSUME Init
  PROVE  Latest
<1>1. Size(window) = 0 /\ ~ window.broken /\ window.max \in {MaxInCore, CASENUMBER_MAX, 0}
  BY Created, Numbers DEF Init
<1>2. window.class = "memory" => window.max \in {MaxInCore, CASENUMBER_MAX}
  <2>1. \E m \in {MaxInCore, CASENUMBER_MAX, 0} : window = casewindow_create(m)
    BY DEF Init
  <2> QED
    BY <2>1 DEF casewindow_create
<1>3. \A r \in Reader : class[r] # "random"
  BY DEF Init
<1>4. store = "writer" => source.taken = 0
  BY DEF Init
<1>5. ~ aborted /\ tainted = {}
  BY DEF Init
<1> QED
  BY <1>1, <1>2, <1>3, <1>4, <1>5 DEF Latest, Random

LEMMA LatestNext ==
  ASSUME Safe, Latest, ~ TempFaults, [Next]_vars
  PROVE  Latest'
<1>1. CASE Next
  BY <1>1, LatestInternal, LatestExternal DEF Next
<1>2. CASE UNCHANGED vars
  BY <1>2 DEF vars, Latest, Random
<1> QED
  BY <1>1, <1>2

LEMMA Newest ==
  ASSUME ~ TempFaults
  PROVE  Spec => []Latest
<1>1. Init => Latest
  BY LatestInit
<1>2. Safe /\ Latest /\ [Next]_vars => Latest'
  BY LatestNext
<1> QED
  BY <1>1, <1>2, Safety, PTL DEF Spec

(* While the temporary file works, no assertion of casewindow.c or         *)
(* casereader-shim.c fails: the window is never asked to drop more cases   *)
(* than it holds.                                                          *)
THEOREM NothingAborts ==
  ASSUME ~ TempFaults
  PROVE  Spec => []AssertionsHold
<1>1. Latest => AssertionsHold
  BY DEF Latest, AssertionsHold
<1> QED
  BY <1>1, Newest, PTL

(* The window begins where the hindmost clone stands and reaches at least  *)
(* to the foremost (advance_random_reader), so no clone misses a case and  *)
(* none is kept that all have passed.                                      *)
THEOREM Tight ==
  ASSUME ~ TempFaults
  PROVE  Spec => []WindowTight
<1>1. ASSUME Safe, Latest PROVE WindowTight
  <2>1. Spread
    BY <1>1, Alive DEF Latest
  <2> QED
    BY <1>1, <2>1 DEF WindowTight, Spread, Latest, Random, Size
<1> QED
  BY <1>1, Newest, Safety, PTL

-----------------------------------------------------------------------------
(* The sequence that the readers read.                                     *)
Failed == IF Live = {} THEN tainted # {} ELSE \E r \in Live : casereader_error(r)
Placed == [r \in Reader |-> IF r \in Held THEN Place(r) ELSE 0]
Limited == [r \in Reader |-> IF r \in Held THEN Limit(r) ELSE 0]

Step == [Stream!Next]_(Stream!vars)

LEMMA Places ==
  ASSUME Safe, Latest, NEW r \in Reader, Random(r)
  PROVE  /\ Place(r) = (source.taken - (min_offset + Size(window))) + offset[r]
         /\ Place(r) \in 0 .. source.taken
<1>1. /\ source.taken \in Nat /\ Size(window) \in Nat /\ min_offset \in Nat /\ offset[r] \in Nat
      /\ min_offset + Size(window) <= source.taken
      /\ offset[r] >= min_offset /\ offset[r] <= min_offset + Size(window)
  <2>1. Spread /\ NCases \in Nat
    BY Alive, Numbers DEF Latest
  <2> QED
    BY <2>1, Types DEF Spread, Latest
<1>2. Place(r) = source.taken - Size(window) - min_offset + offset[r]
  BY DEF Place, Random, Size
<1> QED
  BY <1>1, <1>2

LEMMA Limits ==
  ASSUME Safe, ~ aborted, NEW r \in Reader
  PROVE  /\ Limit(r) \in Nat /\ Limit(r) \in Counts
         /\ Limit(r) = CASENUMBER_MAX <=> n_cases[r] = CASENUMBER_MAX
         /\ call.op = "read" /\ call.r = r => Limit(r) > 0
         /\ call.op = "read" /\ call.r = r /\ n_cases[r] # CASENUMBER_MAX =>
              Limit(r) = n_cases[r] + 1 /\ n_cases[r] \in 0 .. NCases - 1
         /\ ~ (call.op = "read" /\ call.r = r) => Limit(r) = n_cases[r]
<1>1. /\ n_cases[r] \in Counts /\ n_cases[r] \in Nat /\ CASENUMBER_MAX \in Nat /\ NCases \in Nat
      /\ CASENUMBER_MAX > NCases
  BY Types, Numbers
<1>2. CASE call.op = "read" /\ call.r = r /\ n_cases[r] # CASENUMBER_MAX
  <2>1. Limit(r) = n_cases[r] + 1 /\ n_cases[r] \in 0 .. NCases - 1
    BY <1>2, Alive DEF Limit, Calling
  <2>2. n_cases[r] + 1 \in 0 .. NCases /\ n_cases[r] + 1 > 0
    BY <1>1, <2>1
  <2> QED
    BY <1>1, <1>2, <2>1, <2>2 DEF Counts
<1>3. CASE ~ (call.op = "read" /\ call.r = r /\ n_cases[r] # CASENUMBER_MAX)
  <2>1. Limit(r) = n_cases[r]
    BY <1>3 DEF Limit
  <2> QED
    BY <1>1, <1>3, <2>1
<1> QED
  BY <1>2, <1>3

(* All live readers see the same errors.                                   *)
LEMMA Errors ==
  ASSUME Safe, ~ aborted
  PROVE  /\ Failed \in BOOLEAN
         /\ Live = {} => (Failed <=> tainted # {})
         /\ \A r \in Live : /\ Random(r) => (Failed <=> "reader" \in tainted)
                            /\ ~ Random(r) => (Failed <=> "source" \in tainted)
         /\ \A r \in Live : Failed <=> casereader_error(r)
<1>1. ASSUME NEW r \in Live, NEW q \in Live PROVE class[q] = class[r] /\ class[r] \in {"source", "random"}
  <2>1. class[q] \in {"source", "random"} /\ class[r] \in {"source", "random"}
    BY Types DEF Live
  <2> QED
    BY <2>1, Alive DEF Spread, Live
<1>2. ASSUME NEW r \in Live PROVE Failed <=> casereader_error(r)
  BY <1>1 DEF Failed, casereader_error
<1> QED
  BY <1>1, <1>2 DEF Failed, casereader_error, Random

LEMMA Stutters ==
  ASSUME Held' = Held, source'.length = source.length,
         \A q \in Held : Place(q)' = Place(q) /\ Limit(q)' = Limit(q),
         Failed \in BOOLEAN, Failed' \in BOOLEAN, Failed => Failed', reply' = reply
  PROVE  Step
<1>1. Placed' = Placed /\ Limited' = Limited
  BY DEF Placed, Limited
<1>2. CASE Failed' = Failed
  BY <1>1, <1>2 DEF Step, Stream!vars, Placed, Limited, Failed
<1>3. CASE Failed' = TRUE
  <2>1. Stream!Fail
    BY <1>1, <1>3 DEF Stream!Fail, Placed, Limited, Failed
  <2> QED
    BY <2>1 DEF Step, Stream!Next
<1> QED
  BY <1>2, <1>3

LEMMA StepReads ==
  ASSUME NEW r \in Reader, r \in Held, Held' = Held, source'.length = source.length,
         \A q \in Held : q # r => Place(q)' = Place(q) /\ Limit(q)' = Limit(q),
         \/ /\ Limit(r) > 0 /\ Place(r) < source.length /\ Place(r)' = Place(r) + 1
            /\ Limit(r)' = IF Limit(r) = CASENUMBER_MAX THEN Limit(r) ELSE Limit(r) - 1
            /\ reply' = Place(r) + 1 /\ Failed' = Failed
         \/ /\ Failed' = Failed \/ Failed' = TRUE
            /\ Limit(r) = 0 \/ Place(r) = source.length \/ Failed'
            /\ Place(r)' = Place(r) /\ Limit(r)' = 0 /\ reply' = NoCase
  PROVE  Step
<1>1. Placed' = [Placed EXCEPT ![r] = Place(r)'] /\ Placed[r] = Place(r)
  BY DEF Placed
<1>2. Limited' = [Limited EXCEPT ![r] = Limit(r)'] /\ Limited[r] = Limit(r)
  BY DEF Limited
<1>3. CASE /\ Limit(r) > 0 /\ Place(r) < source.length /\ Place(r)' = Place(r) + 1
           /\ Limit(r)' = IF Limit(r) = CASENUMBER_MAX THEN Limit(r) ELSE Limit(r) - 1
           /\ reply' = Place(r) + 1 /\ Failed' = Failed
  <2>1. /\ Limited[r] > 0 /\ Placed[r] < source.length
        /\ Placed' = [Placed EXCEPT ![r] = Placed[r] + 1]
        /\ Limited' = [Limited EXCEPT ![r] = IF Limited[r] = CASENUMBER_MAX THEN Limited[r]
                                                                        ELSE Limited[r] - 1]
        /\ reply' = Placed[r] + 1
    BY <1>1, <1>2, <1>3
  <2>2. Stream!Read(r)
    BY <1>3, <2>1 DEF Stream!Read, Placed, Limited, Failed
  <2> QED
    BY <2>2 DEF Step, Stream!Next
<1>4. CASE /\ Failed' = Failed \/ Failed' = TRUE
           /\ Limit(r) = 0 \/ Place(r) = source.length \/ Failed'
           /\ Place(r)' = Place(r) /\ Limit(r)' = 0 /\ reply' = NoCase
  <2>1. /\ Limited[r] = 0 \/ Placed[r] = source.length \/ Failed'
        /\ Placed' = Placed
        /\ Limited' = [Limited EXCEPT ![r] = 0]
        /\ reply' = 0 /\ Failed' \in {Failed, TRUE}
    BY <1>1, <1>2, <1>4 DEF NoCase, Placed
  <2>2. Stream!Read(r)
    BY <2>1 DEF Stream!Read, Placed, Limited, Failed
  <2> QED
    BY <2>2 DEF Step, Stream!Next
<1> QED
  BY <1>3, <1>4

LEMMA StepPeeks ==
  ASSUME NEW r \in Reader, r \in Held, NEW idx \in 0 .. NCases,
         Held' = Held, source'.length = source.length,
         \A q \in Held : Place(q)' = Place(q),
         \A q \in Held : q # r => Limit(q)' = Limit(q),
         Failed' = Failed,
         \/ /\ Limit(r) > idx /\ Place(r) + idx < source.length /\ Limit(r)' = Limit(r)
            /\ reply' = Place(r) + idx + 1
         \/ /\ Limit(r) <= idx \/ Place(r) + idx >= source.length \/ Failed'
            /\ Limit(r)' \in {0, idx, Limit(r)} /\ Limit(r)' <= Limit(r)
            /\ Limit(r)' < Limit(r) => Failed' \/ Place(r) + Limit(r)' >= source.length
            /\ reply' = NoCase
  PROVE  Step
<1>1. Placed' = Placed /\ Placed[r] = Place(r)
  BY DEF Placed
<1>2. Limited' = [Limited EXCEPT ![r] = Limit(r)'] /\ Limited[r] = Limit(r) /\ Limited'[r] = Limit(r)'
  BY DEF Limited
<1>3. CASE /\ Limit(r) > idx /\ Place(r) + idx < source.length /\ Limit(r)' = Limit(r)
           /\ reply' = Place(r) + idx + 1
  <2>1. /\ Limited[r] > idx /\ Placed[r] + idx < source.length /\ Limited' = Limited
        /\ reply' = Placed[r] + idx + 1
    BY <1>1, <1>2, <1>3 DEF Limited
  <2>2. Stream!Peek(r, idx)
    BY <1>1, <2>1 DEF Stream!Peek, Placed, Limited, Failed
  <2> QED
    BY <2>2 DEF Step, Stream!Next
<1>4. CASE /\ Limit(r) <= idx \/ Place(r) + idx >= source.length \/ Failed'
           /\ Limit(r)' \in {0, idx, Limit(r)} /\ Limit(r)' <= Limit(r)
           /\ Limit(r)' < Limit(r) => Failed' \/ Place(r) + Limit(r)' >= source.length
           /\ reply' = NoCase
  <2>1. /\ Limited[r] <= idx \/ Placed[r] + idx >= source.length \/ Failed'
        /\ Limited' \in {[Limited EXCEPT ![r] = n] : n \in {0, idx, Limited[r]}}
        /\ Limited'[r] <= Limited[r]
        /\ Limited'[r] < Limited[r] => Failed' \/ Placed[r] + Limited'[r] >= source.length
        /\ reply' = 0
    BY <1>1, <1>2, <1>4 DEF NoCase
  <2>2. Stream!Peek(r, idx)
    BY <1>1, <2>1 DEF Stream!Peek, Placed, Limited, Failed
  <2> QED
    BY <2>2 DEF Step, Stream!Next
<1> QED
  BY <1>3, <1>4

LEMMA StepClones ==
  ASSUME NEW r \in Reader, r \in Held, NEW new \in Reader, new \notin Held,
         Held' = Held \cup {new}, source'.length = source.length,
         \A q \in Held : Place(q)' = Place(q) /\ Limit(q)' = Limit(q),
         Place(new)' = Place(r), Limit(new)' = Limit(r), Failed' = Failed, reply' = reply
  PROVE  Step
<1>1. Placed' = [Placed EXCEPT ![new] = Placed[r]]
  BY DEF Placed
<1>2. Limited' = [Limited EXCEPT ![new] = Limited[r]]
  BY DEF Limited
<1>3. Stream!Clone(r, new)
  BY <1>1, <1>2 DEF Stream!Clone, Placed, Limited, Failed
<1> QED
  BY <1>3 DEF Step, Stream!Next

LEMMA StepTruncates ==
  ASSUME NEW r \in Reader, r \in Held, NEW n \in Counts,
         Held' = Held, source'.length = source.length,
         \A q \in Held : Place(q)' = Place(q),
         \A q \in Held : q # r => Limit(q)' = Limit(q),
         Failed' = Failed, reply' = reply,
         \/ Limit(r) # CASENUMBER_MAX /\ Limit(r) > n /\ Limit(r)' = n
         \/ /\ Limit(r) = CASENUMBER_MAX
            /\ Limit(r)' \in 0 .. source.length - Place(r) /\ Limit(r)' <= n
            /\ Limit(r)' = n \/ Limit(r)' = source.length - Place(r) \/ Failed
  PROVE  Step
<1>1. Placed' = Placed /\ Placed[r] = Place(r)
  BY DEF Placed
<1>2. Limited' = [Limited EXCEPT ![r] = Limit(r)'] /\ Limited[r] = Limit(r)
  BY DEF Limited
<1>3. Stream!Truncate(r, n)
  <2>1. CASE Limit(r) # CASENUMBER_MAX /\ Limit(r) > n /\ Limit(r)' = n
    <3>1. Limited[r] # CASENUMBER_MAX
          /\ Limited' = [Limited EXCEPT ![r] = IF Limited[r] > n THEN n ELSE Limited[r]]
      BY <1>2, <2>1
    <3> QED
      BY <1>1, <3>1 DEF Stream!Truncate, Placed, Limited, Failed
  <2>2. CASE /\ Limit(r) = CASENUMBER_MAX
             /\ Limit(r)' \in 0 .. source.length - Place(r) /\ Limit(r)' <= n
             /\ Limit(r)' = n \/ Limit(r)' = source.length - Place(r) \/ Failed
    <3>1. /\ ~ (Limited[r] # CASENUMBER_MAX)
          /\ \E m \in 0 .. source.length - Placed[r] :
               /\ m <= n
               /\ m = n \/ m = source.length - Placed[r] \/ Failed
               /\ Limited' = [Limited EXCEPT ![r] = m]
      BY <1>1, <1>2, <2>2
    <3> QED
      BY <1>1, <3>1 DEF Stream!Truncate, Placed, Limited, Failed
  <2> QED
    BY <2>1, <2>2
<1>4. n \in (0 .. NCases) \cup {CASENUMBER_MAX}
  BY DEF Counts
<1> QED
  BY <1>3, <1>4 DEF Step, Stream!Next

LEMMA StepDestroys ==
  ASSUME NEW r \in Reader, r \in Held, Held' = Held \ {r}, source'.length = source.length,
         \A q \in Held : q # r => Place(q)' = Place(q) /\ Limit(q)' = Limit(q),
         Failed' = Failed, reply' = reply
  PROVE  Step
<1>1. Placed' = [Placed EXCEPT ![r] = 0]
  BY DEF Placed
<1>2. Limited' = [Limited EXCEPT ![r] = 0]
  BY DEF Limited
<1>3. Stream!Destroy(r)
  BY <1>1, <1>2 DEF Stream!Destroy, Placed, Limited, Failed
<1> QED
  BY <1>3 DEF Step, Stream!Next

LEMMA StepOpens ==
  ASSUME NEW r \in Reader, Held = {}, Held' = {r}, source'.length = source.length,
         Place(r)' = 0, Limit(r)' = source.length, Failed' = Failed, reply' = reply
  PROVE  Step
<1>1. Placed' = Placed
  BY DEF Placed
<1>2. Limited' = [Limited EXCEPT ![r] = source.length]
  BY DEF Limited
<1>3. Stream!Open(r)
  BY <1>1, <1>2 DEF Stream!Open, Placed, Limited, Failed
<1> QED
  BY <1>3 DEF Step, Stream!Next

LEMMA StepWrites ==
  ASSUME Held = {}, Held' = {}, source'.length = source.length + 1,
         Failed' = Failed, reply' = reply
  PROVE  Step
<1>1. Placed' = Placed /\ Limited' = Limited
  BY DEF Placed, Limited
<1>2. Stream!Write
  BY <1>1 DEF Stream!Write, Placed, Limited, Failed
<1> QED
  BY <1>2 DEF Step, Stream!Next

-----------------------------------------------------------------------------
(* Every step is one of the sequence, or none, and keeps Known.            *)
LEMMA Holders ==
  /\ Held \subseteq Live /\ Live \subseteq Reader
  /\ \A r \in Live : r \in Reader /\ class[r] # "none"
  /\ count = Idle => Held = Live
  /\ count # Idle => Held = Live \ {count.clone}
BY DEF Held, Live

LEMMA PlaceKept ==
  ASSUME Safe, Latest, NEW q \in Reader, class'[q] = class[q], offset'[q] = offset[q],
         source'.taken \in Nat, Size(window') \in Nat, min_offset' \in Nat,
         Random(q) => source'.taken - (min_offset' + Size(window'))
                      = source.taken - (min_offset + Size(window)),
         ~ Random(q) => source'.taken = source.taken
  PROVE  Place(q)' = Place(q)
<1>1. CASE Random(q)
  <2>1. /\ offset[q] \in Nat /\ source.taken \in Nat /\ min_offset \in Nat
        /\ Place(q) = (source.taken - (min_offset + Size(window))) + offset[q]
    BY <1>1, Places, Types, Numbers
  <2>2. Place(q)' = source'.taken - Size(window') - min_offset' + offset[q]
    BY <1>1 DEF Place, Random, Size
  <2>3. Place(q)' = (source'.taken - (min_offset' + Size(window'))) + offset[q]
    BY <2>1, <2>2
  <2> QED
    BY <1>1, <2>1, <2>3
<1>2. CASE ~ Random(q)
  BY <1>2 DEF Place, Random
<1> QED
  BY <1>1, <1>2

LEMMA PlaceSame ==
  ASSUME class' = class, offset' = offset, min_offset' = min_offset, window' = window,
         source'.taken = source.taken, NEW q
  PROVE  Place(q)' = Place(q)
BY DEF Place

LEMMA SpokenIs ==
  ASSUME Safe, Latest, NEW r \in Reader, Random(r)
  PROVE  Spoken(r) \in Nat /\ (Spoken(r) <= source.taken => n_cases[r] # CASENUMBER_MAX)
<1>1. /\ Limit(r) \in Nat /\ Place(r) \in 0 .. source.taken /\ source.taken \in 0 .. NCases
      /\ NCases \in Nat /\ CASENUMBER_MAX \in Nat /\ CASENUMBER_MAX > NCases
      /\ Limit(r) = CASENUMBER_MAX <=> n_cases[r] = CASENUMBER_MAX
  BY Limits, Places, Types, Numbers DEF Latest
<1> QED
  BY <1>1 DEF Spoken

(* A reader that may read on does so where one could before.               *)
Behind(q, p) ==
  IF n_cases'[q] = CASENUMBER_MAX THEN n_cases[p] = CASENUMBER_MAX
  ELSE Spoken(q)' \in Nat /\ Spoken(q)' <= Spoken(p)

LEMMA KnownFrame ==
  ASSUME Safe, Latest, Known, tainted' = tainted, source' = source, subreader' = subreader,
         store' = store,
         \A q \in Reader : class'[q] = "source" => class[q] = "source",
         \A q \in Reader : Random(q)' => \E p \in Reader : Random(p) /\ Behind(q, p),
         (count' # Idle /\ call' = Idle /\ ~ count'.more) =>
           Place(count.clone)' = source.length \/ "reader" \in tainted
  PROVE  Known'
<1>1. source.taken \in Nat /\ subreader.n_cases \in Nat
  BY Types, Numbers
<1>2. ASSUME NEW q \in Reader, Random(q)', NEW z \in Nat,
             \A p \in Reader : Random(p) => n_cases[p] # CASENUMBER_MAX /\ Spoken(p) <= z
      PROVE  n_cases'[q] # CASENUMBER_MAX /\ Spoken(q)' <= z
  <2>1. PICK p \in Reader : Random(p) /\ Behind(q, p)
    BY <1>2
  <2>2. Spoken(p) \in Nat /\ Spoken(p) <= z /\ n_cases[p] # CASENUMBER_MAX
    BY <1>2, <2>1, SpokenIs
  <2>3. n_cases'[q] # CASENUMBER_MAX /\ Spoken(q)' \in Nat /\ Spoken(q)' <= Spoken(p)
    BY <2>1, <2>2 DEF Behind
  <2> QED
    BY <2>2, <2>3
<1>5. /\ \A r \in Reader : class'[r] = "source" => "reader" \notin tainted'
      /\ store' \in {"none", "writer", "window"} => ~ subreader'.open
      /\ (count' # Idle /\ call' = Idle /\ ~ count'.more) =>
           Place(count.clone)' = source'.length \/ "reader" \in tainted'
  BY DEF Known
<1>3. CASE \E q \in Reader : Random(q)'
  <2>1. \E p \in Reader : Random(p)
    BY <1>3
  <2>2. "source" \in tainted' => "reader" \in tainted'
    BY <2>1 DEF Known
  <2>3. ASSUME subreader.open, subreader.n_cases # CASENUMBER_MAX, NEW q \in Reader, Random(q)'
        PROVE  n_cases'[q] # CASENUMBER_MAX /\ Spoken(q)' <= source.taken + subreader.n_cases
    <3>1. \A p \in Reader : Random(p) => n_cases[p] # CASENUMBER_MAX
                                         /\ Spoken(p) <= source.taken + subreader.n_cases
      BY <2>1, <2>3 DEF Known
    <3>2. source.taken + subreader.n_cases \in Nat
      BY <1>1
    <3> QED
      BY <1>2, <2>3, <3>1, <3>2
  <2>4. ASSUME ~ subreader.open
        PROVE  \/ source.taken = source.length \/ "reader" \in tainted
               \/ \A q \in Reader : Random(q)' => Spoken(q)' <= source.taken
    <3>1. \/ source.taken = source.length \/ "reader" \in tainted
          \/ \A p \in Reader : Random(p) => Spoken(p) <= source.taken
      BY <2>1, <2>4 DEF Known
    <3>2. (\A p \in Reader : Random(p) => Spoken(p) <= source.taken) =>
            \A p \in Reader : Random(p) => n_cases[p] # CASENUMBER_MAX /\ Spoken(p) <= source.taken
      BY SpokenIs
    <3> QED
      BY <1>1, <1>2, <3>1, <3>2
  <2>5. IF subreader'.open
        THEN subreader'.n_cases # CASENUMBER_MAX =>
               \A q \in Reader : Random(q)' =>
                 n_cases'[q] # CASENUMBER_MAX /\ Spoken(q)' <= source'.taken + subreader'.n_cases
        ELSE \/ source'.taken = source'.length \/ "reader" \in tainted'
             \/ \A q \in Reader : Random(q)' => Spoken(q)' <= source'.taken
    <3>1. CASE subreader.open
      BY <2>3, <3>1
    <3>2. CASE ~ subreader.open
      BY <2>4, <3>2
    <3> QED
      BY <3>1, <3>2
  <2> QED
    BY <1>5, <2>2, <2>5 DEF Known
<1>4. CASE ~ \E q \in Reader : Random(q)'
  BY <1>4, <1>5 DEF Known
<1> QED
  BY <1>3, <1>4

LEMMA MoveWrites ==
  ASSUME Safe, Latest, Known, NEW good \in Writes, casewriter_write(good)
  PROVE  Known' /\ Step
<1>1. /\ class' = class /\ store' = store /\ store = "writer" /\ subreader' = subreader
      /\ tainted' = tainted /\ count' = count /\ reply' = reply
      /\ source' = [source EXCEPT !.length = source.length + 1, !.taken = source.taken + 1]
  BY DEF casewriter_write, readers
<1>2. Live = {} /\ call = Idle /\ count = Idle
  BY <1>1, Alive, Nobody DEF Latest, Spread
<1>3. source'.length = source.length + 1
  BY <1>1, Types
<1>4. Live' = Live /\ \A q \in Reader : class[q] = "none"
  BY <1>1, <1>2 DEF Live
<1>5. Held = {} /\ Held' = {}
  BY <1>2, <1>4 DEF Held
<1>6. Failed' = Failed
  BY <1>1, <1>2, <1>4 DEF Failed
<1>7. Known'
  BY <1>1, <1>2, <1>4 DEF Known, Random
<1> QED
  BY <1>1, <1>3, <1>5, <1>6, <1>7, StepWrites

LEMMA MoveOpens ==
  ASSUME Safe, Latest, Known, casewriter_make_reader
  PROVE  Known' /\ Step
<1>1. /\ class' = [class EXCEPT ![First] = "random"] /\ offset' = offset
      /\ min_offset' = min_offset /\ n_cases' = [n_cases EXCEPT ![First] = Size(window)]
      /\ store' = "window" /\ store = "writer" /\ window' = window /\ source' = source
      /\ subreader' = subreader /\ tainted' = tainted /\ call' = call /\ count' = count
      /\ reply' = reply
  BY DEF casewriter_make_reader, Size
<1>2. /\ Spread /\ Live = {} /\ call = Idle /\ count = Idle /\ First \in Reader
      /\ call.op = "idle"
  BY <1>1, Alive, Nobody, Numbers, CallIs DEF Latest, Spread, Safe
<1>3. /\ source.taken = source.length /\ Size(window) = source.taken /\ tainted = {}
      /\ min_offset = 0 /\ offset[First] = 0 /\ source.taken \in Nat
  BY <1>1, <1>2, Types, Numbers DEF Safe, Latest, Spread, Live, Random
<1>4. /\ \A q \in Reader : class'[q] = IF q = First THEN "random" ELSE "none"
      /\ n_cases'[First] = source.length
  BY <1>1, <1>2, <1>3, Types DEF Live
<1>5. Live' = {First}
  BY <1>2, <1>4 DEF Live
<1>6. Held = {} /\ Held' = {First}
  BY <1>1, <1>2, <1>5 DEF Held
<1>7. Place(First)' = 0
  <2>1. Place(First)' = source.taken - Size(window) - 0 + 0
    BY <1>1, <1>2, <1>3, <1>4 DEF Place, Size
  <2> QED
    BY <1>3, <2>1
<1>8. Limit(First)' = source.length
  BY <1>1, <1>2, <1>4 DEF Limit
<1>9. Failed' = Failed
  BY <1>1, <1>2, <1>3, <1>4, <1>5 DEF Failed, casereader_error
<1>10. Known'
  BY <1>1, <1>2, <1>3, <1>4 DEF Known, Random
<1> QED
  BY <1>1, <1>2, <1>6, <1>7, <1>8, <1>9, <1>10, StepOpens

Untouched ==
  /\ class' = class /\ offset' = offset /\ min_offset' = min_offset /\ store' = store
  /\ window' = window /\ source' = source /\ subreader' = subreader

LEMMA Untouching ==
  ASSUME Safe, Latest, Known, Untouched, tainted' = tainted,
         \A q \in Reader : /\ Limit(q)' \in Nat /\ Limit(q)' <= Limit(q)
                           /\ n_cases'[q] = CASENUMBER_MAX => n_cases[q] = CASENUMBER_MAX,
         (count' # Idle /\ call' = Idle /\ ~ count'.more) =>
           Place(count.clone)' = source.length \/ "reader" \in tainted
  PROVE  /\ Known' /\ Live' = Live /\ Failed' = Failed /\ Failed \in BOOLEAN
         /\ \A q \in Reader : Place(q)' = Place(q)
<1>1. \A q \in Reader : Place(q)' = Place(q)
  BY PlaceSame DEF Untouched
<1>2. Live' = Live /\ Failed' = Failed
  BY DEF Failed, Live, casereader_error, Untouched
<1>3. ASSUME NEW q \in Reader, Random(q)'
      PROVE  /\ Random(q) /\ Spoken(q)' \in Nat /\ Spoken(q)' <= Spoken(q)
             /\ n_cases'[q] = CASENUMBER_MAX => n_cases[q] = CASENUMBER_MAX
  <2>1. Random(q)
    BY <1>3 DEF Random, Untouched
  <2>2. Place(q) \in Nat /\ Limit(q) \in Nat /\ Limit(q)' \in Nat /\ Limit(q)' <= Limit(q)
    <3>1. Place(q) \in 0 .. source.taken /\ source.taken \in Nat
      BY <2>1, Places, Types, Numbers
    <3> QED
      BY <3>1, Limits DEF Latest
  <2>3. Spoken(q)' = Limit(q)' + Place(q) /\ Spoken(q) = Limit(q) + Place(q)
    BY <1>1 DEF Spoken
  <2> QED
    BY <2>1, <2>2, <2>3
<1>4. \A q \in Reader : class'[q] = "source" => class[q] = "source"
  BY DEF Untouched
<1>5. Known'
  <2>1. \A q \in Reader : Random(q)' => \E p \in Reader : Random(p) /\ Behind(q, p)
    BY <1>3 DEF Behind
  <2>2. source' = source /\ subreader' = subreader /\ store' = store
    BY DEF Untouched
  <2> QED
    BY <1>4, <2>1, <2>2, KnownFrame
<1> QED
  BY <1>1, <1>2, <1>5, Errors DEF Latest

LEMMA MoveStarts ==
  ASSUME Safe, Latest, Known, Untouched, tainted' = tainted, reply' = reply, call' # Idle,
         Held' = Held,
         \A q \in Reader : /\ Limit(q)' = Limit(q)
                           /\ n_cases'[q] = CASENUMBER_MAX => n_cases[q] = CASENUMBER_MAX
  PROVE  Known' /\ Step
<1>1. \A q \in Reader : Limit(q) \in Nat
  BY Limits DEF Latest
<1>2. /\ Known' /\ Live' = Live /\ Failed' = Failed /\ Failed \in BOOLEAN
      /\ \A q \in Reader : Place(q)' = Place(q)
  BY <1>1, Untouching
<1>3. source'.length = source.length /\ Held \subseteq Reader
  BY Holders DEF Untouched
<1> QED
  BY <1>2, <1>3, Stutters

LEMMA MoveStartsRead ==
  ASSUME Safe, Latest, Known, NoCall, NEW r \in Live, StartRead(r), count' = count
  PROVE  Known' /\ Step
<1>1. /\ n_cases[r] # 0 /\ n_cases' = [n_cases EXCEPT ![r] = Less(n_cases[r])]
      /\ call' = [op |-> "read", r |-> r, depth |-> 0]
      /\ Untouched /\ tainted' = tainted /\ reply' = reply
  BY DEF StartRead, backend, Untouched
<1>2. /\ call.op = "idle" /\ r \in Reader /\ n_cases \in [Reader -> Counts]
      /\ call' # Idle /\ call'.op = "read" /\ call'.r = r
  BY <1>1, CallIs, Types DEF NoCall, Live, Idle, Safe
<1>3. ASSUME NEW q \in Reader
      PROVE  /\ Limit(q)' = Limit(q)
             /\ n_cases'[q] = CASENUMBER_MAX => n_cases[q] = CASENUMBER_MAX
  <2>1. Limit(q) = n_cases[q] /\ n_cases[q] \in Counts
    BY <1>2 DEF Limit
  <2>2. CASE q # r
    BY <1>1, <1>2, <2>1, <2>2 DEF Limit
  <2>3. CASE q = r
    <3>1. n_cases'[r] = Less(n_cases[r])
      BY <1>1, <1>2
    <3>2. CASE n_cases[r] = CASENUMBER_MAX
      BY <1>2, <2>1, <2>3, <3>1, <3>2 DEF Limit, Less
    <3>3. CASE n_cases[r] # CASENUMBER_MAX
      <4>1. n_cases[r] \in 0 .. NCases /\ CASENUMBER_MAX > NCases /\ NCases \in Nat
            /\ CASENUMBER_MAX \in Nat
        BY <2>1, <2>3, <3>3, Numbers
      <4>2. Less(n_cases[r]) = n_cases[r] - 1
        BY <1>1, <3>3 DEF Less
      <4>3. n_cases[r] - 1 # CASENUMBER_MAX /\ (n_cases[r] - 1) + 1 = n_cases[r]
        BY <4>1
      <4>4. Limit(r)' = n_cases'[r] + 1
        BY <1>2, <3>1, <4>2, <4>3 DEF Limit
      <4> QED
        BY <2>1, <2>3, <3>1, <3>3, <4>2, <4>3, <4>4
    <3> QED
      BY <3>2, <3>3
  <2> QED
    BY <2>2, <2>3
<1>4. Held' = Held
  BY <1>1 DEF Held, Live, Untouched
<1> QED
  BY <1>1, <1>2, <1>3, <1>4, MoveStarts

LEMMA MoveStartsOther ==
  ASSUME Safe, Latest, Known, NEW r \in Reader,
         \/ \E idx \in 0 .. NCases : casereader_peek(r, idx)
         \/ \E new \in Reader :
              \/ casereader_clone(r, new)
              \/ \E max \in Counts : casereader_count(r, new, max)
  PROVE  Known' /\ Step
<1>1. /\ call.op = "idle" /\ n_cases' = n_cases /\ count = Idle /\ call' # Idle
      /\ call'.op \in {"peek", "clone"} /\ Untouched /\ tainted' = tainted /\ reply' = reply
  BY CallIs DEF casereader_peek, casereader_clone, casereader_count, Client, NoCall, backend, readers,
     Untouched, Idle, Safe
<1>2. Live' = Live
  BY <1>1 DEF Live, Untouched
<1>3. Held' = Held
  <2>1. CASE count' = Idle
    BY <1>1, <1>2, <2>1 DEF Held
  <2>2. CASE count' # Idle
    <3>1. class[count'.clone] = "none"
      BY <1>1, <2>2 DEF casereader_peek, casereader_clone, casereader_count
    <3>2. count'.clone \notin Live
      BY <3>1 DEF Live
    <3> QED
      BY <1>1, <1>2, <2>2, <3>2 DEF Held
  <2> QED
    BY <2>1, <2>2
<1>4. \A q \in Reader : Limit(q)' = Limit(q) /\ n_cases'[q] = n_cases[q]
  BY <1>1 DEF Limit
<1> QED
  BY <1>1, <1>3, <1>4, MoveStarts

LEMMA MoveQuiet ==
  ASSUME Safe, Latest, Known, NEW r \in Reader,
         \/ ReadNothing(r)
         \/ \E idx \in 0 .. NCases : PeekNothing(r, idx)
         \/ \E n \in 0 .. NCases : casereader_truncate(r, n)
  PROVE  Known' /\ Step
<1>1. /\ call = Idle /\ call' = Idle /\ count = Idle /\ count' = Idle /\ r \in Live
      /\ Untouched /\ tainted' = tainted /\ call.op = "idle"
  BY CallIs DEF ReadNothing, PeekNothing, casereader_truncate, Client, NoCall, readers, backend,
     Untouched, Safe
<1>2. /\ n_cases \in [Reader -> Counts] /\ NCases \in Nat /\ CASENUMBER_MAX \in Nat
      /\ CASENUMBER_MAX > NCases /\ \A n \in Counts : n \in Nat
  BY Types, Numbers
<1>3. /\ Held = Live /\ r \in Held /\ Held \subseteq Reader
      /\ \A q \in Reader : Limit(q) = n_cases[q] /\ Limit(q)' = n_cases'[q]
  BY <1>1, Holders DEF Limit
<1>4. CASE n_cases' = n_cases /\ reply' = NoCase
  <2>1. /\ Known' /\ Live' = Live /\ Failed' = Failed /\ Failed \in BOOLEAN
        /\ \A q \in Reader : Place(q)' = Place(q)
    BY <1>1, <1>2, <1>3, <1>4, Untouching
  <2>2. Held' = Held
    BY <1>1, <2>1 DEF Held
  <2>3. source'.length = source.length
    BY <1>1 DEF Untouched
  <2>4. CASE n_cases[r] = 0
    BY <1>3, <1>4, <2>1, <2>2, <2>3, <2>4, StepReads
  <2>5. ASSUME NEW idx \in 0 .. NCases, idx >= n_cases[r] PROVE Step
    <3>1. n_cases[r] <= idx /\ ~ (n_cases[r] < n_cases[r]) /\ n_cases[r] <= n_cases[r]
      BY <1>2, <2>5
    <3> QED
      BY <1>3, <1>4, <2>1, <2>2, <2>3, <3>1, StepPeeks
  <2>6. n_cases[r] = 0 \/ \E idx \in 0 .. NCases : idx >= n_cases[r]
    <3>1. CASE \E n \in 0 .. NCases : casereader_truncate(r, n)
      <4>1. PICK n \in 0 .. NCases : n_cases[r] > n /\ n_cases' = [n_cases EXCEPT ![r] = n]
        BY <3>1 DEF casereader_truncate
      <4>2. n_cases[r] = n
        BY <1>2, <1>4, <4>1
      <4> QED
        BY <4>1, <4>2
    <3> QED
      BY <3>1 DEF ReadNothing, PeekNothing
  <2> QED
    BY <2>1, <2>4, <2>5, <2>6
<1>5. ASSUME NEW n \in 0 .. NCases, casereader_truncate(r, n) PROVE Known' /\ Step
  <2>1. /\ n_cases[r] # CASENUMBER_MAX /\ n_cases[r] > n /\ n_cases' = [n_cases EXCEPT ![r] = n]
        /\ reply' = reply
    BY <1>5 DEF casereader_truncate
  <2>2. /\ n_cases'[r] = n /\ \A q \in Reader : q # r => n_cases'[q] = n_cases[q]
        /\ n \in Nat /\ n \in Counts /\ n # CASENUMBER_MAX /\ n <= n_cases[r]
    BY <1>2, <2>1 DEF Counts
  <2>3. \A q \in Reader : /\ Limit(q)' \in Nat /\ Limit(q)' <= Limit(q)
                          /\ n_cases'[q] = CASENUMBER_MAX => n_cases[q] = CASENUMBER_MAX
    <3>1. ASSUME NEW q \in Reader
          PROVE  /\ n_cases'[q] \in Nat /\ n_cases'[q] <= n_cases[q]
                 /\ n_cases'[q] = CASENUMBER_MAX => n_cases[q] = CASENUMBER_MAX
      <4>1. n_cases[q] \in Nat
        BY <1>2
      <4>2. CASE q = r
        BY <2>2, <4>2
      <4>3. CASE q # r
        BY <2>2, <4>1, <4>3
      <4> QED
        BY <4>2, <4>3
    <3> QED
      BY <1>3, <3>1
  <2>4. /\ Known' /\ Live' = Live /\ Failed' = Failed /\ Failed \in BOOLEAN
        /\ \A q \in Reader : Place(q)' = Place(q)
    BY <1>1, <2>3, Untouching
  <2>5. Held' = Held
    BY <1>1, <2>4 DEF Held
  <2>6. source'.length = source.length
    BY <1>1 DEF Untouched
  <2> QED
    BY <1>3, <2>1, <2>2, <2>4, <2>5, <2>6, StepTruncates
<1> QED
  BY <1>4, <1>5 DEF ReadNothing, PeekNothing, readers

LEMMA MoveForces ==
  ASSUME Safe, Latest, Known, NEW r \in Reader, casereader_force_error(r)
  PROVE  Known' /\ Step
<1>1. /\ call = Idle /\ call' = Idle /\ count = Idle /\ count' = Idle /\ r \in Live
      /\ tainted' = tainted \cup {IF class[r] = "source" THEN "source" ELSE "reader"}
      /\ Untouched /\ n_cases' = n_cases /\ reply' = reply
  BY DEF casereader_force_error, Client, NoCall, readers, backend, Untouched
<1>2. /\ \A q \in Reader : Place(q)' = Place(q) /\ Limit(q)' = Limit(q)
      /\ Live' = Live /\ Held' = Held /\ source'.length = source.length
  BY <1>1, PlaceSame DEF Live, Held, Untouched, Limit
<1>3. Failed \in BOOLEAN /\ Failed' = TRUE
  <2>1. casereader_error(r)' = TRUE
    BY <1>1 DEF casereader_error, Untouched
  <2> QED
    BY <1>1, <1>2, <2>1, Errors DEF Failed, Latest
<1>4. Known'
  <2>1. CASE class[r] = "source"
    <3>1. \A q \in Reader : ~ Random(q) /\ ("reader" \notin tainted)
      BY <1>1, <2>1, Only DEF Random, Known, Latest
    <3> QED
      BY <1>1, <2>1, <3>1 DEF Known, Untouched, Random
  <2>2. CASE class[r] # "source"
    <3>1. \A q \in Reader : class[q] # "source"
      BY <1>1, <2>2, Only DEF Latest, Live
    <3>2. \A q \in Reader : Spoken(q)' = Spoken(q) /\ (Random(q)' <=> Random(q))
      BY <1>1, <1>2 DEF Spoken, Random, Untouched
    <3>3. "reader" \in tainted'
      BY <1>1, <2>2
    <3>4. /\ \A q \in Reader : class'[q] # "source"
          /\ source' = source /\ subreader' = subreader /\ store' = store
      BY <1>1, <3>1 DEF Untouched
    <3>5. (\E q \in Reader : Random(q)') =>
            (subreader'.open => (subreader'.n_cases # CASENUMBER_MAX =>
                 \A q \in Reader : Random(q)' =>
                   n_cases'[q] # CASENUMBER_MAX
                   /\ Spoken(q)' <= source'.taken + subreader'.n_cases))
      BY <1>1, <3>2, <3>4 DEF Known
    <3> QED
      BY <1>1, <3>3, <3>4, <3>5 DEF Known
  <2> QED
    BY <2>1, <2>2
<1>5. \A q \in Held : q \in Reader
  BY Holders
<1> QED
  BY <1>1, <1>2, <1>3, <1>4, <1>5, Stutters

LEMMA MoveShims ==
  ASSUME Safe, Latest, Known, casereader_shim_insert
  PROVE  Known' /\ Step
<1>0. PICK r \in Reader : r = call.r
  BY CallIs DEF casereader_shim_insert, Safe
<1>1. /\ call.op \in {"peek", "clone"} /\ class[r] = "source"
      /\ class' = [class EXCEPT ![r] = "random"] /\ offset' = [offset EXCEPT ![r] = 0]
      /\ min_offset' = 0 /\ store' = "shim" /\ window' = casewindow_create(MaxInCore)
      /\ subreader' = [open |-> TRUE, n_cases |-> n_cases[r]]
      /\ tainted' = tainted \cup (IF "source" \in tainted THEN {"reader"} ELSE {})
      /\ n_cases' = n_cases /\ source' = source /\ call' = call /\ count' = count
      /\ reply' = reply
  BY <1>0 DEF casereader_shim_insert
<1>2. call # Idle /\ r \in Reader /\ call.r = r /\ ~ aborted
  BY <1>0, <1>1, CallIs DEF Safe, Latest
<1>3. /\ source.taken \in Nat /\ n_cases[r] \in Nat
      /\ class \in [Reader -> {"none", "source", "random"}] /\ offset \in [Reader -> 0 .. NCases]
  BY <1>2, Types, Numbers
<1>4. Size(window') = 0
  BY <1>1, Created, Numbers
<1>5. /\ \A q \in Reader : q # r => class[q] = "none" /\ class'[q] = "none"
      /\ class'[r] = "random" /\ offset'[r] = 0
  BY <1>1, <1>2, <1>3, Only
<1>6. Live = {r} /\ Live' = {r} /\ Held' = Held
  <2>1. Live = {r} /\ Live' = {r}
    BY <1>1, <1>2, <1>5 DEF Live
  <2> QED
    BY <1>1, <2>1 DEF Held
<1>7. \A q \in Reader : Limit(q)' = Limit(q)
  BY <1>1 DEF Limit
<1>8. Place(r) = source.taken /\ Place(r)' = source.taken /\ Limit(r) = n_cases[r]
  <2>1. Place(r)' = source.taken - 0 - 0 + 0
    BY <1>1, <1>4, <1>5 DEF Place, Size
  <2> QED
    BY <1>1, <1>3, <2>1 DEF Place, Limit
<1>9. Failed \in BOOLEAN /\ Failed' \in BOOLEAN /\ (Failed => Failed')
  BY <1>1, <1>5, <1>6 DEF Failed, casereader_error
<1>10. Step
  <2>1. \A q \in Held : Place(q)' = Place(q) /\ Limit(q)' = Limit(q)
    BY <1>6, <1>7, <1>8, Holders
  <2> QED
    BY <1>1, <1>6, <1>9, <2>1, Stutters
<1>11. Known'
  <2>1. \A q \in Reader : class'[q] # "source" /\ (Random(q)' <=> q = r)
    BY <1>5 DEF Random
  <2>2. Spoken(r)' = source.taken + n_cases[r]
    BY <1>3, <1>7, <1>8 DEF Spoken
  <2>3. "source" \in tainted' => "reader" \in tainted'
    BY <1>1
  <2>4. /\ subreader'.open /\ subreader'.n_cases = n_cases'[r]
        /\ Spoken(r)' <= source'.taken + subreader'.n_cases
    BY <1>1, <1>3, <2>2
  <2> QED
    BY <1>1, <1>2, <2>1, <2>3, <2>4 DEF Known
<1> QED
  BY <1>10, <1>11

LEMMA MoveClones ==
  ASSUME Safe, Latest, Known, random_reader_clone
  PROVE  Known' /\ Step
<1>0. PICK r \in Reader, new \in Reader : r = call.r /\ new = call.new
  BY CallIs DEF random_reader_clone, Safe
<1>1. /\ call.op = "clone" /\ class[r] = "random"
      /\ class' = [class EXCEPT ![new] = "random"]
      /\ n_cases' = [n_cases EXCEPT ![new] = n_cases[r]]
      /\ offset' = [offset EXCEPT ![new] = offset[r]]
      /\ call' = Idle /\ min_offset' = min_offset /\ store' = store /\ window' = window
      /\ subreader' = subreader /\ source' = source /\ tainted' = tainted /\ count' = count
      /\ reply' = reply
  BY <1>0 DEF random_reader_clone, backend
<1>2. /\ call # Idle /\ r = call.r /\ new = call.new /\ class[new] = "none"
      /\ new # r /\ Counting /\ Calling /\ call'.op = "idle" /\ ~ aborted
  BY <1>0, <1>1, Alive, CallIs DEF Safe, Calling, Latest, Idle
<1>3. /\ class \in [Reader -> {"none", "source", "random"}] /\ n_cases \in [Reader -> Counts]
      /\ offset \in [Reader -> 0 .. NCases]
  BY Types
<1>4. /\ \A q \in Reader : class'[q] = IF q = new THEN "random" ELSE class[q]
      /\ \A q \in Reader : n_cases'[q] = IF q = new THEN n_cases[r] ELSE n_cases[q]
      /\ \A q \in Reader : offset'[q] = IF q = new THEN offset[r] ELSE offset[q]
  BY <1>1, <1>2, <1>3
<1>5. /\ \A q \in Reader : Limit(q) = n_cases[q] /\ Limit(q)' = n_cases'[q]
      /\ \A q \in Reader : q # new => Place(q)' = Place(q)
      /\ Place(new)' = Place(r)
  <2>1. \A q \in Reader : Limit(q) = n_cases[q] /\ Limit(q)' = n_cases'[q]
    BY <1>1, <1>2 DEF Limit
  <2>2. \A q \in Reader : q # new => Place(q)' = Place(q)
    BY <1>1, <1>4 DEF Place
  <2>3. Place(new)' = Place(r)
    BY <1>1, <1>2, <1>4 DEF Place
  <2> QED
    BY <2>1, <2>2, <2>3
<1>6. Live' = Live \cup {new} /\ r \in Live /\ new \notin Live
  BY <1>1, <1>2, <1>4 DEF Live
<1>7. Failed' = Failed /\ Failed \in BOOLEAN
  <2>1. \A q \in Live' : casereader_error(q)' = ("reader" \in tainted)
    <3>1. \A q \in Reader : class'[q] # "source"
      BY <1>1, <1>2, <1>3, <1>4, Only
    <3>2. \A q \in Live' : q \in Reader
      BY DEF Live
    <3> QED
      BY <1>1, <3>1, <3>2 DEF casereader_error
  <2>2. Failed <=> "reader" \in tainted
    BY <1>1, <1>2, <1>6, Errors DEF Random
  <2>3. Failed' <=> "reader" \in tainted
    BY <1>6, <2>1 DEF Failed
  <2> QED
    BY <1>2, <2>2, <2>3, Errors DEF Failed
<1>8. Step
  <2>1. CASE count = Idle
    <3>1. Held = Live /\ Held' = Held \cup {new}
      BY <1>1, <1>6, <2>1 DEF Held
    <3>2. \A q \in Held : Place(q)' = Place(q) /\ Limit(q)' = Limit(q)
      BY <1>4, <1>5, <1>6, <3>1, Holders
    <3>3. Limit(new)' = Limit(r)
      BY <1>2, <1>4, <1>5
    <3> QED
      BY <1>1, <1>2, <1>5, <1>6, <1>7, <3>1, <3>2, <3>3, StepClones
  <2>2. CASE count # Idle
    <3>1. new = count.clone
      BY <1>1, <1>2, <2>2 DEF Counting
    <3>2. Held = Live /\ Held' = Live
      BY <1>1, <1>6, <2>2, <3>1 DEF Held
    <3>3. \A q \in Held : Place(q)' = Place(q) /\ Limit(q)' = Limit(q)
      BY <1>4, <1>5, <1>6, <3>2, Holders
    <3> QED
      BY <1>1, <1>7, <3>2, <3>3, Stutters
  <2> QED
    BY <2>1, <2>2
<1>9. Known'
  <2>1. \A q \in Reader : class'[q] = "source" => class[q] = "source"
    BY <1>4
  <2>2. ASSUME NEW q \in Reader, Random(q)'
        PROVE  \E p \in Reader : Random(p) /\ Behind(q, p)
    <3>1. CASE q = new
      <4>1. Spoken(q)' = Spoken(r) /\ n_cases'[q] = n_cases[r]
        BY <1>2, <1>4, <1>5, <3>1 DEF Spoken
      <4>2. Spoken(r) \in Nat /\ Random(r)
        BY <1>1, <1>2, SpokenIs DEF Random
      <4> QED
        BY <1>2, <4>1, <4>2 DEF Behind
    <3>2. CASE q # new
      <4>1. Spoken(q)' = Spoken(q) /\ n_cases'[q] = n_cases[q] /\ Random(q)
        BY <1>4, <1>5, <2>2, <3>2 DEF Spoken, Random
      <4>2. Spoken(q) \in Nat
        BY <4>1, SpokenIs
      <4> QED
        BY <4>1, <4>2 DEF Behind
    <3> QED
      BY <3>1, <3>2
  <2>3. count' # Idle => count'.more
    BY <1>1, <1>2 DEF Counting
  <2> QED
    BY <1>1, <2>1, <2>2, <2>3, KnownFrame
<1> QED
  BY <1>8, <1>9

LEMMA MoveBuffers ==
  ASSUME Safe, Latest, Known, ~ TempFaults, NEW good \in Writes, buffer_case(good)
  PROVE  Known' /\ Step
<1>0. PICK r \in Reader : r = call.r
  BY Asking DEF buffer_case, Latest
<1>1. /\ Asks /\ class' = class /\ offset' = offset /\ min_offset' = min_offset
      /\ n_cases' = n_cases /\ store' = store /\ call' = call /\ count' = count
      /\ reply' = reply /\ subreader.open /\ ~ InWindow
  BY DEF buffer_case, readers
<1>2. /\ call # Idle /\ Random(r) /\ r \in Live /\ \A q \in Reader : class[q] \in {"none", "random"}
      /\ store \in {"window", "shim"} /\ ~ aborted
  BY <1>0, <1>1, Asking DEF Latest, Live, Random
<1>3. /\ source.length \in 0 .. NCases /\ source.taken \in 0 .. NCases /\ NCases \in Nat
      /\ Size(window) \in Nat /\ min_offset \in Nat /\ subreader.n_cases \in Counts
      /\ source.taken <= source.length
  BY Types, Numbers DEF Safe
<1>4. /\ Live' = Live /\ Held' = Held
      /\ \A q \in Reader : Limit(q)' = Limit(q) /\ (Random(q)' <=> Random(q))
  BY <1>1 DEF Live, Held, Limit, Random
<1>5. \A q \in Held : q \in Reader /\ Random(q)
  BY <1>2, Holders DEF Random
<1>6. CASE SourceHas(subreader.n_cases)
  <2>1. /\ source' = [source EXCEPT !.taken = source.taken + 1] /\ tainted' = tainted
        /\ window' = casewindow_push_head(window, source.taken + 1, good)
        /\ subreader' = [subreader EXCEPT !.n_cases = Less(subreader.n_cases)]
        /\ source.taken < source.length /\ subreader.n_cases # 0
    BY <1>1, <1>6 DEF buffer_case, SourceHas
  <2>2. source'.taken = source.taken + 1 /\ source'.length = source.length
    BY <2>1, Types
  <2>3. Size(window') = Size(window) + 1
    <3>1. source.taken < NCases
      BY <1>3, <2>1
    <3> QED
      BY <2>1, <2>2, <3>1, LatestPushes
  <2>4. ASSUME NEW q \in Reader, Random(q) PROVE Place(q)' = Place(q)
    <3>1. /\ source'.taken \in Nat /\ Size(window') \in Nat
          /\ source'.taken - (min_offset + Size(window'))
             = source.taken - (min_offset + Size(window))
      BY <1>3, <2>2, <2>3
    <3> QED
      BY <1>1, <1>3, <2>4, <3>1, PlaceKept
  <2>5. Failed' = Failed /\ Failed \in BOOLEAN
    BY <1>1, <1>2, <1>4, <2>1, Errors DEF Failed, casereader_error
  <2>6. Step
    <3>1. \A q \in Held : Place(q)' = Place(q) /\ Limit(q)' = Limit(q)
      BY <1>4, <1>5, <2>4
    <3> QED
      BY <1>1, <1>4, <2>2, <2>5, <3>1, Stutters
  <2>7. Known'
    <3>1. \A q \in Reader : Random(q) => Spoken(q)' = Spoken(q)
      BY <1>4, <2>4 DEF Spoken
    <3>2. subreader'.open /\ subreader'.n_cases = Less(subreader.n_cases)
      BY <1>1, <2>1, Types
    <3>3. Less(subreader.n_cases) # CASENUMBER_MAX =>
            /\ subreader.n_cases # CASENUMBER_MAX
            /\ source'.taken + Less(subreader.n_cases) = source.taken + subreader.n_cases
      <4>1. CASE subreader.n_cases = CASENUMBER_MAX
        BY <2>1, <4>1 DEF Less
      <4>2. CASE subreader.n_cases # CASENUMBER_MAX
        <5>1. subreader.n_cases \in 0 .. NCases /\ Less(subreader.n_cases) = subreader.n_cases - 1
          BY <1>3, <2>1, <4>2, Numbers DEF Less
        <5> QED
          BY <1>3, <2>2, <4>2, <5>1
      <4> QED
        BY <4>1, <4>2
    <3>4. "source" \in tainted => "reader" \in tainted
      BY <1>0, <1>2 DEF Known
    <3>5. subreader.n_cases # CASENUMBER_MAX =>
            \A q \in Reader : Random(q) =>
              n_cases[q] # CASENUMBER_MAX /\ Spoken(q) <= source.taken + subreader.n_cases
      BY <1>0, <1>1, <1>2 DEF Known
    <3>6. subreader'.n_cases # CASENUMBER_MAX =>
            \A q \in Reader : Random(q)' =>
              n_cases'[q] # CASENUMBER_MAX /\ Spoken(q)' <= source'.taken + subreader'.n_cases
      BY <1>1, <1>4, <3>1, <3>2, <3>3, <3>5
    <3>7. /\ \A q \in Reader : class'[q] = "source" => "reader" \notin tainted'
          /\ store' \in {"none", "writer", "window"} => ~ subreader'.open
          /\ call' # Idle
      BY <1>1, <1>2 DEF Known
    <3> QED
      BY <2>1, <3>2, <3>4, <3>6, <3>7 DEF Known
  <2> QED
    BY <2>6, <2>7
<1>7. CASE ~ SourceHas(subreader.n_cases)
  <2>1. /\ source' = source /\ window' = window
        /\ tainted' = tainted \cup
             (IF SourceFails(subreader.n_cases) THEN {"source", "reader"} ELSE {})
        /\ subreader' = [open |-> FALSE, n_cases |-> 0]
    BY <1>1, <1>7 DEF buffer_case
  <2>2. \A q \in Reader : Place(q)' = Place(q) /\ Spoken(q)' = Spoken(q)
    BY <1>1, <1>4, <2>1, PlaceSame DEF Spoken
  <2>3. Failed \in BOOLEAN /\ Failed' \in BOOLEAN /\ (Failed => Failed')
    <3>1. Failed <=> "reader" \in tainted
      BY <1>2, Errors
    <3>2. Failed' <=> "reader" \in tainted'
      <4>1. \A q \in Live : class'[q] # "source"
        BY <1>1, <1>2, Holders
      <4>2. \A q \in Live : casereader_error(q)' = ("reader" \in tainted')
        BY <4>1 DEF casereader_error
      <4> QED
        BY <1>2, <1>4, <4>2 DEF Failed
    <3>3. Failed \in BOOLEAN /\ Failed' \in BOOLEAN
      BY <1>2, Errors DEF Failed, casereader_error
    <3> QED
      BY <2>1, <3>1, <3>2, <3>3
  <2>4. Step
    <3>1. \A q \in Held : Place(q)' = Place(q) /\ Limit(q)' = Limit(q)
      BY <1>4, <1>5, <2>2
    <3> QED
      BY <1>1, <1>4, <2>1, <2>3, <3>1, Stutters
  <2>5. Known'
    <3>1. ("source" \in tainted => "reader" \in tainted)
      BY <1>0, <1>2 DEF Known
    <3>2. "source" \in tainted' => "reader" \in tainted'
      BY <2>1, <3>1
    <3>3. \/ source.taken = source.length \/ "reader" \in tainted'
          \/ \A q \in Reader : Random(q) => Spoken(q) <= source.taken
      <4>1. CASE subreader.n_cases = 0
        <5>1. 0 # CASENUMBER_MAX /\ source.taken + 0 = source.taken
          BY <1>3, Numbers
        <5> QED
          BY <1>0, <1>1, <1>2, <4>1, <5>1 DEF Known
      <4>2. CASE subreader.n_cases # 0 /\ source.taken = source.bad
        BY <2>1, <4>2 DEF SourceFails
      <4>3. CASE subreader.n_cases # 0 /\ source.taken # source.bad
        BY <1>3, <1>7, <4>3 DEF SourceHas
      <4> QED
        BY <4>1, <4>2, <4>3
    <3>4. /\ \A q \in Reader : class'[q] # "source"
          /\ call' # Idle /\ ~ subreader'.open
      BY <1>1, <1>2, <2>1
    <3>5. \/ source'.taken = source'.length \/ "reader" \in tainted'
          \/ \A q \in Reader : Random(q)' => Spoken(q)' <= source'.taken
      BY <1>4, <2>1, <2>2, <3>3
    <3> QED
      BY <3>2, <3>4, <3>5 DEF Known
  <2> QED
    BY <2>4, <2>5
<1> QED
  BY <1>6, <1>7

(* The case that a read or peek finds is the one at the reader's place, or *)
(* as far ahead of it as the peek looks.                                   *)
LEMMA Finds ==
  ASSUME Safe, Latest, ~ TempFaults, NEW readable \in Readable, Deliver(readable),
         NEW r \in Reader, r = call.r
  PROVE  /\ Return(Place(r) + call.depth + 1) /\ Place(r) + call.depth < source.taken
         /\ Place(r) \in Nat /\ call.depth \in Nat
         /\ class' = class /\ store' = store /\ subreader' = subreader /\ source' = source
         /\ tainted' = tainted /\ n_cases' = n_cases
         /\ \A q \in Reader : q # r => Place(q)' = Place(q)
         /\ Place(r)' = IF call.op = "read" THEN Place(r) + 1 ELSE Place(r)
<1> DEFINE c == casewindow_get_case(window, Wanted, readable)
           on == [offset EXCEPT ![r] = offset[r] + 1]
<1>1. Sound(window) /\ readable = TRUE /\ ~ aborted /\ ~ window.broken
  BY Works DEF Safe, Latest
<1>2. /\ Asks /\ InWindow /\ Return(c)
      /\ n_cases' = IF c = NoCase THEN [n_cases EXCEPT ![call.r] = Spent(call.r)] ELSE n_cases
      /\ class' = class /\ store' = store /\ subreader' = subreader /\ source' = source
      /\ tainted' = tainted
      /\ call.op = "read" /\ c # NoCase => offset' = on
      /\ ~ (call.op = "read" /\ c # NoCase) => offset' = offset
  BY DEF Deliver
<1>3. /\ Random(r) /\ call.depth \in 0 .. NCases /\ Wanted \in Nat
      /\ Wanted = offset[r] - min_offset + call.depth
      /\ \A q \in Reader : class[q] \in {"none", "random"}
  BY <1>1, <1>2, Asking
<1>4. /\ source.taken \in Nat /\ NCases \in Nat /\ Size(window) \in Nat
      /\ min_offset \in Nat /\ offset \in [Reader -> 0 .. NCases] /\ call.depth \in Nat
  BY <1>3, Types, Numbers
<1>5. /\ Place(r) = (source.taken - (min_offset + Size(window))) + offset[r]
      /\ Place(r) \in 0 .. source.taken
  BY <1>3, Places
<1>6. Wanted < Size(window) /\ Wanted \in 0 .. Size(window) - 1 /\ Wanted + 1 \in 1 .. Size(window)
  BY <1>2, <1>3, <1>4 DEF InWindow, Size
<1>7. c = CaseAt(window, Wanted + 1)
  BY <1>1, <1>6, Got
<1>8. CaseAt(window, Wanted + 1) = source.taken - Size(window) + (Wanted + 1)
  BY <1>6 DEF Latest
<1> HIDE DEF c
<1>9. offset[r] \in Nat
  BY <1>4
<1>10. c = Place(r) + call.depth + 1 /\ Place(r) \in Nat /\ Place(r) + call.depth < source.taken
  BY <1>3, <1>4, <1>5, <1>6, <1>7, <1>8, <1>9
<1>11. c # NoCase
  BY <1>4, <1>10 DEF NoCase
<1>12. /\ min_offset' + Size(window') = min_offset + Size(window)
       /\ min_offset' \in Nat /\ Size(window') \in Nat /\ source'.taken \in Nat
  <2>1. min_offset' + Size(window') = min_offset + Size(window) /\ Safe'
    BY <1>1, LatestDelivers, SafeDelivers
  <2>2. Sound(window') /\ min_offset' \in 0 .. NCases
    BY <2>1 DEF Safe, TypeOK
  <2> QED
    BY <1>2, <1>4, <2>1, <2>2, SizeIs
<1>13. \A q \in Reader : q # r => offset'[q] = offset[q]
  BY <1>2, <1>4
<1>14. ASSUME NEW q \in Reader, q # r PROVE Place(q)' = Place(q)
  BY <1>2, <1>12, <1>13, <1>14, PlaceKept
<1>15. Place(r)' = IF call.op = "read" THEN Place(r) + 1 ELSE Place(r)
  <2>1. CASE call.op = "read"
    <3>1. offset'[r] = offset[r] + 1
      BY <1>2, <1>4, <1>11, <2>1
    <3>2. Place(r)' = source.taken - Size(window') - min_offset' + (offset[r] + 1)
      BY <1>2, <1>3, <3>1 DEF Place, Random, Size
    <3>3. Place(r)' = (source.taken - (min_offset + Size(window))) + (offset[r] + 1)
      BY <1>4, <1>9, <1>12, <3>2
    <3> QED
      BY <1>4, <1>5, <1>9, <2>1, <3>3
  <2>2. CASE call.op # "read"
    <3>1. offset' = offset
      BY <1>2, <2>2
    <3> QED
      BY <1>2, <1>12, <2>2, <3>1, PlaceKept
  <2> QED
    BY <2>1, <2>2
<1> QED
  BY <1>2, <1>4, <1>10, <1>11, <1>14, <1>15

LEMMA MoveDelivers ==
  ASSUME Safe, Latest, Known, ~ TempFaults, NEW readable \in Readable, Deliver(readable)
  PROVE  Known' /\ Step
<1>0. Asks /\ ~ aborted
  BY DEF Deliver, Latest
<1>1. PICK r \in Reader : r = call.r
  BY <1>0, Asking
<1>2. /\ Return(Place(r) + call.depth + 1) /\ Place(r) + call.depth < source.taken
      /\ Place(r) \in Nat /\ call.depth \in Nat
      /\ class' = class /\ store' = store /\ subreader' = subreader /\ source' = source
      /\ tainted' = tainted /\ n_cases' = n_cases
      /\ \A q \in Reader : q # r => Place(q)' = Place(q)
      /\ Place(r)' = IF call.op = "read" THEN Place(r) + 1 ELSE Place(r)
  BY <1>1, Finds
<1>3. /\ call.op \in {"read", "peek"} /\ Random(r) /\ call' = Idle /\ r \in Live
      /\ call'.op = "idle" /\ call.depth \in 0 .. NCases /\ call # Idle
      /\ count # Idle => call.op = "read" /\ r = count.clone /\ count.more
  BY <1>0, <1>1, <1>2, Asking DEF Asks, Return, Idle, Live, Random
<1>4. /\ call.op = "read" => call.depth = 0
      /\ call.op = "peek" => call.depth < n_cases[r]
  BY <1>0, <1>1, Alive DEF Calling
<1>5. /\ source.taken \in Nat /\ source.length \in Nat /\ source.taken <= source.length
      /\ n_cases \in [Reader -> Counts] /\ \A n \in Counts : n \in Nat
  BY Types, Numbers DEF Safe
<1>6. Live' = Live /\ Failed' = Failed /\ Failed \in BOOLEAN
  BY <1>0, <1>2, Errors DEF Live, Failed, casereader_error
<1>7. \A q \in Reader : Limit(q)' = n_cases[q] /\ (q # r => Limit(q) = n_cases[q])
  BY <1>1, <1>2, <1>3 DEF Limit
<1>8. /\ call.op = "read" => Limit(r) > 0 /\ Limit(r) \in Nat
      /\ call.op = "read" => Limit(r)' = IF Limit(r) = CASENUMBER_MAX THEN Limit(r) ELSE Limit(r) - 1
      /\ call.op = "peek" => Limit(r)' = Limit(r)
  <2>1. /\ Limit(r) \in Nat
        /\ Limit(r) = CASENUMBER_MAX <=> n_cases[r] = CASENUMBER_MAX
        /\ call.op = "read" => Limit(r) > 0
        /\ call.op = "read" /\ n_cases[r] # CASENUMBER_MAX =>
              Limit(r) = n_cases[r] + 1 /\ n_cases[r] \in 0 .. NCases - 1
        /\ call.op # "read" => Limit(r) = n_cases[r]
    BY <1>0, <1>1, Limits
  <2>2. \A n \in Nat : (n + 1) - 1 = n
    OBVIOUS
  <2> QED
    BY <1>5, <1>7, <2>1, <2>2
<1>9. Place(r) + call.depth + 1 # NoCase
  BY <1>2 DEF NoCase
<1>10. Step
  <2>1. CASE count = Idle
    <3>1. /\ Held = Live /\ Held' = Live /\ reply' = Place(r) + call.depth + 1
          /\ \A q \in Held : q \in Reader
      BY <1>2, <1>6, <2>1, Holders DEF Held, Return
    <3>2. CASE call.op = "read"
      <4>1. Place(r) < source.length /\ reply' = Place(r) + 1 /\ Place(r)' = Place(r) + 1
        BY <1>2, <1>4, <1>5, <3>1, <3>2
      <4>2. \A q \in Held : q # r => Place(q)' = Place(q) /\ Limit(q)' = Limit(q)
        BY <1>2, <1>7, <3>1
      <4> QED
        BY <1>2, <1>3, <1>6, <1>8, <3>1, <3>2, <4>1, <4>2, StepReads
    <3>3. CASE call.op = "peek"
      <4>1. Limit(r) > call.depth /\ Place(r) + call.depth < source.length /\ Limit(r)' = Limit(r)
        BY <1>2, <1>4, <1>5, <1>7, <1>8, <3>3
      <4>2. /\ \A q \in Held : Place(q)' = Place(q)
            /\ \A q \in Held : q # r => Limit(q)' = Limit(q)
        BY <1>2, <1>7, <3>1, <3>3
      <4>3. PICK idx \in 0 .. NCases : idx = call.depth
        BY <1>3
      <4> QED
        BY <1>2, <1>3, <1>6, <3>1, <4>1, <4>2, <4>3, StepPeeks
    <3> QED
      BY <1>3, <3>2, <3>3
  <2>2. CASE count # Idle
    <3>1. count' = [count EXCEPT !.i = count.i + 1] /\ reply' = reply
      BY <1>2, <1>9, <2>2 DEF Return
    <3>2. count' # Idle /\ count'.clone = count.clone
      BY <2>2, <3>1, CountIs DEF Safe, Idle
    <3>3. Held' = Held /\ \A q \in Held : q \in Reader /\ q # r
      BY <1>3, <1>6, <2>2, <3>2, Holders DEF Held
    <3>4. \A q \in Held : Place(q)' = Place(q) /\ Limit(q)' = Limit(q)
      BY <1>2, <1>7, <3>3
    <3> QED
      BY <1>2, <1>6, <3>1, <3>3, <3>4, Stutters
  <2> QED
    BY <2>1, <2>2
<1>11. Known'
  <2>1. ASSUME NEW q \in Reader, Random(q)' PROVE Random(q) /\ Behind(q, q)
    <3>1. Random(q) /\ n_cases'[q] = n_cases[q] /\ Spoken(q) \in Nat
      BY <1>2, <2>1, SpokenIs DEF Random
    <3>2. CASE n_cases[q] = CASENUMBER_MAX
      BY <3>1, <3>2 DEF Behind
    <3>3. CASE n_cases[q] # CASENUMBER_MAX
      <4>1. Spoken(q)' = Spoken(q)
        <5>1. CASE q # r \/ call.op = "peek"
          BY <1>2, <1>7, <1>8, <5>1 DEF Spoken
        <5>2. CASE q = r /\ call.op = "read"
          <6>1. /\ Limit(r) # CASENUMBER_MAX /\ Limit(r)' = Limit(r) - 1 /\ Limit(r) \in Nat
                /\ Place(r)' = Place(r) + 1
            BY <1>0, <1>2, <1>8, <3>3, <5>2, Limits
          <6>2. (Limit(r) - 1) + (Place(r) + 1) = Limit(r) + Place(r)
            BY <1>2, <6>1
          <6> QED
            BY <5>2, <6>1, <6>2 DEF Spoken
        <5> QED
          BY <1>3, <5>1, <5>2
      <4> QED
        BY <3>1, <3>3, <4>1 DEF Behind
    <3> QED
      BY <3>2, <3>3
  <2>2. count' # Idle => count'.more
    <3>1. CASE count = Idle
      BY <1>2, <3>1 DEF Return
    <3>2. CASE count # Idle
      <4>1. count' = [count EXCEPT !.i = count.i + 1] /\ count.more
        BY <1>2, <1>3, <1>9, <3>2 DEF Return
      <4> QED
        BY <3>2, <4>1, CountIs DEF Safe
    <3> QED
      BY <3>1, <3>2
  <2>3. \A q \in Reader : class'[q] = "source" => class[q] = "source"
    BY <1>2
  <2> QED
    BY <1>2, <2>1, <2>2, <2>3, KnownFrame
<1> QED
  BY <1>10, <1>11

LEMMA MoveExhausts ==
  ASSUME Safe, Latest, Known, Exhausted
  PROVE  Known' /\ Step
<1>0. Asks /\ ~ aborted
  BY DEF Exhausted, Latest
<1>1. PICK r \in Reader : r = call.r
  BY <1>0, Asking
<1>2. /\ ~ InWindow /\ ~ subreader.open /\ n_cases' = [n_cases EXCEPT ![r] = Spent(r)]
      /\ Return(NoCase) /\ Untouched /\ tainted' = tainted
  BY <1>1 DEF Exhausted, backend, Untouched
<1>3. /\ call.op \in {"read", "peek"} /\ Random(r) /\ call' = Idle /\ r \in Live /\ call # Idle
      /\ call'.op = "idle" /\ call.depth \in 0 .. NCases
      /\ Wanted = offset[r] - min_offset + call.depth
      /\ count # Idle => call.op = "read" /\ r = count.clone /\ count.more
  BY <1>0, <1>1, <1>2, Asking DEF Asks, Return, Idle, Live, Random
<1>4. /\ call.op = "read" => call.depth = 0
      /\ call.op = "peek" => call.depth < n_cases[r]
  BY <1>0, <1>1, Alive DEF Calling
<1>5. /\ source.taken \in Nat /\ source.length \in Nat /\ source.taken <= source.length
      /\ n_cases \in [Reader -> Counts] /\ \A n \in Counts : n \in Nat
      /\ NCases \in Nat /\ Size(window) \in Nat /\ min_offset \in Nat /\ offset[r] \in Nat
      /\ call.depth \in Nat
  BY <1>3, Types, Numbers DEF Safe
<1>6. /\ Place(r) = (source.taken - (min_offset + Size(window))) + offset[r]
      /\ Place(r) \in 0 .. source.taken
  BY <1>3, Places
<1>7. Place(r) + call.depth >= source.taken
  <2>1. ~ (Size(window) > offset[r] - min_offset + call.depth)
    BY <1>2, <1>3 DEF InWindow, Size
  <2> QED
    BY <1>5, <1>6, <2>1
<1>8. /\ Limit(r) \in Nat /\ Limit(r) > call.depth
      /\ call.op = "peek" => Limit(r) = n_cases[r]
  <2>1. /\ Limit(r) \in Nat /\ call.op = "read" => Limit(r) > 0
        /\ call.op # "read" => Limit(r) = n_cases[r]
    BY <1>0, <1>1, Limits
  <2> QED
    BY <1>0, <1>1, <1>3, <1>4, <2>1, Limits
<1>9. source.taken = source.length \/ "reader" \in tainted
  <2>1. ~ (Spoken(r) <= source.taken)
    BY <1>5, <1>6, <1>7, <1>8 DEF Spoken
  <2>2. \/ source.taken = source.length \/ "reader" \in tainted
        \/ \A q \in Reader : Random(q) => Spoken(q) <= source.taken
    BY <1>2, <1>3 DEF Known
  <2> QED
    BY <1>3, <2>1, <2>2
<1>10. Failed <=> "reader" \in tainted
  BY <1>0, <1>3, Errors
<1>11. /\ Spent(r) \in {0, call.depth}
       /\ call.op = "read" => Spent(r) = 0
       /\ Spent(r) # 0 => ~ Failed
  <2>1. Failed <=> casereader_error(r)
    BY <1>0, <1>3, Errors
  <2>2. CASE call.op = "read"
    BY <2>2 DEF Spent
  <2>3. CASE call.op # "read" /\ casereader_error(r)
    <3>1. ~ (0 > call.depth)
      BY <1>5
    <3> QED
      BY <2>3, <3>1 DEF Spent
  <2>4. CASE call.op # "read" /\ ~ casereader_error(r)
    BY <1>3, <1>4, <2>1, <2>4 DEF Spent
  <2> QED
    BY <2>2, <2>3, <2>4
<1>12. \A q \in Reader : n_cases'[q] = IF q = r THEN Spent(r) ELSE n_cases[q]
  BY <1>2, <1>5
<1>13. \A q \in Reader : Limit(q)' = n_cases'[q] /\ (q # r => Limit(q) = n_cases[q])
  BY <1>1, <1>3 DEF Limit
<1>14. Limit(r)' = Spent(r) /\ Spent(r) \in Nat /\ Spent(r) <= Limit(r) /\ Spent(r) <= call.depth
  BY <1>5, <1>8, <1>11, <1>12, <1>13
<1>15. \A q \in Reader : q # r => Limit(q)' = Limit(q)
  BY <1>12, <1>13
<1>16. Place(r)' = Place(r)
  BY <1>2, PlaceSame DEF Untouched
<1>17. call.op = "read" => Place(r) = source.length \/ "reader" \in tainted
  BY <1>4, <1>5, <1>6, <1>7, <1>9
<1>18. /\ Known' /\ Live' = Live /\ Failed' = Failed /\ Failed \in BOOLEAN
       /\ \A q \in Reader : Place(q)' = Place(q)
  <2>1. \A q \in Reader : /\ Limit(q)' \in Nat /\ Limit(q)' <= Limit(q)
                          /\ n_cases'[q] = CASENUMBER_MAX => n_cases[q] = CASENUMBER_MAX
    <3>1. \A q \in Reader : q # r => Limit(q)' \in Nat /\ Limit(q)' <= Limit(q)
      BY <1>5, <1>13, <1>15
    <3>2. Spent(r) # CASENUMBER_MAX
      BY <1>3, <1>5, <1>14, Numbers
    <3> QED
      BY <1>12, <1>14, <3>1, <3>2
  <2>2. (count' # Idle /\ call' = Idle /\ ~ count'.more) =>
          Place(count.clone)' = source.length \/ "reader" \in tainted
    <3>1. SUFFICES ASSUME count' # Idle PROVE Place(count.clone)' = source.length \/ "reader" \in tainted
      OBVIOUS
    <3>2. count # Idle
      BY <1>2, <3>1 DEF Return
    <3>3. count' = [count EXCEPT !.more = FALSE]
      BY <1>2, <3>2 DEF Return
    <3>4. count'.clone = r
      BY <1>3, <3>2, <3>3, CountIs DEF Safe
    <3>5. Place(count.clone)' = Place(r)'
      BY <3>4 DEF Place
    <3> QED
      BY <1>3, <1>16, <1>17, <3>2, <3>5
  <2> QED
    BY <1>2, <2>1, <2>2, Untouching
<1>19. source'.length = source.length /\ Held \subseteq Reader
  BY <1>2, Holders DEF Untouched
<1>20. CASE count = Idle
  <2>1. Held = Live /\ Held' = Live /\ reply' = NoCase
    BY <1>2, <1>18, <1>20, Holders DEF Held, Return
  <2>2. CASE call.op = "read"
    <3>1. Limit(r)' = 0 /\ (Place(r) = source.length \/ Failed')
      BY <1>10, <1>11, <1>14, <1>17, <1>18, <2>2
    <3>2. \A q \in Held : q # r => Place(q)' = Place(q) /\ Limit(q)' = Limit(q)
      BY <1>15, <1>18, <1>19
    <3> QED
      BY <1>3, <1>16, <1>18, <1>19, <2>1, <3>1, <3>2, StepReads
  <2>3. CASE call.op = "peek"
    <3>1. PICK idx \in 0 .. NCases : idx = call.depth
      BY <1>3
    <3>2. Place(r) + idx >= source.length \/ Failed'
      BY <1>7, <1>9, <1>10, <1>18, <3>1
    <3>3. Limit(r)' \in {0, idx, Limit(r)} /\ Limit(r)' <= Limit(r)
      BY <1>11, <1>14, <3>1
    <3>4. Failed' \/ Place(r) + Limit(r)' >= source.length
      <4>1. CASE Spent(r) = 0
        <5>1. Failed \/ call.depth = 0
          <6>1. CASE casereader_error(r)
            BY <1>0, <1>3, <6>1, Errors
          <6>2. CASE ~ casereader_error(r)
            BY <1>4, <2>3, <4>1, <6>2 DEF Spent
          <6> QED
            BY <6>1, <6>2
        <5> QED
          BY <1>14, <1>18, <3>1, <3>2, <4>1, <5>1
      <4>2. CASE Spent(r) # 0
        BY <1>11, <1>14, <3>1, <3>2, <4>2
      <4> QED
        BY <4>1, <4>2
    <3>5. /\ \A q \in Held : Place(q)' = Place(q)
          /\ \A q \in Held : q # r => Limit(q)' = Limit(q)
      BY <1>15, <1>18, <1>19
    <3>6. Limit(r) <= idx \/ Place(r) + idx >= source.length \/ Failed'
      BY <3>2
    <3>7. Limit(r)' < Limit(r) => Failed' \/ Place(r) + Limit(r)' >= source.length
      BY <3>4
    <3>8. Held' = Held /\ r \in Held /\ Failed' = Failed
      BY <1>3, <1>18, <2>1
    <3> QED
      BY <1>18, <1>19, <2>1, <3>3, <3>5, <3>6, <3>7, <3>8, StepPeeks
  <2> QED
    BY <1>3, <1>18, <2>2, <2>3
<1>21. CASE count # Idle
  <2>1. count' = [count EXCEPT !.more = FALSE] /\ reply' = reply
    BY <1>2, <1>21 DEF Return
  <2>2. count' # Idle /\ count'.clone = count.clone
    BY <1>21, <2>1, CountIs DEF Safe, Idle
  <2>3. Held' = Held /\ \A q \in Held : q \in Reader /\ q # r
    BY <1>3, <1>18, <1>21, <2>2, Holders DEF Held
  <2>4. \A q \in Held : Place(q)' = Place(q) /\ Limit(q)' = Limit(q)
    BY <1>15, <1>18, <2>3
  <2> QED
    BY <1>18, <1>19, <2>1, <2>3, <2>4, Stutters
<1> QED
  BY <1>20, <1>21

LEMMA MoveReadsSource ==
  ASSUME Safe, Latest, Known, ReadSource
  PROVE  Known' /\ Step
<1> DEFINE found == SourceHas(1)
<1>1. PICK r \in Reader : r = call.r
  BY CallIs DEF ReadSource, Safe
<1>2. /\ call.op = "read" /\ class[r] = "source" /\ Return(IF found THEN source.taken + 1 ELSE NoCase)
      /\ n_cases' = (IF found THEN n_cases ELSE [n_cases EXCEPT ![r] = 0])
      /\ source' = (IF found THEN [source EXCEPT !.taken = source.taken + 1] ELSE source)
      /\ tainted' = (IF SourceFails(1) THEN tainted \cup {"source"} ELSE tainted)
      /\ class' = class /\ store' = store /\ subreader' = subreader
  BY <1>1 DEF ReadSource, backend
<1>3. /\ ~ aborted /\ store = "none" /\ (\A q \in Reader : q # r => class[q] = "none")
      /\ call' = Idle /\ call'.op = "idle" /\ Counting /\ call # Idle
  BY <1>1, <1>2, Only, Alive DEF Latest, Return, Idle
<1>4. count = Idle /\ count' = Idle
  BY <1>1, <1>2, <1>3 DEF Counting, Random, Return
<1>5. Live = {r} /\ Live' = {r} /\ Held = {r} /\ Held' = {r}
  BY <1>2, <1>3, <1>4 DEF Live, Held
<1>6. /\ source.taken \in Nat /\ source.length \in Nat /\ source.taken <= source.length
      /\ n_cases \in [Reader -> Counts] /\ \A n \in Counts : n \in Nat
  BY Types, Numbers DEF Safe
<1>7. Place(r) = source.taken /\ Place(r)' = source'.taken
  BY <1>2 DEF Place
<1>8. /\ Limit(r) \in Nat /\ Limit(r) > 0 /\ Limit(r)' = n_cases'[r]
      /\ n_cases[r] = IF Limit(r) = CASENUMBER_MAX THEN Limit(r) ELSE Limit(r) - 1
  <2>1. /\ Limit(r) \in Nat /\ Limit(r) > 0
        /\ Limit(r) = CASENUMBER_MAX <=> n_cases[r] = CASENUMBER_MAX
        /\ n_cases[r] # CASENUMBER_MAX =>
              Limit(r) = n_cases[r] + 1 /\ n_cases[r] \in 0 .. NCases - 1
    BY <1>1, <1>2, <1>3, Limits
  <2>2. Limit(r)' = n_cases'[r]
    BY <1>3 DEF Limit
  <2>3. \A n \in Nat : (n + 1) - 1 = n
    OBVIOUS
  <2> QED
    BY <1>6, <2>1, <2>2, <2>3
<1>9. (Failed <=> "source" \in tainted) /\ (Failed' <=> "source" \in tainted')
      /\ Failed \in BOOLEAN /\ Failed' \in BOOLEAN
  BY <1>2, <1>5 DEF Failed, casereader_error
<1>10. Known'
  <2>1. \A q \in Reader : ~ Random(q)'
    BY <1>2, <1>3 DEF Random
  <2>2. "reader" \notin tainted
    BY <1>2 DEF Known
  <2>3. "reader" \notin tainted'
    BY <1>2, <2>2
  <2>4. ~ subreader'.open
    BY <1>2, <1>3 DEF Known
  <2> QED
    BY <1>4, <2>1, <2>3, <2>4 DEF Known
<1>11. Step
  <2>1. CASE found
    <3>1. /\ source.taken < source.length /\ ~ SourceFails(1) /\ reply' = source.taken + 1
          /\ n_cases' = n_cases /\ source' = [source EXCEPT !.taken = source.taken + 1]
      BY <1>2, <1>4, <2>1 DEF SourceHas, SourceFails, Return
    <3>2. /\ source'.taken = source.taken + 1 /\ source'.length = source.length
          /\ Failed' = Failed
      BY <1>2, <1>9, <3>1, Types
    <3> QED
      BY <1>5, <1>7, <1>8, <3>1, <3>2, StepReads
  <2>2. CASE ~ found
    <3>1. /\ reply' = NoCase /\ source' = source /\ n_cases'[r] = 0
      BY <1>2, <1>4, <1>6, <2>2 DEF Return
    <3>2. source.taken = source.length \/ SourceFails(1)
      BY <1>6, <2>2 DEF SourceHas, SourceFails
    <3>3. /\ Failed' = Failed \/ Failed' = TRUE
          /\ Place(r) = source.length \/ Failed'
      BY <1>2, <1>7, <1>9, <3>2
    <3>4. Place(r)' = Place(r) /\ Limit(r)' = 0 /\ source'.length = source.length
      BY <1>7, <1>8, <3>1
    <3> QED
      BY <1>5, <3>1, <3>3, <3>4, StepReads
  <2> QED
    BY <2>1, <2>2
<1> QED
  BY <1>10, <1>11

(* The end of a reader changes nothing for the others; that the count      *)
(* which ends with it lowers its original's limit changes nothing either.  *)
LEMMA Drops ==
  ASSUME Safe, Latest, Known, NoCall, NEW r \in Live, Drop(r), call' = call, count' = Idle,
         \A q \in Reader : q # r =>
           /\ n_cases'[q] \in Counts /\ n_cases'[q] <= n_cases[q]
           /\ n_cases'[q] = CASENUMBER_MAX => n_cases[q] = CASENUMBER_MAX
  PROVE  /\ Known' /\ Failed' = Failed /\ Live' = Live \ {r} /\ source' = source
         /\ \A q \in Live : q # r => Place(q)' = Place(q)
<1>1. /\ class' = [class EXCEPT ![r] = "none"] /\ offset' = [offset EXCEPT ![r] = 0]
      /\ source' = source /\ tainted' = tainted
  BY DEF Drop
<1>2. \/ /\ Live = {r} /\ store' = "none" /\ subreader' = [open |-> FALSE, n_cases |-> 0]
      \/ /\ Live # {r} /\ store' = store /\ subreader' = subreader
         /\ advance_random_reader(offset, Live \ {r}, window)
  BY DEF Drop
<1>3. /\ Spread /\ ~ aborted /\ call = Idle /\ r \in Reader /\ class[r] # "none" /\ NCases \in Nat
      /\ class \in [Reader -> {"none", "source", "random"}] /\ offset \in [Reader -> 0 .. NCases]
      /\ Size(window) \in Nat /\ min_offset \in 0 .. NCases /\ source.taken \in 0 .. NCases
      /\ call.op = "idle"
  BY Alive, Types, Numbers, CallIs DEF Safe, NoCall, Live
<1>4. /\ class'[r] = "none"
      /\ \A q \in Reader : q # r => class'[q] = class[q] /\ offset'[q] = offset[q]
  BY <1>1, <1>3
<1>5. Live' = Live \ {r}
  BY <1>4 DEF Live
<1>6. CASE Live = {r}
  <2>1. \A q \in Reader : class'[q] = "none"
    BY <1>4, <1>6 DEF Live
  <2>2. store' = "none" /\ ~ subreader'.open
    BY <1>2, <1>6
  <2>3. Known'
    BY <2>1, <2>2 DEF Known, Random
  <2>4. (Failed <=> tainted # {}) /\ Failed \in BOOLEAN
    <3>1. tainted \subseteq {"source", "reader"}
      BY DEF Safe, TypeOK
    <3>2. CASE Random(r)
      <4>1. "source" \in tainted => "reader" \in tainted
        BY <1>3, <3>2 DEF Known
      <4> QED
        BY <1>3, <3>1, <3>2, <4>1, Errors
    <3>3. CASE ~ Random(r)
      <4>1. "reader" \notin tainted
        BY <1>3, <3>3 DEF Known, Random
      <4> QED
        BY <1>3, <3>1, <3>3, <4>1, Errors
    <3> QED
      BY <3>2, <3>3
  <2>5. Live' = {}
    BY <1>5, <1>6
  <2>6. Failed' = (tainted # {})
    BY <1>1, <2>5 DEF Failed
  <2> QED
    BY <1>1, <1>5, <1>6, <2>3, <2>4, <2>6
<1>7. CASE Live # {r}
  <2>1. \A q \in Reader : class[q] # "source"
    BY <1>3, <1>7 DEF Spread
  <2>2. \A q \in Live : Random(q) /\ q \in Reader
    BY <1>3, <2>1 DEF Live, Random
  <2>3. /\ min_offset' + Size(window') = min_offset + Size(window)
        /\ min_offset' \in Nat /\ Size(window') \in Nat
    <3>1. n_cases' \in [Reader -> Counts] => Safe'
      BY SafeDrops
    <3>2. Latest' /\ min_offset' + Size(window') = min_offset + Size(window)
      BY <1>7, LatestDrops
    <3>3. /\ Live \ {r} \in SUBSET Reader /\ Live \ {r} # {}
          /\ \A q \in Live \ {r} : offset[q] >= min_offset
      BY <1>3, <1>7, <2>2 DEF Spread
    <3>4. Sound(window)
      BY DEF Safe
    <3>5. min_offset' \in 0 .. NCases /\ Size(window') \in Nat
      BY <1>1, <1>2, <1>3, <1>7, <3>3, <3>4, Advances
    <3> QED
      BY <1>3, <3>2, <3>5
  <2>4. ASSUME NEW q \in Reader, q # r, Random(q) PROVE Place(q)' = Place(q)
    <3>1. source'.taken \in Nat
      BY <1>1, <1>3
    <3> QED
      BY <1>1, <1>4, <2>3, <2>4, <3>1, PlaceKept
  <2>5. Failed' = Failed
    <3>1. Failed <=> "reader" \in tainted
      BY <1>3, <2>2, Errors
    <3>2. \A q \in Live' : q \in Reader /\ class'[q] # "source"
      BY <1>4, <1>5, <2>1, <2>2
    <3>3. \A q \in Live' : casereader_error(q)' <=> "reader" \in tainted
      BY <1>1, <3>2 DEF casereader_error
    <3>4. Live' # {}
      BY <1>5, <1>7
    <3>5. (Failed' <=> "reader" \in tainted) /\ Failed' \in BOOLEAN
      BY <3>3, <3>4 DEF Failed
    <3> QED
      BY <1>3, <3>1, <3>5, Errors
  <2>6. ASSUME NEW q \in Reader, Random(q)' PROVE Random(q) /\ Behind(q, q)
    <3>1. q # r /\ Random(q)
      BY <1>4, <2>6 DEF Random
    <3>2. /\ Place(q)' = Place(q) /\ Place(q) \in Nat
          /\ Limit(q) = n_cases[q] /\ Limit(q)' = n_cases'[q]
      <4>1. Place(q) \in 0 .. source.taken
        BY <3>1, Places
      <4> QED
        BY <1>3, <2>4, <3>1, <4>1 DEF Limit
    <3>3. n_cases'[q] \in Nat /\ n_cases[q] \in Nat /\ n_cases'[q] <= n_cases[q]
      BY <3>1, Types, Numbers
    <3>4. Spoken(q)' \in Nat /\ Spoken(q)' <= Spoken(q)
      BY <3>2, <3>3 DEF Spoken
    <3> QED
      BY <3>1, <3>4 DEF Behind
  <2>7. Known'
    <3>1. \A q \in Reader : class'[q] = "source" => class[q] = "source"
      BY <1>4
    <3> QED
      BY <1>1, <1>2, <1>7, <2>6, <3>1, KnownFrame
  <2> QED
    BY <1>1, <1>5, <2>2, <2>4, <2>5, <2>7
<1> QED
  BY <1>6, <1>7

LEMMA MoveDestroys ==
  ASSUME Safe, Latest, Known, NEW r \in Reader, casereader_destroy(r)
  PROVE  Known' /\ Step
<1>1. /\ NoCall /\ r \in Live /\ Drop(r) /\ n_cases' = [n_cases EXCEPT ![r] = 0]
      /\ call' = call /\ count = Idle /\ count' = Idle /\ reply' = reply
  BY DEF casereader_destroy, Client
<1>2. /\ call.op = "idle" /\ n_cases \in [Reader -> Counts] /\ \A n \in Counts : n \in Nat
  BY <1>1, Types, Numbers, CallIs DEF NoCall, Safe
<1>3. \A q \in Reader : q # r => n_cases'[q] = n_cases[q] /\ n_cases[q] <= n_cases[q]
  BY <1>1, <1>2
<1>4. /\ Known' /\ Failed' = Failed /\ Live' = Live \ {r} /\ source' = source
      /\ \A q \in Live : q # r => Place(q)' = Place(q)
  BY <1>1, <1>2, <1>3, Drops
<1>5. Held = Live /\ Held' = Live \ {r}
  BY <1>1, <1>4, Holders DEF Held
<1>6. \A q \in Held : q # r => Limit(q)' = Limit(q)
  BY <1>1, <1>2, <1>3, <1>5, Holders DEF Limit
<1> QED
  BY <1>1, <1>4, <1>5, <1>6, StepDestroys

LEMMA MoveCountEnds ==
  ASSUME Safe, Latest, Known, CountEnd
  PROVE  Known' /\ Step
<1>1. /\ NoCall /\ count # Idle /\ (~ count.more \/ count.i >= count.max) /\ Drop(count.clone)
      /\ n_cases' = [n_cases EXCEPT ![count.clone] = 0, ![count.r] = count.i]
      /\ count' = Idle /\ call' = call /\ reply' = reply
  BY DEF CountEnd
<1>2. count.r \in Reader /\ count.clone \in Reader /\ count.max \in Counts /\ count.i \in 0 .. NCases
  BY <1>1, CountIs DEF Safe
<1>3. PICK r \in Reader, p \in Reader, n \in Counts : r = count.r /\ p = count.clone /\ n = count.max
  BY <1>2
<1>4. /\ n_cases[r] = CASENUMBER_MAX /\ r # p /\ count.i <= n /\ call = Idle /\ call.op = "idle"
      /\ Random(r) /\ Random(p) /\ offset[p] = offset[r] + count.i /\ ~ aborted
  BY <1>1, <1>3, Alive, CallIs DEF Counting, NoCall, Safe
<1>5. /\ n_cases \in [Reader -> Counts] /\ NCases \in Nat /\ CASENUMBER_MAX > NCases
      /\ CASENUMBER_MAX \in Nat /\ count.i \in Nat /\ count.i # CASENUMBER_MAX /\ count.i \in Counts
      /\ n \in Nat /\ \A m \in Counts : m \in Nat
  BY <1>2, Types, Numbers DEF Counts
<1>6. r \in Live /\ p \in Live
  BY <1>4 DEF Live, Random
<1>7. /\ n_cases'[r] = count.i
      /\ \A q \in Reader : q # r /\ q # p => n_cases'[q] = n_cases[q]
  BY <1>1, <1>3, <1>4, <1>5
<1>8. \A q \in Reader : q # p =>
        /\ n_cases'[q] \in Counts /\ n_cases'[q] <= n_cases[q]
        /\ n_cases'[q] = CASENUMBER_MAX => n_cases[q] = CASENUMBER_MAX
  <2>1. count.i <= CASENUMBER_MAX
    BY <1>2, <1>5
  <2>2. \A m \in Counts : m <= m
    BY <1>5
  <2> QED
    BY <1>4, <1>5, <1>7, <2>1, <2>2
<1>9. /\ Known' /\ Failed' = Failed /\ Live' = Live \ {p} /\ source' = source
      /\ \A q \in Live : q # p => Place(q)' = Place(q)
  BY <1>1, <1>3, <1>6, <1>8, Drops
<1>10. Held = Live \ {p} /\ Held' = Live \ {p} /\ \A q \in Held : q \in Live /\ q # p /\ q \in Reader
  BY <1>1, <1>3, <1>9, Holders DEF Held
<1>11. \A q \in Reader : Limit(q) = n_cases[q] /\ Limit(q)' = n_cases'[q]
  BY <1>1, <1>4 DEF Limit
<1>12. /\ Place(r) \in Nat /\ Place(p) \in 0 .. source.taken /\ Place(p) = Place(r) + count.i
       /\ source.taken \in Nat /\ source.length \in Nat /\ source.taken <= source.length
  <2>1. /\ Place(r) = (source.taken - (min_offset + Size(window))) + offset[r]
        /\ Place(p) = (source.taken - (min_offset + Size(window))) + offset[p]
        /\ Place(r) \in 0 .. source.taken /\ Place(p) \in 0 .. source.taken
    BY <1>4, Places
  <2>2. /\ source.taken \in Nat /\ source.length \in Nat /\ source.taken <= source.length
        /\ min_offset \in Nat /\ Size(window) \in Nat /\ offset[r] \in Nat
    BY Types, Numbers DEF Safe
  <2> QED
    BY <1>4, <1>5, <2>1, <2>2
<1>13. count.i \in 0 .. source.length - Place(r)
  BY <1>5, <1>12
<1>14. count.i = n \/ count.i = source.length - Place(r) \/ Failed
  <2>1. CASE count.i >= count.max
    BY <1>3, <1>4, <1>5, <2>1
  <2>2. CASE ~ count.more
    <3>1. Place(p) = source.length \/ "reader" \in tainted
      BY <1>1, <1>3, <1>4, <2>2 DEF Known
    <3>2. "reader" \in tainted => Failed
      BY <1>4, <1>6, Errors
    <3> QED
      BY <1>5, <1>12, <3>1, <3>2
  <2> QED
    BY <1>1, <2>1, <2>2
<1>15. \A q \in Held : q # r => Limit(q)' = Limit(q)
  BY <1>7, <1>10, <1>11
<1>16. /\ Limit(r) = CASENUMBER_MAX /\ Limit(r)' = count.i /\ r \in Held
       /\ \A q \in Held : Place(q)' = Place(q)
  BY <1>4, <1>6, <1>7, <1>9, <1>10, <1>11
<1> QED
  BY <1>1, <1>4, <1>9, <1>10, <1>13, <1>14, <1>15, <1>16, StepTruncates

LEMMA MoveCounts ==
  ASSUME Safe, Latest, Known, CountRead
  PROVE  Known' /\ Step
<1>1. NoCall /\ count # Idle /\ count.more
  BY DEF CountRead
<1>2. /\ count.clone \in Reader /\ Random(count.clone) /\ n_cases[count.clone] = CASENUMBER_MAX
  BY <1>1, Alive, CallIs, CountIs DEF Counting, NoCall, Safe
<1>3. PICK p \in Reader : p = count.clone
  BY <1>2
<1>4. CASENUMBER_MAX # 0 /\ p \in Live
  BY <1>2, <1>3, Numbers DEF Live, Random
<1>5. StartRead(p) /\ count' = count
  BY <1>2, <1>3, <1>4 DEF CountRead
<1> QED
  BY <1>1, <1>4, <1>5, MoveStartsRead

LEMMA MoveInit ==
  ASSUME Init
  PROVE  Known /\ Stream!Init
<1>1. /\ count = Idle /\ tainted = {} /\ reply = NoCase /\ call = Idle /\ ~ subreader.open
      /\ source.taken = 0 /\ First \in Reader /\ NCases \in Nat /\ call.op = "idle"
  BY Numbers DEF Init, Idle
<1>2. \A r \in Reader : ~ Random(r)
  BY DEF Init, Random
<1>3. Known
  BY <1>1, <1>2 DEF Known
<1>4. ~ Failed /\ Failed \in BOOLEAN
  BY <1>1 DEF Failed, casereader_error
<1>5. Placed = [r \in Reader |-> 0]
  <2>1. \A r \in Reader : Place(r) = 0
    BY <1>1, <1>2 DEF Place, Random
  <2> QED
    BY <2>1 DEF Placed
<1>6. \A r \in Reader : Limit(r) = n_cases[r]
  BY <1>1 DEF Limit
<1>7. CASE store = "none"
  <2>1. /\ class = [r \in Reader |-> IF r = First THEN "source" ELSE "none"]
        /\ source.length = NCases
    BY <1>7 DEF Init
  <2>2. Held = {First}
    BY <1>1, <2>1 DEF Held, Live
  <2>3. PICK n \in {NCases, CASENUMBER_MAX} : n_cases = [r \in Reader |-> IF r = First THEN n ELSE 0]
    BY DEF Init
  <2>4. Limited = [q \in Reader |-> IF q = First THEN n ELSE 0]
    BY <1>1, <1>6, <2>2, <2>3 DEF Limited
  <2>5. \E r \in Reader, m \in {source.length, CASENUMBER_MAX} :
          Held = {r} /\ Limited = [q \in Reader |-> IF q = r THEN m ELSE 0]
    BY <1>1, <2>1, <2>2, <2>4
  <2>6. source.length \in 0 .. NCases
    BY <1>1, <2>1
  <2> QED
    BY <1>1, <1>3, <1>4, <1>5, <2>5, <2>6 DEF Stream!Init, Placed, Limited, Failed, NoCase
<1>8. CASE store # "none"
  <2>1. source.length = 0 /\ Live = {}
    BY <1>8 DEF Init, Live
  <2>2. Held = {} /\ Limited = [r \in Reader |-> 0]
    BY <1>1, <2>1 DEF Held, Limited
  <2>3. source.length \in 0 .. NCases
    BY <1>1, <2>1
  <2> QED
    BY <1>1, <1>3, <1>4, <1>5, <2>2, <2>3 DEF Stream!Init, Placed, Limited, Failed, NoCase
<1> QED
  BY <1>7, <1>8

LEMMA MoveInternal ==
  ASSUME Safe, Latest, Known, ~ TempFaults, Internal
  PROVE  Known' /\ Step
<1>1. \A good \in Writes : buffer_case(good) => Known' /\ Step
  BY MoveBuffers
<1>2. \A readable \in Readable : Deliver(readable) => Known' /\ Step
  BY MoveDelivers
<1> QED
  BY <1>1, <1>2, MoveShims, MoveClones, MoveExhausts, MoveReadsSource, MoveCounts, MoveCountEnds
  DEF Internal

LEMMA MoveExternal ==
  ASSUME Safe, Latest, Known, External
  PROVE  Known' /\ Step
<1>1. \A good \in Writes : casewriter_write(good) => Known' /\ Step
  BY MoveWrites
<1>2. ASSUME NEW r \in Reader, casereader_read(r) PROVE Known' /\ Step
  BY <1>2, MoveStartsRead DEF casereader_read, Client
<1>3. ASSUME NEW r \in Reader,
             \/ \E idx \in 0 .. NCases : casereader_peek(r, idx)
             \/ \E new \in Reader :
                  \/ casereader_clone(r, new)
                  \/ \E max \in {CASENUMBER_MAX} \cup 0 .. NCases : casereader_count(r, new, max)
      PROVE  Known' /\ Step
  BY <1>3, MoveStartsOther DEF Counts
<1>4. ASSUME NEW r \in Reader,
             \/ ReadNothing(r)
             \/ \E idx \in 0 .. NCases : PeekNothing(r, idx)
             \/ \E n \in 0 .. NCases : casereader_truncate(r, n)
      PROVE  Known' /\ Step
  BY <1>4, MoveQuiet
<1>5. \A r \in Reader : casereader_force_error(r) \/ casereader_destroy(r) => Known' /\ Step
  BY MoveForces, MoveDestroys
<1> QED
  BY <1>1, <1>2, <1>3, <1>4, <1>5, MoveOpens DEF External

LEMMA MoveNext ==
  ASSUME Safe, Latest, Known, ~ TempFaults, [Next]_vars
  PROVE  Known' /\ Step
<1>1. CASE Next
  BY <1>1, MoveInternal, MoveExternal DEF Next
<1>2. CASE UNCHANGED vars
  <2>1. /\ Untouched /\ tainted' = tainted /\ n_cases' = n_cases /\ call' = call /\ count' = count
        /\ reply' = reply
    BY <1>2 DEF vars, Untouched
  <2>2. \A q \in Reader : Limit(q)' = Limit(q) /\ Place(q)' = Place(q)
    BY <2>1, PlaceSame DEF Limit, Untouched
  <2>3. Live' = Live /\ Held' = Held
    BY <2>1 DEF Live, Held, Untouched
  <2>4. Failed' = Failed /\ Failed \in BOOLEAN
    BY <2>1, <2>3, Errors DEF Failed, casereader_error, Untouched, Latest
  <2>5. Known'
    <3>1. Place(count.clone)' = Place(count.clone)
      BY <2>1 DEF Place, Untouched
    <3>2. \A q \in Reader : Spoken(q)' = Spoken(q) /\ (Random(q)' <=> Random(q))
      BY <2>1, <2>2 DEF Spoken, Random, Untouched
    <3> QED
      BY <2>1, <3>1, <3>2 DEF Known, Untouched
  <2>6. Step
    BY <2>1, <2>2, <2>3, <2>4, Holders, Stutters DEF Untouched
  <2> QED
    BY <2>5, <2>6
<1> QED
  BY <1>1, <1>2

(* Every reader, cloned when and from whom it may be, reads the one        *)
(* sequence from its place on, in order, and is never told that it ends    *)
(* before it does unless casereader_error says so: the buffering shim and  *)
(* the shared window cannot be told from a sequence of one's own.          *)
THEOREM Implements ==
  ASSUME ~ TempFaults
  PROVE  Spec => IsStream
<1>1. Init => Known /\ Stream!Init
  BY MoveInit
<1>2. Safe /\ Latest /\ Known /\ [Next]_vars => Known' /\ [Stream!Next]_(Stream!vars)
  BY MoveNext DEF Step
<1> QED
  BY <1>1, <1>2, Safety, Newest, PTL DEF Spec, IsStream, Stream!Spec
=============================================================================
