----------------------------- MODULE CaseReader -----------------------------
(***************************************************************************)
(* A casereader and its clones: src/data/casereader.c with the buffering   *)
(* shim of casereader-shim.c and the window-backed writer and reader of    *)
(* casewriter.c.                                                           *)
(*                                                                         *)
(* It starts in one of two ways.  Either a client holds one sequential     *)
(* reader over a source (a system file, a procedure, ...), and the first   *)
(* call that the source cannot serve, a clone or a peek, slips a shim      *)
(* under the reader: a window that all clones share, filled from the old   *)
(* reader as the foremost clone asks for more.  Or a client writes cases   *)
(* to a casewriter and turns it into a reader over the window it filled.   *)
(*                                                                         *)
(* The program is single-threaded: one call runs at a time (`call'), but   *)
(* the loops inside it are steps of their own, because the source and the  *)
(* temporary file can fail at any turn of them.  Cases are numbered 1, 2,  *)
(* ... in the order in which the source yields, or the client writes, them. *)
(***************************************************************************)
EXTENDS CaseStore, FiniteSets

CONSTANTS
  Reader,          \* the addresses of casereaders that clients hold
  First,           \* the one that exists at the start
  NCases,          \* the length of the source
  MaxInCore,       \* settings_get_workspace_cases
  CASENUMBER_MAX,  \* "number of cases not known"
  TempFaults       \* may the temporary file fail?

ASSUME ReaderAssumption ==
  /\ First \in Reader
  /\ NCases \in Nat /\ MaxInCore \in Nat
  /\ CASENUMBER_MAX \in Nat /\ CASENUMBER_MAX > NCases
  /\ TempFaults \in BOOLEAN

VARIABLES
  class,        \* [Reader -> {"none", "source", "random"}]
  n_cases,      \* [Reader -> count], the upper limit on what is left to read
  offset,       \* [Reader -> Nat], cases a random reader has read
  min_offset,   \* random_reader_shared.min_offset
  store,        \* "none", "writer", "window" or "shim": what `window' serves
  window,       \* the casewindow
  subreader,    \* [open, n_cases]: the shim's subordinate reader
  source,       \* [length, taken, bad]: its cases, those read, the read that fails
  tainted,      \* the taints that are set: "source" and "reader"
  call,         \* the call in progress: [op, r, ...]
  count,        \* the casereader_count_cases__ it is part of
  reply,        \* the case that the last read or peek returned
  aborted       \* an assertion has failed

readers == <<class, n_cases, offset, min_offset>>
vars == <<class, n_cases, offset, min_offset, store, window, subreader, source,
          tainted, call, count, reply, aborted>>

backend == <<store, window, subreader>>

Idle == [op |-> "idle"]
Live == {r \in Reader : class[r] # "none"}

(* Whether a clone of the random reader, or the reader itself, has seen an *)
(* error: all clones share one taint.                                      *)
casereader_error(r) ==
  IF class[r] = "source" THEN "source" \in tainted ELSE "reader" \in tainted

(* How many writes to the temporary file succeed in one call, and whether  *)
(* a read of it does.                                                      *)
Writes == IF TempFaults THEN 0 .. MaxInCore + 1 ELSE {MaxInCore + 1}
Readable == IF TempFaults THEN BOOLEAN ELSE {TRUE}

(* `readers->n_cases--' where the count is neither 0 nor unknown.          *)
LessAlways(n) == IF n = 0 THEN 0 ELSE n - 1   \* mutant: unknown counts too
Less(n) == IF n \in {0, CASENUMBER_MAX} THEN n ELSE n - 1

-----------------------------------------------------------------------------
Init ==
  /\ n_cases \in {[r \in Reader |-> IF r = First THEN n ELSE 0]
                    : n \in {NCases, CASENUMBER_MAX}}
  /\ offset = [r \in Reader |-> 0]
  /\ min_offset = 0
  /\ \/ /\ store = "none"
        /\ class = [r \in Reader |-> IF r = First THEN "source" ELSE "none"]
        /\ source \in [length : {NCases}, taken : {0}, bad : 0 .. NCases + 1]
        /\ window = casewindow_create(MaxInCore)
     \/ /\ store = "writer"
        /\ class = [r \in Reader |-> "none"]
        /\ source = [length |-> 0, taken |-> 0, bad |-> NCases + 1]
        \* autopaging_writer_create, mem_writer_create, tmpfile_writer_create
        /\ window \in {casewindow_create(m) : m \in {MaxInCore, CASENUMBER_MAX, 0}}
  /\ subreader = [open |-> FALSE, n_cases |-> 0]
  /\ tainted = {}
  /\ call = Idle
  /\ count = Idle
  /\ reply = NoCase
  /\ aborted = FALSE

-----------------------------------------------------------------------------
(* The casewriter.                                                         *)
casewriter_write(good) ==
  /\ store = "writer"
  /\ source.taken < NCases
  /\ source' = [source EXCEPT !.length = @ + 1, !.taken = @ + 1]
  /\ window' = casewindow_push_head(window, source.taken + 1, good)
  /\ UNCHANGED <<readers, store, subreader, tainted, call, count, reply, aborted>>

casewriter_make_reader ==
  /\ store = "writer"
  /\ store' = "window"
  /\ class' = [class EXCEPT ![First] = "random"]
  /\ n_cases' = [n_cases EXCEPT ![First] = casewindow_get_n_cases(window)]
  /\ UNCHANGED <<offset, min_offset, window, subreader, source, tainted,
                 call, count, reply, aborted>>

-----------------------------------------------------------------------------
(* The start of a call.                                                    *)
NoCall == call = Idle /\ ~aborted
Client(r) == NoCall /\ count = Idle /\ r \in Live

(* casereader_read and casereader_peek beyond the limit.                   *)
ReadNothing(r) ==
  /\ Client(r)
  /\ n_cases[r] = 0
  /\ reply' = NoCase
  /\ UNCHANGED <<readers, backend, source, tainted, call, count, aborted>>

PeekNothing(r, idx) ==
  /\ Client(r)
  /\ idx >= n_cases[r]
  /\ reply' = NoCase
  /\ UNCHANGED <<readers, backend, source, tainted, call, count, aborted>>

(* casereader_read within it: the limit goes down before ->read is called. *)
StartRead(r) ==
  /\ n_cases[r] # 0
  /\ n_cases' = [n_cases EXCEPT ![r] = Less(@)]
  /\ call' = [op |-> "read", r |-> r, depth |-> 0]
  /\ UNCHANGED <<class, offset, min_offset, backend, source, tainted, reply, aborted>>

casereader_read(r) == Client(r) /\ StartRead(r) /\ UNCHANGED count

casereader_peek(r, idx) ==
  /\ Client(r)
  /\ idx < n_cases[r]
  /\ call' = [op |-> "peek", r |-> r, depth |-> idx]
  /\ UNCHANGED <<readers, backend, source, tainted, count, reply, aborted>>

casereader_clone(r, new) ==
  /\ Client(r)
  /\ class[new] = "none"
  /\ call' = [op |-> "clone", r |-> r, new |-> new]
  /\ UNCHANGED <<readers, backend, source, tainted, count, reply, aborted>>

(* casereader_count_cases (max = CASENUMBER_MAX) and casereader_truncate   *)
(* on a reader of unknown length: a clone is read to its end, or to `max'. *)
casereader_count(r, new, max) ==
  /\ Client(r)
  /\ n_cases[r] = CASENUMBER_MAX
  /\ class[new] = "none"
  /\ call' = [op |-> "clone", r |-> r, new |-> new]
  /\ count' = [op |-> "count", r |-> r, clone |-> new, max |-> max, i |-> 0,
               more |-> TRUE]
  /\ UNCHANGED <<readers, backend, source, tainted, reply, aborted>>

(* casereader_truncate on a reader of known length.                        *)
casereader_truncate(r, n) ==
  /\ Client(r)
  /\ n_cases[r] # CASENUMBER_MAX /\ n_cases[r] > n
  /\ n_cases' = [n_cases EXCEPT ![r] = n]
  /\ UNCHANGED <<class, offset, min_offset, backend, source, tainted, call, count,
                 reply, aborted>>

casereader_force_error(r) ==
  /\ Client(r)
  /\ tainted' = tainted \cup {IF class[r] = "source" THEN "source" ELSE "reader"}
  /\ UNCHANGED <<readers, backend, source, call, count, reply, aborted>>

-----------------------------------------------------------------------------
(* Inside a call.                                                          *)

(* casereader_shim_insert, for a peek at or a clone of a sequential reader, *)
(* the only one there is: it becomes a random reader over an empty window, *)
(* the old one becomes the shim's subreader, and errors of the old one are *)
(* errors of the new one.                                                  *)
casereader_shim_insert ==
  /\ call.op \in {"peek", "clone"} /\ class[call.r] = "source"
  /\ class' = [class EXCEPT ![call.r] = "random"]
  /\ offset' = [offset EXCEPT ![call.r] = 0]
  /\ min_offset' = 0
  /\ store' = "shim"
  /\ window' = casewindow_create(MaxInCore)
  /\ subreader' = [open |-> TRUE, n_cases |-> n_cases[call.r]]
  /\ tainted' = tainted \cup (IF "source" \in tainted THEN {"reader"} ELSE {})
  /\ UNCHANGED <<n_cases, source, call, count, reply, aborted>>

(* random_reader_clone: the clone starts where its original stands.        *)
random_reader_clone ==
  /\ call.op = "clone" /\ class[call.r] = "random"
  /\ class' = [class EXCEPT ![call.new] = "random"]
  /\ n_cases' = [n_cases EXCEPT ![call.new] = n_cases[call.r]]
  /\ offset' = [offset EXCEPT ![call.new] = offset[call.r]]
  /\ call' = Idle
  /\ UNCHANGED <<min_offset, backend, source, tainted, count, reply, aborted>>

(* The place in the window that the call asks for.                         *)
Wanted == offset[call.r] - min_offset + call.depth
AsksUnlessBroken ==   \* mutant: the loop gives up on a broken file without an answer
  call.op \in {"read", "peek"} /\ class[call.r] = "random" /\ ~window.broken
Asks == call.op \in {"read", "peek"} /\ class[call.r] = "random"
InWindow == casewindow_get_n_cases(window) > Wanted

(* Reading the sequential source with the given limit.                     *)
SourceHas(limit) ==
  limit # 0 /\ source.taken < source.length /\ source.taken # source.bad
SourceFails(limit) == limit # 0 /\ source.taken = source.bad

(* buffer_case, the body of the shim's loop: a case moves from the         *)
(* subreader to the window's head, or the subreader is found exhausted and *)
(* is destroyed.                                                           *)
BufferSilently(good) ==   \* mutant: the shim's taint does not follow the subreader's
  /\ Asks /\ ~InWindow /\ subreader.open
  /\ IF SourceHas(subreader.n_cases)
       THEN /\ source' = [source EXCEPT !.taken = @ + 1]
            /\ window' = casewindow_push_head(window, source.taken + 1, good)
            /\ subreader' = [subreader EXCEPT !.n_cases = Less(@)]
       ELSE /\ subreader' = [open |-> FALSE, n_cases |-> 0]
            /\ UNCHANGED <<source, window>>
  /\ UNCHANGED <<readers, store, tainted, call, count, reply, aborted>>
buffer_case(good) ==
  /\ Asks /\ ~InWindow /\ subreader.open
  /\ IF SourceHas(subreader.n_cases)
       THEN /\ source' = [source EXCEPT !.taken = @ + 1]
            /\ window' = casewindow_push_head(window, source.taken + 1, good)
            /\ subreader' = [subreader EXCEPT !.n_cases = Less(@)]
            /\ UNCHANGED tainted
       ELSE /\ subreader' = [open |-> FALSE, n_cases |-> 0]
            /\ tainted' = tainted \cup
                 (IF SourceFails(subreader.n_cases) THEN {"source", "reader"} ELSE {})
            /\ UNCHANGED <<source, window>>
  /\ UNCHANGED <<readers, store, call, count, reply, aborted>>

(* advance_random_reader, once the readers `rs' stand at `offs': the window *)
(* `w' drops the cases that all of them have passed.                       *)
AdvanceToLast(offs, rs, w) ==   \* mutant: the heap is ordered the wrong way round
  LET new == CHOOSE o \in {offs[r] : r \in rs} : \A r \in rs : o >= offs[r]
  IN  /\ min_offset' = new
      /\ aborted' = FALSE
      /\ window' = casewindow_pop_tail(w, new - min_offset)
AdvanceFromStart(offs, rs, w) ==   \* mutant: min_offset is not brought up to date
  LET n == CHOOSE o \in {offs[r] : r \in rs} : \A r \in rs : o <= offs[r]
  IN  /\ aborted' = (n > casewindow_get_n_cases(w))
      /\ window' = IF aborted' THEN w ELSE casewindow_pop_tail(w, n)
      /\ UNCHANGED min_offset
advance_random_reader(offs, rs, w) ==
  LET new == CHOOSE o \in {offs[r] : r \in rs} : \A r \in rs : o <= offs[r]
      n   == new - min_offset
  IN  /\ min_offset' = new
      \* assert (new >= old), and those of casewindow_memory_ and _file_pop_tail
      /\ aborted' = (new < min_offset \/ (~w.tainted /\ n > casewindow_get_n_cases(w)))
      /\ window' = IF aborted' THEN w ELSE casewindow_pop_tail(w, n)

(* What a call on a reader tells its caller: the client, or the counting   *)
(* loop, casereader_advance.                                               *)
Return(c) ==
  /\ call' = Idle
  /\ IF count = Idle
       THEN /\ reply' = c
            /\ UNCHANGED count
       ELSE /\ count' = IF c = NoCase THEN [count EXCEPT !.more = FALSE]
                                      ELSE [count EXCEPT !.i = @ + 1]
            /\ UNCHANGED reply

(* The limit after a call came back empty-handed.                          *)
Spent(r) ==
  IF call.op = "read" THEN 0
  ELSE LET left == IF casereader_error(r) THEN 0 ELSE n_cases[r]
       IN  IF left > call.depth THEN call.depth ELSE left

(* random_reader_read and random_reader_peek find the case in the window.  *)
Deliver(readable) ==
  LET c  == casewindow_get_case(window, Wanted, readable)
      on == [offset EXCEPT ![call.r] = @ + 1]
  IN  /\ Asks /\ InWindow
      /\ IF call.op = "read" /\ c # NoCase
           THEN /\ offset' = on
                /\ advance_random_reader(on, Live, AfterGet(window, readable))
           ELSE /\ window' = AfterGet(window, readable)
                /\ UNCHANGED <<offset, min_offset, aborted>>
      /\ n_cases' = IF c = NoCase THEN [n_cases EXCEPT ![call.r] = Spent(call.r)]
                                  ELSE n_cases
      /\ Return(c)
      /\ UNCHANGED <<class, store, subreader, source, tainted>>

(* They do not, and there is nothing left to buffer.                       *)
Exhausted ==
  /\ Asks /\ ~InWindow /\ ~subreader.open
  /\ n_cases' = [n_cases EXCEPT ![call.r] = Spent(call.r)]
  /\ Return(NoCase)
  /\ UNCHANGED <<class, offset, min_offset, backend, source, tainted, aborted>>

(* ->read of the sequential source, with no shim in between.               *)
ReadSource ==
  /\ call.op = "read" /\ class[call.r] = "source"
  /\ LET found == SourceHas(1)   \* the limit was positive when the call began
     IN  /\ Return(IF found THEN source.taken + 1 ELSE NoCase)
         /\ n_cases' = IF found THEN n_cases ELSE [n_cases EXCEPT ![call.r] = 0]
         /\ source' = IF found THEN [source EXCEPT !.taken = @ + 1] ELSE source
         /\ tainted' = IF SourceFails(1) THEN tainted \cup {"source"} ELSE tainted
  /\ UNCHANGED <<class, offset, min_offset, backend, aborted>>

-----------------------------------------------------------------------------
(* The end of a reader.                                                    *)

(* random_reader_destroy: the last reader takes the window, and what is    *)
(* left of the source, with it.                                            *)
Drop(r) ==
  /\ class' = [class EXCEPT ![r] = "none"]
  /\ IF Live = {r}
       THEN /\ store' = "none"
            /\ window' = casewindow_create(MaxInCore)
            /\ subreader' = [open |-> FALSE, n_cases |-> 0]
            /\ min_offset' = 0
            /\ UNCHANGED aborted
       ELSE /\ advance_random_reader(offset, Live \ {r}, window)
            /\ UNCHANGED <<store, subreader>>
  /\ offset' = [offset EXCEPT ![r] = 0]
  /\ UNCHANGED <<source, tainted>>

casereader_destroy(r) ==
  /\ Client(r)
  /\ Drop(r)
  /\ n_cases' = [n_cases EXCEPT ![r] = 0]
  /\ UNCHANGED <<call, count, reply>>

(* casereader_advance on the clone that counts, ...                        *)
CountRead ==
  /\ NoCall /\ count # Idle
  /\ count.more /\ count.i < count.max
  /\ \/ StartRead(count.clone) /\ UNCHANGED count
     \/ /\ n_cases[count.clone] = 0
        /\ count' = [count EXCEPT !.more = FALSE]
        /\ UNCHANGED <<readers, backend, source, tainted, call, reply, aborted>>

(* ... and the clone's end: what it counted becomes the reader's limit.    *)
CountEnd ==
  /\ NoCall /\ count # Idle
  /\ ~count.more \/ count.i >= count.max
  /\ Drop(count.clone)
  /\ n_cases' = [n_cases EXCEPT ![count.clone] = 0, ![count.r] = count.i]
  /\ count' = Idle
  /\ UNCHANGED <<call, reply>>

-----------------------------------------------------------------------------
Internal ==
  \/ casereader_shim_insert
  \/ random_reader_clone
  \/ \E good \in Writes : buffer_case(good)
  \/ \E readable \in Readable : Deliver(readable)
  \/ Exhausted
  \/ ReadSource
  \/ CountRead
  \/ CountEnd

External ==
  \/ \E good \in Writes : casewriter_write(good)
  \/ casewriter_make_reader
  \/ \E r \in Reader :
       \/ ReadNothing(r)
       \/ casereader_read(r)
       \/ \E idx \in 0 .. NCases : PeekNothing(r, idx) \/ casereader_peek(r, idx)
       \/ \E new \in Reader :
            \/ casereader_clone(r, new)
            \/ \E max \in {CASENUMBER_MAX} \cup 0 .. NCases : casereader_count(r, new, max)
       \/ \E n \in 0 .. NCases : casereader_truncate(r, n)
       \/ casereader_force_error(r)
       \/ casereader_destroy(r)

Next == Internal \/ External

(* A call, once made, runs to its end.                                     *)
Spec == Init /\ [][Next]_vars /\ WF_vars(Internal)

-----------------------------------------------------------------------------
(* Properties.                                                             *)

(* Readers, window, source and the call in progress have their types.      *)
TypeOK ==
  /\ class \in [Reader -> {"none", "source", "random"}]
  /\ n_cases \in [Reader -> (0 .. NCases) \cup {CASENUMBER_MAX}]
  /\ offset \in [Reader -> 0 .. NCases]
  /\ min_offset \in 0 .. NCases
  /\ store \in {"none", "writer", "window", "shim"}
  /\ subreader \in [open : BOOLEAN, n_cases : (0 .. NCases) \cup {CASENUMBER_MAX}]
  /\ source \in [length : 0 .. NCases, taken : 0 .. NCases, bad : 0 .. NCases + 1]
  /\ tainted \subseteq {"source", "reader"}
  /\ aborted \in BOOLEAN

(* The window holds exactly what some clone may still ask for: it begins   *)
(* where the hindmost clone stands and reaches at least to the foremost.   *)
(* Otherwise a clone would miss cases, or memory would never be given back. *)
WindowTight ==
  LET rs == {r \in Reader : class[r] = "random"}
  IN  rs # {} =>
        /\ \A r \in rs : offset[r] >= min_offset
        /\ \E r \in rs : offset[r] = min_offset
        /\ \A r \in rs : offset[r] <= min_offset + casewindow_get_n_cases(window)

(* No assertion of casewindow.c fails: the window is never asked to drop   *)
(* more cases than it holds (casewindow_memory_pop_tail and _file_pop_tail). *)
AssertionsHold == ~aborted

(* casereader_error is true once an I/O error has occurred on the temporary *)
(* file that holds the reader's cases.                                     *)
TempErrorKnown == window.broken => \A r \in Live : casereader_error(r)

(* However the temporary file fails, what the window still holds are cases *)
(* of the source, in their order, none twice.                              *)
InOrder ==
  LET cs == Contents(window)
  IN  \A i, j \in DOMAIN cs : i < j => cs[i] < cs[j]

(* Every call returns: the loops that fill the window come to an end.      *)
CallsReturn == call # Idle ~> call = Idle
=============================================================================
