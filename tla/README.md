# PSPP in TLA+

PSPP is an interpreter of a statistical command language. A command reads or
replaces the *active dataset*, queues transformations on it, or runs a
*procedure* that passes over all its cases. The program is a single process
with a single thread; nearly everything hard in it comes from *lazy work in
shared objects*: readers that are cloned and buffered on demand, transformations
that run long after the command that queued them, output files that stay open
from one command to a much later one, and errors that surface where nobody asks.
This directory holds models of that core, the TLC configurations that check
them, and proofs, checked by TLAPS, of what matters most.

Paths below are relative to the repository's root (`src/data/dataset.c` and so on).

## 1. Inventory

### 1.1 The parts that are modelled

**Taint graph** (`src/libpspp/taint.c`, `taint.h`). State: reference counted nodes
with two flags and two lists of neighbours. Operations: create, clone, destroy,
propagate, set, reset. Whoever moves cases owns a node; an edge says that an I/O
error behind one object spoils another. Correct when the lists of an edge agree and
hold no freed node, when a taint has reached everything derived from its object
and is known to everything its object is derived from, and when destroying an
object in the middle of a chain, or of a loop, loses no path.

**Case window and temporary file** (`src/data/casewindow.c`, `case-tmpfile.c`,
`src/libpspp/ext-array.c`). State: a deque, or a file with a head and a tail, a
sticky error. Operations: push, pop, get, spill to disk. Correct when it is a queue
that keeps to its limit in memory, wherever it lives and however often it empties.

**Case readers, shim and window writers** (`src/data/casereader.c`,
`casereader-shim.c`, `casewriter.c`). State: each reader's upper limit of cases
left, the offsets of all clones into a shared window, the window, the subordinate
reader, taints. Operations: read, peek, clone, destroy, truncate, count, force an
error; write and turn a writer into a reader. A clone or peek of a sequential
reader slips a shim under it. Correct when every clone reads one and the same
sequence, nobody mistakes an error for the end, memory is given back as soon as
nobody needs it, and calls return.

**Dataset and procedures** (`src/data/dataset.c`, `transformations.c` and the
commands that use them). State: dictionary and permanent dictionary, source and sink,
two chains of transformations, the deque behind `LAG`, the state of the procedure.
Operations: queue, start and end `TEMPORARY`, cancel, open a procedure, read a case,
close, commit, replace, delete columns, clear. Correct when a session does to the
data what applying every transformation to the whole file would, whatever a
procedure reads or leaves unread, and when dictionary and data always fit.

**File locks** (`src/data/file-handle-def.c`), **atomic file replacement**
(`src/data/make-file.c`) and **their clients** (system file reader and writer, data
file reader and writer, `ERASE`). State: the lock table with its counts and the
objects that lock holders share, open streams, temporary files and the list of
those to be deleted by a fatal signal, whether signals are blocked. Correct when two
writers of a name never have two streams, when a file under its name is always
complete, when readers are not disturbed, and when no temporary file is forgotten.

**Sorting and merging** (`src/math/sort.c`, `src/math/merge.c`). State: a heap of records
tagged with the run they are for, the run being written and its last case, the runs
waiting to be merged. Operations: write a case, turn the writer into a reader; inside,
replacement selection and merges of a limited number of runs. Correct when the reader
has every case once, in order, equal keys as they came, whatever the memory.

**Session and `DATASET` commands** (`src/data/session.c`, `src/language/commands/dataset.c`
and the commands that read or write a dataset by name). State: the set of datasets,
their names, the active one. Operations: `DATASET NAME`, `ACTIVATE`, `COPY`, `DECLARE`,
`CLOSE`, reading and replacing a named dataset. Correct when every name leads to one
dataset with the contents that the commands gave it, and when nothing is pending on a
dataset that is not active, for no procedure would ever run it.

**Control structures and input programs** (`do-if.c`, `loop.c`, `inpt-pgm.c` and
`select-if.c` under `src/language/commands/`, `src/data/transformations.c`), and what
`src/data/caseinit.c` puts into a new case. State: in every `DO IF`, `LOOP` and
`END CASE` the place at which it resumes, the counters of each loop, the saved left values.
Operations: execute a chain until a case is complete, and again for the next one.
Correct when a chain that is entered again from the outside for every case does what a
program does that is just left off and continued.

### 1.2 How they meet

* A source (a system file, a procedure, ...) is a *casereader* whose taint is
  joined to the source's. Clones go through the *shim*, which owns a *case window*;
  the taint of the window, of the temporary file and of the readers are one chain in
  the *taint graph*. `CaseReader` sees this graph as the set of two taints, the one of
  the source and the one all clones share; the edges are `Taint`'s matter.
* A *dataset* owns one casereader, its source. A procedure gets another one that reads
  the source, runs the chains and writes to the sink; its commit makes the sink, a
  *casewriter* turned reader, the next source. `dataset_end_of_command` consults
  the source's taint and clears the dataset when it is set.
* Transformations such as `PRINT` and `XSAVE` hold *file handles* locked from the
  command that declares them to the procedure that executes them. So several
  clients are between their calls at any time although the program is
  sequential, and a signal may end it between any two system calls.
* The *sorting writer* holds its runs in casewriters and reads them back as casereaders;
  `SORT CASES` gives its reader to the dataset as its new source.
* A *session* owns datasets. `Session` keeps of each what `Dataset` keeps in detail, as
  counts. A *chain of transformations*, of a dataset or of an input program, runs
  for each case that is asked for; `Dataset` takes a transformation as one step, `Control`
  says what the steps of nested ones are.

### 1.3 What is hard

There are no threads. Interleaving means: calls of several clients of one object in
an order that no test tries, clients of different commands, and signals. The hazards
are listed one by one, each at its line, in `PROJECT.json`. In short: shared
state whose owner is replaced under it (the shim), limits that are inherited,
lowered and copied (`n_cases`), errors inside loops (the shim, the spill to disk),
chains that are queued in one command and cancelled in another (`TEMPORARY`,
measurement level guesses, filters, limits), two dictionaries for one file,
identities of files that change when a file comes into being, the steps of
replacing a file, each of which can fail or be the last, equal keys across runs and
merges of runs, names that move from one dataset to another while both exist, and
places kept inside nested chains that a `BREAK`, an error or the end of the data leaves
behind.

### 1.4 What is not modelled, and why

| Part | Reason |
|---|---|
| Derived case readers, output engine | in the plan (section 7) |
| Dictionary and variables | `Dataset` keeps what it needs of one (columns, filter, limit, unknown measurement levels); the index maps are in the plan |
| Datasheet | in the plan; it already has an explicit-state checker in `src/language/tests/datasheet-check.c` |
| Lexer, segmenter, macros | the stack of sources and the lookahead are in the plan; character states are served by the tests |
| Command dispatch | a table, `command.def`; `ERASE` and `NEW FILE` are modelled |
| Cases and their references | a case is one datum; `Dataset` tracks the one sharing that matters to it |
| Data transformations, expressions, statistical procedures | what is computed from a case or a pass is arithmetic; when it is computed is in `Dataset` |
| Values and formats, file formats, messages and encodings | conversions of text, bytes and floating point |
| Output drivers and tables, terminal and graphical interface, Perl module and utilities | layout, input and thin clients |
| Containers | each has an exhaustive test of its own; sequences, sets and functions take their place |

## 2. The modules

### Taint: `Taint`, `TaintSpec`, `MCTaint`, `TaintProofs`

`Taint` has one variable for each field of `struct taint`, as functions on the
addresses `Node`; `ref_cnt[n] = 0` is memory that is not a taint, which a later
`taint_create` may be given. One action per function; `taint_destroy` is two,
`taint_release` for an owner of several and `taint_destroy` for the last, which joins
every predecessor to every successor before it goes. The recursive walks that stop at marked
nodes are `Flood`, the least set closed under unmarked neighbours: what the walk visits,
without recursion, so that TLAPS can reason about it.

`TaintSpec` is what `taint.h` promises, without graph and walks: a transitive
relation `derives`, and who is tainted or suspect. Destroying an object there
removes only the pairs that name it. `MCTaint` maps the graph to it (reachability).

### Case readers: `CaseStore`, `CaseWindow`, `CaseQueue`, `CaseWindowProofs`, `CaseReader`, `CaseStream`, `MCCaseReader`, `CaseReaderProofs`

`CaseStore` is the window as a value with the functions of `casewindow.c` as operators,
I/O results as arguments; both other modules build on it. `CaseWindow` is one window
with its owner's calls and refines `CaseQueue`, a plain queue.

`CaseReader` has a reader per address in `Reader`. A call that the reader can
answer at once is one action; one that needs the window or the source sets `call`, and
its loop runs in steps (`buffer_case`, `ReadSource`, `Deliver`, `Exhausted`,
`CountRead`, ...), because the source or the temporary file may fail at
each turn. `source.bad` is the read at which the source fails. `aborted` says that
an assertion of `casewindow.c` has failed. `CaseStream` is what a client is promised
of a reader and its clones: places in one sequence, and no early end without
`casereader_error`. `MCCaseReader` maps a random reader's place in the window to its
place in the sequence.

### Dataset: `Dataset`, `ActiveFile`, `MCDataset`, `DatasetProofs`

`ds` is `struct dataset`; each function of `dataset.c` that changes it is an operator
from datasets to datasets under its own name, and actions compose them as the
commands do. A transformation is a record of its kind and its counter; a chain is a
sequence. `trns_chain_execute` says what its loop leaves behind: no transformation
changes the `x` of a case, which decides what each does, so those `Reached` are known in advance
and a variable has the value of the last of them that sets it. A procedure is a command in
progress: it reads (`Read`, `ReadCase`, `ReadEnd`) as long as it likes, then lets go of
its reader, which drains what is left (`Destroy`, `ReadCase`, `Close`), and commits. Five
procedures stand for the ways the code opens one: *statistics* filters,
*save unselected* does not, *sort cases* cancels `TEMPORARY`, discards the output and
sets its own source, *z scores* makes temporary transformations permanent, and
*rank* adds the `$ORDER` variable. `SORT VARIABLES` stands for the users of
`proc_execute`: with something pending it runs a procedure, with nothing pending
(`Trivial`) it only resets, in one step.

`ActiveFile` is what a user is promised: no readers, counters or deques;
a procedure applies each pending transformation to the whole file before the next.
`MCDataset` maps to it; while a procedure runs, the file is still the one it found.

### Files: `FileHandle`, `FileAccess`, `MCFileAccess`, `FileAccessProofs`

`FileHandle` has the key of a name, and lock and unlock as operators on the table.
`FileAccess` has the directory, inodes, the table, and a record per client, which
opens one file once. Opening, writing and closing are split where the code makes
system calls: `OpenWriter`, `StartReplace` (blocks signals), `CreateTemp`, `Register`,
`Write`, `CloseWriter`, `fclose`, `BlockSignals`, `replace_file_commit` or
`replace_file_abort`; each has its failures. `unlink_replace_files` is the signal
handler, at any step where signals are not blocked. A program that is killed outright
leaves the disk as it is, and every invariant on the disk covers that.
A file's content is the set of clients whose output it has and whether it is all
there; an inode without name and opener can be used again.

### Sorting: `StableSort`, `SortWriter`, `MCSortWriter`, `SortProofs`

`SortWriter` has the fields of `struct sort_writer`, `struct pqueue` and `struct merge`.
Every turn of a loop is an action: `Write` makes room through `OutputRecord`, which
ends the run when the least record is for the next one and hands it over
(`merge_append`); too many runs start `do_merge`, whose turns (`MergeCase`) pick the least of
the heads of the runs. `pc` says where the program is. A case is its key and its turn of
arrival. `Workspace` is what `settings_get_workspace_cases` may
answer, `MAX_MERGE_ORDER` the constant of that name. `StableSort` is the promise: the
cases written, sorted by definition.

### Sessions: `SessionSpec`, `Session`, `MCSession`, `SessionProofs`

`Session` writes `session.c` as functions on a record of datasets, active dataset and
names (`Lookup`, `Add`, `Remove`, `dataset_set_name`, composed as in the code), and the
commands as actions. `proc_execute` and `dataset_clone` with their assertions are there,
so `failed` says which one has failed. `SessionSpec` has no pointers: contents by name,
as `doc/data-io.texi` tells it; pending transformations count as executed. Each command
has an effect of its own there: `EXECUTE` and `TEMPORARY` show none at all, `MATCH FILES`
makes the active dataset what the one of the given name is, and `AGGREGATE` gives
new data to the one of the given name and leaves the active one alone, which it does
only because it commits its procedure before it hands the output over.

### Control structures: `ControlSpec`, `Control`, `MCControl`, `ControlProofs`

`Control` executes a program of blocks. `stack` has an execution of
`trns_chain_execute` per nested chain, `saved` what each transformation keeps until the
case after: `resume` of `DO IF`, `resume_idx` of `LOOP`, the flag of `END CASE`. Results
(`TRNS_BREAK`, `TRNS_DROP_CASE`, ...) travel from the inside out one step at a time. `ReadCase` and
`BeginCase` are the readers, of an input program and of a procedure; conditions yield
what they like at each evaluation. `ControlSpec` has a sequence of statements still to be
executed in place of all this, and `MCControl` computes it from stack, places and
counters: what follows is in the block, behind the block, and in the loop's passes to come.

An input program has `DATA LIST`, which reads a record or finds none, or `END FILE`, for
the parser refuses others. The bounds of an index may be missing. `SYSMIS` is the least
finite number (`src/data/val-type.h`), so `isfinite` in `loop.c` throws no missing bound out,
and they are compared and added as any number is (`Plus`). What is added to a
missing value is lost in rounding, as is a small number that is added to a large one: here,
what would go beyond `Exact`. `ControlSpec` writes the same as the values that the
index takes, of which the last may be taken for ever. `SELECT IF` that drops a case
in `LOOP` sets `failed`: the program is aborted there.

## 3. What the runs check

| Run | Bounds | Distinct states | Shows |
|---|---|---|---|
| `taint` | 3 nodes, 2 owners each | 3,731 | all orders of building, tainting, resetting and destroying graphs keep the invariants stated at the top of `taint.c` and refine `TaintSpec` |
| `case_window` | at most 2 in memory, 7 cases | 575 | window on disk from the start, after one case or after two refines `CaseQueue` |
| `case_reader` | 3 readers, 2 cases, 1 in memory | 356,065 | clones of one source or window, whose source may fail at any read, refine `CaseStream`; the window is tight; no assertion fails |
| `case_reader_faults` | 2 readers, 3 cases, 2 in memory, faulty temporary file | 224,765 | cases in the window stay in order and every call returns |
| `dataset` | 3 cases, 2 pending transformations, `LAG` up to 2, one case dropped, one that fails | 410,878 | sessions with `TEMPORARY`, `LAG`, `DELETE VARIABLES`, `NEW FILE` and failing sources refine `ActiveFile`; dictionary and data fit; guesses see the new file |
| `dataset_limits` | 3 cases, `N OF CASES 2`, one case filtered, one dropped | 404,439 | limits and filters, before procedures that filter and that do not, `RANK` and `SORT VARIABLES` among them, refine `ActiveFile`; a limit waits until a procedure applies it, and only `SORT VARIABLES` with nothing pending discards it |
| `file_access` | 2 names, 3 files and a device, 3 clients | 837,950 | writers share one stream, files are replaced whole or not at all, readers keep what they opened, and no temporary file is forgotten |
| `sorting` | 7 cases, 4 keys, 2 in memory, merges of 3 runs | 427,925 | runs and merges of runs refine `StableSort`; runs are as long as memory |
| `session` | 2 names, 4 datasets, 2 variables | 22,184 | any sequence of `DATASET` commands and of commands between them refines `SessionSpec`: every name has what the commands gave it, and a command changes no other name's contents |
| `control` | every program of one structure in another, around one or two statements, with a statement behind each or behind none; `MXLOOPS` 2, eight loop clauses, `Exact` 2, `SYSMIS` -5 | 596,588 | chains left and resumed at every `END CASE` refine `ControlSpec`; no place is left over; a procedure's chain ends unless an index counts from or to a missing value |
| `temp_error_unknown` | as `case_reader_faults` | violation | finding 1 |
| `left_value_lost` | as `control` | violation | finding 2 |

Every property of a passing run has a mutant in `PROJECT.json`, a plausible slip
in the code that the run detects: a dropped mark, a filter for good, a
file written in place, a lock that the first to leave removes.

### The properties

* `Taint`: `ListsMirror` (no list holds a freed node, both lists of an edge agree),
  `SuccessorsTainted`, `PredecessorsSuspect` (the two invariants of the comment in
  `taint.c`), `Refines`.
* `CaseWindow`: `WithinCore`, `IsQueue`. `CaseReader`: `WindowTight` (the window holds
  exactly what some clone may still ask for), `AssertionsHold`, `InOrder`, `IsStream`,
  `CallsReturn`, and `TempErrorKnown`, which is violated.
* `Dataset`: `DictFitsData`, `GuessSeesTheFile`, `LimitKept` (whatever a step does, a limit that
  waited still waits, until a procedure applies it; the one exception is `SORT VARIABLES` with
  nothing pending, section 5), `IsActiveFile`.
* `FileAccess`: `WritersShare`, `OwnStream`, `WholeFiles`, `NoLitter`, `Snapshot`,
  `OpensCurrentFile`.
* `SortWriter`: `RunsOrdered` (every run, finished or in the making, is sorted and stable),
  `NothingLost`, `LongRuns` (replacement selection never makes a run shorter than memory
  while cases arrive), `WithinBounds` (of the two arrays), `IsStableSort`.
* `Session`: `NamesReach`, `NothingPending`, `IsSession`.
* `Control`: `OneWayBack` (between cases the places kept lead from the outermost chain to
  the `END CASE` that ended the last case and nowhere else), `TotalInProcedures`,
  `IsControl`, `CasesEnd`, and `RunningTotal`, which is violated.

### Why the bounds are enough

* Three nodes make chains, forks, joins and loops with a middle to destroy, and one
  address to use again. `MaxRef` 2 is the least that tells an owner from the last one.
* Seven cases let a window spill, empty, start again at slot 0 and fill up once more.
  Three readers are a hindmost, a foremost and one between; with two cases and one
  in memory the spill happens while they are apart. `CASENUMBER_MAX` is 9, above every
  count, so that "not known" stays distinct.
* Three cases are a first, one that is dropped and a last; deques of one and two fill up and
  overflow. Two pending transformations come in each order on either side of
  `TEMPORARY`. Limits and filters are in a run of their own, because a product with
  `LAG` would only multiply the states: `LAG` reads the cases written, the limit counts them.
* Two names and three clients let two clients share a lock while a third replaces,
  erases or reads their file; three inodes let one be replaced, one be written and one be
  open to a reader, and an erased one be used again. Clients, names and files
  are symmetric.
* Seven cases through a heap of two make up to four runs, more than the three that are
  merged at once, so a merged run is merged again; four keys allow an ascending stretch, a
  descending one and equal keys in one input.
* Two names and the empty one let a dataset lose its name to another, be copied over the
  active one and be declared anew; four addresses are one more than datasets can exist at
  once. One transformation and one history step tell a pending from an executed one;
  addresses are symmetric.
* One structure in another is where a place must be kept at two levels, and a
  statement behind each is where a wrong place would lead. Of eight clauses, one counts
  up, one down, one never moves and one never begins; the other four have a missing first, by
  or last value, or two of them: a single pass, a pass with a missing index behind
  the first, a count that never leaves the missing value, and one that never comes to it.
  `Exact` 2 is reached within three passes and `SYSMIS` -5 is below every exact sum.
  `MXLOOPS` 2 makes the limit bite before the condition does and after. Two loops in one
  another both have a condition or neither does.

### Where a run may stop

`CHECK_DEADLOCK FALSE` is given where the modelled program really comes to an end:
all cases pushed and popped or all readers destroyed (`case_window`, `case_reader`,
`case_reader_faults`, `temp_error_unknown`), a failed assertion of `dataset.c`
(`dataset`, `dataset_limits`, `session`), every client done or a fatal signal (`file_access`), the
reader made (`sorting`), the end of the data or `NOT_REACHED` (`control`,
`left_value_lost`). `taint` checks for deadlock.

### Fairness

Two modules assume it, both of the same kind: weak fairness of the steps of a call that
has been made (the internal steps of `CaseReader`, `Step` of `Control`). That is sequential execution: the program does nothing else
until the call returns. Nothing is assumed of clients, sources, conditions or the temporary
file. The other modules have safety properties only, and refinements without fairness.

## 4. What is proved

### `TaintProofs`: any number of nodes and owners

Theorems `ListsConsistent`, `TaintReachesSuccessors` and
`TaintKnownUpstream` state `ListsMirror`, `SuccessorsTainted` and
`PredecessorsSuspect` of every behaviour, from `MaxRefAssumption` alone (there is
an owner to count).

`PredecessorsSuspect` speaks of predecessors near and far, but the code looks only at
neighbours and stops at marks. The inductive invariant `IInv` therefore has
`SuspectUpward`: the marks are closed one edge at a time, along every edge and not
only above tainted nodes. A walk that stops at marked nodes loses nothing because all
behind a mark is marked already; this is the lemma `EdgesMarked`, which covers
adding any set of edges and so both `taint_propagate` and the bridging in
`taint_destroy`. The lemmas on `Flood` say that it is a closed set, and the least.

`Implements` states `Refines`: the graph implements `TaintSpec`. Reachability is `Flood` with
nothing marked (`Reach`), so no path is ever constructed: that it composes (`ReachTrans`) and
reads the same from both ends (`ReachBack`) follows from its being the least closed set. A
walk past closed marks leaves out only what is marked (`FloodPastMarks`), so the marks after
new edges are what can be reached from the old ones (`MarksReach`). One more edge adds exactly
the pairs of `Derive` (`AddEdge`); bridging adds none (`BridgeReach`), and makes up for
every path through the destroyed node, loops included (`UnlinkReach`), so that `Destroy` changes no
other node's pairs or marks. `taint_reset_successor_taint` looks only at neighbours, and
`SuspectUpward` makes that enough for all that is further down (`ResetFollows`).

### `CaseWindowProofs`: any limit and any number of cases

`FirstInFirstOut` states `IsQueue`: a casewindow whose file works is the queue of
`CaseQueue`, step by step, wherever its cases are. `InMemory` states `WithinCore`. They
rest on `WindowAssumption` (both bounds are numbers). The invariant has `Sound`, the shape
of a window, among it that the file has at least `head` slots, for popping everything
goes back to slot 0 and leaves old cases behind; and `Held`, that no more cases are in use
than were pushed, so that the move to disk never runs out of writes. `Overwrite` is the
lemma behind the reuse of slots: what is put at `head` comes right behind the cases in
use, whether that slot is new or holds a case long gone. `PushAppends`, `PopRemoves` and
`GetFinds` are the three operations.

### `FileAccessProofs`: any number of names, files, devices and clients

`AtomicReplacement` states `WholeFiles`: at every step, at which the program may
fail or be killed, what has a name is complete and nobody is writing it.
`ReadersUndisturbed` states `Snapshot`. Both rest on `FileAssumption` (there are finitely
many clients; devices are files; a missing file is neither a file nor a name).

Neither is inductive: `IInv` adds `Apart` (a file that is being written has no name
and no other opener: true because it was created new and only the rename gives it a
name) and `CallOK` (what will be renamed was flushed: true because nothing is written
between `fclose` and `rename`), and the types of clients, streams, locks and calls.
`QuietStep` serves the actions that touch none of this; each of the others
has its lemma.

### `FileAccessProofs`, second part: locks, for the same

`LocksCounted` states the `TypeOK` of `FileAccess` (a lock has as many openers as clients
that hold it), `NamesShareStreams` states `WritersShare`, `StreamsKept` `OwnStream`,
`NothingLeftBehind` `NoLitter`, and `CurrentFile` the action property `OpensCurrentFile`.
With the first part, every property that `file_access` checks is proved.

The invariant `LInv` follows the table of locks. `LocksOK` and `HoldersOK` tie each lock
to its holders, the other way round, and to the client that made it, whose stream data file
clients share. The hard part is `NamesOK`: a lock is found by a key computed when it was
opened, and is compared with keys computed later, when the file of the name may have
come into being. The key of a writer is still the key of his name, unless the name was
erased, because the rename happens only when no one else has that stream or that name
(`CallsOK`, established by `CloseWriter`, which lets go of the lock before it closes, or
keeps an exclusive one). `StreamsOK` is `OwnStream` between any two steps, and `TempsOK` does
the same for `NoLitter`. `Leaves` and `Enters` count holders, which is where clients must
be finitely many.

### `SortProofs`: any keys, memory, number of cases and merge order

`Runs` states `RunsOrdered`, `Kept` states `NothingLost`, and `Result` follows from both: the
reader has the cases written and no others, sorted, equal keys in order of arrival. A
run stays sorted because all that the heap has for it comes after its last case, and what is
for the next run has a smaller key (`Queued`, `Placed`); hence of two equal keys the
earlier is never in a later run (`Stable`), which is what a merge that prefers the earlier
run needs. `Control` and `Numbered` say what holds at each `pc`.

`Implements` states `IsStableSort`: the writer is `StableSort`, every step of its loops a
stutter but the write and the return of the reader. `StableSort` finds a case's place by counting
the cases that are not after it; `SortedUnique` shows that only one sequence of the
cases is sorted, and that it is that one. `Bounded` states `WithinBounds`, with `BoundsInv`:
outside a merge the array of runs has room for one more, and when a record
has been popped the heap has room for the case that waits. `Long` states `LongRuns`, with
`LongInv`: what the current run has and will still get from the heap is never less than
memory, once it is the run of records that were pushed while the heap was full.

### `SessionProofs`: any names and datasets

`TypeCorrect` states `TypeOK`, `Reached` `NamesReach`, `Settled` `NothingPending`. The
session is a value there, so each function of `session.c` has one lemma (`Lookups`,
`Removes`, ...) on good sessions, those with unique names. `Orderly` says what
`TEMPORARY` leaves in a dataset, without which `proc_execute` could return with
transformations still pending, and that no dataset's data have more columns than its
permanent dictionary describes, without which a commit would not give a procedure's
output the contents that the dataset shows before.

`Implements` states `IsSession`, the refinement of `SessionSpec`. The mapping goes from
datasets to names, and names are unique, so a lemma of its own follows each way in
which a dataset changes (`WorkPuts`: the active one, in place; `SetPuts`: the one of a given
name, in place; `AddFollows`: one comes under a name, whoever had it before; ...), and each
command is one of those ways with contents of its own (`HeldExecuted`, `HeldSetDict`,
`HeldCleared`, ...).
`EmptyElsewhere`, that an address without a dataset has no contents, is the one
addition to the invariant. From `ContentsAssumption`: the null pointer, which stands for an absent dataset and
for absent data, is no contents and no count.

### `ControlProofs`: any parsed programs, any outcomes of conditions

`WayBack` states `OneWayBack` of any set of programs that nest as the parser makes
them nest (`ProgramsAssumption`: a block is inside one of a lower number, `END CASE`
is in input programs only, and those have `DATA LIST` or `END FILE`) and of any clauses,
missing bounds included (`ControlAssumption`). The invariant `WayInv` follows a case through the chains:
while the stack unwinds with `TRNS_END_CASE`, what has been stored so far leads from the
execution that is returning to the `END CASE`, and while a case is resumed, what is still
stored leads from the place that the innermost execution has reached. Neither says
anything of a structure that is on neither way, where everything must be forgotten.
`Totalling` states `TotalInProcedures`, with `Totals`: the case has the total while
it is worked on, and the saved values have it in between.

### `CaseReaderProofs`: any readers, sources and limits

Two inductive invariants, for a temporary file that fails and for one that works.
`Safe` holds of both: the shape of the window; its cases are cases of the source
in ascending order; a sequential reader is alone; no reader is behind the window's
start, and one stands there; the clone that counts is as far ahead as it has counted.
`TypeCorrect` and `Orderly` (`InOrder`) follow. Where the file fails an assertion may fail
too (finding 1), so `Safe` ends there: an aborted program does nothing more.

`Latest` needs `~ TempFaults`, a file that works: the window has the *last* cases that
came from the source, and no reader is ahead of it. `NothingAborts` (`AssertionsHold`)
and `Tight` (`WindowTight`) follow. That is not a way around the hard case: with
`TempFaults` TLC finds all three properties below violated, and finding 1 says why.

`Implements` states `IsStream`, with the third part, `Known`: where no case is to
come any more, the source had no more, or it failed and the readers know, or none of
them is to read beyond what is there. A client's limit counts down to the end of the
sequence as he knows it, the shim's subreader to the end as the source knows it, and
`Known` is what ties the two, however clones were made, truncated or counted. Each
action of `CaseReader` is a step of one reader or a stutter (`MoveDelivers`, `MoveExhausts`, ...),
and the window's place in the sequence does not move when it is advanced (`PlaceKept`).
From `ReaderAssumption`, of which what matters is that no sequence is as long as
`CASENUMBER_MAX`, the number that stands for "unknown".

### `DatasetProofs`: any data, limits, lags, lengths of chains, any commands

`TypeCorrect` states `TypeOK`, `Fits` `DictFitsData`, `Guessed` `GuessSeesTheFile`, from
`DatasetAssumption`: bounds are numbers, what the given transformations select are
cases, and `NULL` is no object. The dataset is a value, so each function of `dataset.c` has one
lemma (`Limited`, `Guesses`, `StartsTemporary`, `Opens`, `ReadsOne`, `Commits`, ...) and
each command composes them as the code does.

The invariant `IInv` has two halves. Between procedures the dataset is `Idle`: it
has a second dictionary exactly after `TEMPORARY` (`Scoped`), the dictionary that will
be left behind (`Lasting`) has every column of the cases, and a guess can only be the
one `TEMPORARY` queued, at the end of its chain and with nothing seen (`GuessWaits`); without
that, making temporary transformations permanent would leave it in the middle.
During a procedure it is `Busy`: the cases still to come and the sink have the columns of
the dictionaries in use and of the one to be left, and the guess has seen the sink and is the
last of its chain (`Sees`). That it is the last is what makes `ReadsOne` go through: a case that
is dropped on the way has not been seen (`Executes`). One state is neither: after an
assertion of `dataset_reorder_vars` has failed (section 5) the cases have the temporary
columns, and all that is left is the three properties themselves (`Loose`).

`Remembered` states `LimitKept` of every session. It is a property of steps, from the
invariants `IInv` and `AskedIdle` (no limit waits while a procedure runs): `LimitStep` takes the
commands one by one, and only `SORT VARIABLES` with nothing pending, which `LimitKept`
excepts (section 5), lets go of a limit without applying it.

All inductive invariants were checked by TLC before they were proved.

### What is only model-checked

* The refinements `IsActiveFile` and `IsControl`. They compare
  with folds and recursive operators over whole files and programs, whose results would need
  induction over data, which the prover cannot do.
* `CallsReturn` of `CaseReader` and `CasesEnd` of `Control`: liveness is beyond the prover.

## 5. Findings

1. **An error on the temporary file does not reach the reader** (`src/data/case-tmpfile.c`,
   `TempErrorKnown`). A failed write prints a message and drops the case, but nobody sets the taint,
   for `case_tmpfile_force_error` has no caller, so `casereader_error` stays false.
   For the same reason `case_reader_faults` claims so little: after lost cases the
   window is shorter than the clones believe, and the assertion of
   `casewindow_file_pop_tail` (`src/data/casewindow.c`) can fail.
2. **A left variable is set back at `END CASE`** (`src/language/commands/inpt-pgm.c`,
   `RunningTotal`). The reader of an input program starts each case with the left
   values saved when the program last went from its end to its top, not with those of the
   last case. `doc/variables.texi` says that a left variable "retains its value between
   cases", `doc/language.texi` says the same of scratch variables. In a procedure it does
   (`TotalInProcedures`).

Met on the way, and followed by the models without a run of their own:

* `RANK` after `LAG` stores the order number with `case_num_rw` in a case that the deque
  of lagged cases already shares, which `case_num_rw` asserts it is not
  (`src/data/dataset.c`). No commit resets `n_lag`, so any earlier `LAG` will do.
* With nothing pending `proc_execute` only resets, so `SORT VARIABLES` and `DATASET ACTIVATE`
  forget `N OF CASES`, of which `doc/data-selection.texi` says that later procedures see
  no more cases. They also do not end `TEMPORARY`, although the manual of the `DATASET`
  commands says "as if `EXECUTE` had been specified": `dataset_reorder_vars` and
  `dataset_clone` then assert that `TEMPORARY` is over, which fails in `SORT VARIABLES` and
  `DATASET COPY` after a `TEMPORARY` that had nothing to queue.
* `NEW FILE` after `TEMPORARY`: `dataset_clear` clears the temporary dictionary and then
  cancels, and the other one comes back, variables and all.
* A dataset that is read by name after `NUMERIC` without a transformation has fewer columns
  than its dictionary describes, an assertion in `src/data/case.c`.
* `SELECT IF` is allowed in `LOOP`, drops the case there and reaches `NOT_REACHED` in
  `src/language/commands/loop.c`.
* An index of `LOOP` with a missing bound may count for ever. `loop_trns_proc` means to throw
  bounds out that are not finite, but `SYSMIS` is `-DBL_MAX`, which is. From a missing value an
  increment is lost in rounding, down to one no index ever goes below it, and `MXLOOPS` is not
  applied where there is an index. `CasesEnd` excepts just these two.
* The default increment of `LOOP` is always 1; `doc/flow-control.texi` says "+1 or -1".
* Files: `dfm_open_writer` leaves its `FILE` pointer unset when a special file cannot be opened,
  and then closes it (`StartSpecialFails` takes every outcome); `ERASE` does not look at
  locks, which is why `WritersShare` and `OwnStream` except erased names; two hard links
  have one identity, so a writer of one joins the writer of the other (`Init` leaves them
  out); a rename that fails leaves the temporary file (`NoLitter` excepts it).

## 6. Abstractions a reader should know

* A case is a number, or a function from four column names to numbers. Which value a
  transformation computes matters only as far as properties can tell cases apart: the
  case number, the lagged value, the order number.
* Measurement level guesses are the sequence of cases that they looked at.
* A dataset in `Session` is counts: of variables, of pending transformations, of how often
  its data were transformed since they were made. `Dataset` has the same operations on cases.
* The runs in `SortWriter` are sequences; that casewriters and casereaders are such
  sequences is what `CaseWindow` and `CaseReader` are about. Cases are compared by one key.
* Programs in `Control` are taken as parsed. `COMPUTE` increments a left variable
  modulo `Modulus`; the values of indexes are integers up to `Exact` or missing,
  `SYSMIS` is the least number, and a sum beyond `Exact` is rounded away.
* A source fails after its last case in `Dataset`, at any read in `CaseReader`.
  In `Dataset` a failing transformation fails on given cases.
* The names of temporary files are not modelled: `O_EXCL` makes them new.
* The portable, CSV and metadata writers follow the system file writer's protocol and
  are represented by it.
* When `fdopen` fails for a temporary file that was just created, removing that file is taken
  to succeed; the code does not look.
* Windows and its emulation of `rename` are left out; POSIX is assumed.

## 7. Plan

Written in this order: `Taint` (everything depends on it), `CaseStore` to
`CaseReader`, `Dataset` over abstract readers, `FileHandle` and `FileAccess`, `SortWriter`,
`Session`, `Control`, and the proof modules. Not yet, most important first:

1. **Output engine** (`src/output/driver.c`): stacks of engines and groups, deferred
   text; the order in which items reach drivers.
2. **Lexer sources and macro expansion** (`src/language/lexer/lexer.c`): lookahead, errors, nesting.
3. **Readers with state** (`casereader-translator.c`, `casegrouper.c`), the data file reader's
   lines and files, dictionary indexes, the datasheet, `range-set.c`, `sparse-array.c`.
4. **Parsing of nested commands**: the chains that `DO IF`, `LOOP` and `INPUT PROGRAM` push
   while a command is parsed, composed with `Dataset`.
