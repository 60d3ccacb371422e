-------------------------- MODULE FileAccessProofs --------------------------
(***************************************************************************)
(* Atomic replacement, for any number of clients, names and files: the     *)
(* files under their own names are always whole, and an open reader never  *)
(* sees its file change.                                                   *)
(*                                                                         *)
(* Neither follows from itself.  Both need that a file that is being       *)
(* written has no name yet and is open to no one else (Apart), which is    *)
(* true because a temporary file is a new one, and that what is renamed    *)
(* has been flushed (CallOK), which is true because nothing is written     *)
(* between fclose and rename.                                              *)
(***************************************************************************)
EXTENDS FileAccess, FiniteSetTheorems, TLAPS

Content == [by : SUBSET Client, whole : BOOLEAN]

Key == {"read", "write"} \X {"name", "file"} \X (Name \cup Inode)

Lock == [open_cnt : Int, exclusive : BOOLEAN, type : Type, aux : Client]

ClientState ==
  [at : {"new", "done"}]
    \cup [at : {"open"}, name : Name, access : {"read", "write"}, type : Type,
          key : Key, owner : Client]

StreamState ==
  [kind : {"none"}, fp : {Absent}]
    \cup [kind : {"read"}, fp : Inode, shows : Content]
    \cup [kind : {"special", "replace", "failed"}, fp : Inode, name : Name,
          error : BOOLEAN]

CallState ==
  [pc : {"none"}]
    \cup [pc : {"start", "create", "register", "fclose", "rename", "unlink"},
          c : Client]

Typed ==
  /\ dir \in [Name -> Inode \cup {Absent}]
  /\ content \in [Inode -> Content]
  /\ locks \in [DOMAIN locks -> Lock]
  /\ client \in [Client -> ClientState]
  /\ stream \in [Client -> StreamState]
  /\ call \in CallState

(* A file that is being written has no name but its temporary one, and no  *)
(* one else has it open.                                                   *)
Apart ==
  \A c \in Client :
    stream[c].kind = "replace" =>
      /\ stream[c].fp \notin Device
      /\ \A n \in Name : dir[n] # stream[c].fp
      /\ \A d \in Client : d # c => stream[d].fp # stream[c].fp

(* A call in progress knows whom it serves; what it will rename is whole.  *)
CallOK ==
  /\ call.pc \in {"start", "create", "register"} => Opened(call.c)
  /\ call.pc \in {"rename", "unlink"} => stream[call.c].kind = "replace"
  /\ call.pc = "rename" => content[stream[call.c].fp].whole

IInv == Typed /\ WholeFiles /\ Snapshot /\ Apart /\ CallOK

-----------------------------------------------------------------------------
(* Locking and unlocking keep the table of locks well-formed.              *)
LEMMA CountKeeps ==
  ASSUME NEW table, table \in [DOMAIN table -> Lock], NEW key \in DOMAIN table
  PROVE  /\ [table EXCEPT ![key].open_cnt = @ + 1] \in [DOMAIN table -> Lock]
         /\ [table EXCEPT ![key].open_cnt = @ - 1] \in [DOMAIN table -> Lock]
<1>1. table[key] \in Lock
  OBVIOUS
<1>2. /\ [table[key] EXCEPT !.open_cnt = @ + 1] \in Lock
      /\ [table[key] EXCEPT !.open_cnt = @ - 1] \in Lock
  BY <1>1 DEF Lock
<1> QED BY <1>2

LEMMA LockKeeps ==
  ASSUME NEW table, table \in [DOMAIN table -> Lock],
         NEW key, NEW type \in Type, NEW exclusive \in BOOLEAN, NEW c \in Client
  PROVE  fh_lock(table, key, type, exclusive, c) \in
           [DOMAIN fh_lock(table, key, type, exclusive, c) -> Lock]
<1>1. CASE key \in DOMAIN table
  BY <1>1, CountKeeps DEF fh_lock
<1>2. CASE key \notin DOMAIN table
  <2> DEFINE new == [open_cnt |-> 1, exclusive |-> exclusive, type |-> type, aux |-> c]
  <2>1. new \in Lock
    BY DEF Lock
  <2> HIDE DEF new
  <2>2. fh_lock(table, key, type, exclusive, c)
          = [k \in {key} \cup DOMAIN table |-> IF k = key THEN new ELSE table[k]]
    BY <1>2 DEF fh_lock, new
  <2> QED BY <2>1, <2>2
<1> QED BY <1>1, <1>2

LEMMA UnlockKeeps ==
  ASSUME NEW table, table \in [DOMAIN table -> Lock], NEW key
  PROVE  fh_unlock(table, key) \in [DOMAIN fh_unlock(table, key) -> Lock]
<1>1. [k \in DOMAIN table \ {key} |-> table[k]] \in [DOMAIN table \ {key} -> Lock]
  OBVIOUS
<1>2. CASE key \in DOMAIN table
  <2>1. [table EXCEPT ![key].open_cnt = @ - 1] \in [DOMAIN table -> Lock]
    BY <1>2, CountKeeps
  <2> QED BY <1>1, <2>1 DEF fh_unlock
<1>3. CASE key \notin DOMAIN table
  <2>1. [table EXCEPT ![key].open_cnt = @ - 1] = table
    BY <1>3
  <2> QED BY <1>1, <2>1 DEF fh_unlock
<1> QED BY <1>2, <1>3

(* The key of a name is a key.                                             *)
LEMMA KeyIsKey ==
  ASSUME Typed, NEW n \in Name, NEW access \in {"read", "write"}
  PROVE  make_key(dir, n, access) \in Key
<1>1. dir[n] \in Inode \/ dir[n] = Absent
  BY DEF Typed
<1> QED BY <1>1 DEF make_key, Key

(* A step that writes no file and gives no file a name keeps files whole,  *)
(* whatever streams it closes.                                             *)
LEMMA QuietStep ==
  ASSUME IInv, FileAssumption,
         UNCHANGED content,
         \A n \in Name : dir'[n] \in {dir[n], Absent},
         \A c \in Client :
           \/ stream'[c] = stream[c]
           \/ /\ stream'[c].kind \notin {"read", "replace"}
              /\ stream'[c].fp \in {Absent, stream[c].fp}
           \/ /\ stream'[c].kind = "replace" /\ stream[c].kind = "replace"
              /\ stream'[c].fp = stream[c].fp
  PROVE  WholeFiles' /\ Snapshot' /\ Apart'
<1>1. \A c \in Client : stream[c].kind = "replace" => stream[c].fp \in Inode
  BY DEF IInv, Typed, StreamState
<1>2. \A c \in Client : stream'[c].kind = "replace" =>
        stream[c].kind = "replace" /\ stream'[c].fp = stream[c].fp
  OBVIOUS
<1>3. WholeFiles'
  BY <1>2 DEF IInv, WholeFiles, FileAssumption
<1>4. Snapshot'
  BY DEF IInv, Snapshot
<1>5. Apart'
  BY <1>1, <1>2 DEF IInv, Apart, FileAssumption
<1> QED BY <1>3, <1>4, <1>5

(* The records that the actions build.                                     *)
LEMMA Records ==
  /\ New \in ClientState /\ Done \in ClientState
  /\ NoStream \in StreamState
  /\ NoCall \in CallState
  /\ \A c, owner \in Client, n \in Name, access \in {"read", "write"},
        type \in Type, key \in Key :
       Client_(n, access, type, key, owner) \in ClientState
BY DEF New, Done, NoStream, NoCall, ClientState, StreamState, CallState, Client_

LEMMA Opening ==
  ASSUME IInv, NEW c \in Client, Opened(c)
  PROVE  /\ client[c].name \in Name /\ client[c].access \in {"read", "write"}
         /\ client[c].type \in Type /\ client[c].key \in Key
         /\ client[c].owner \in Client
<1>1. client[c] \in ClientState
  BY DEF IInv, Typed
<1> QED BY <1>1 DEF Opened, ClientState

LEMMA AtCall ==
  ASSUME IInv, NEW c, NEW pc, pc # "none", At(pc, c)
  PROVE  /\ c \in Client /\ call.c = c /\ call.pc = pc
         /\ pc \in {"start", "create", "register"} => Opened(c)
         /\ \A q \in {"start", "create", "register", "fclose", "rename", "unlink"} :
              [call EXCEPT !.pc = q] = [pc |-> q, c |-> c]
<1>1. call \in CallState /\ call = [pc |-> pc, c |-> c]
  BY DEF IInv, Typed, At
<1>2. call.pc = pc /\ call.c = c
  BY <1>1
<1>3. c \in Client
  BY <1>1, <1>2 DEF CallState
<1>4. pc \in {"start", "create", "register"} => Opened(c)
  BY <1>2 DEF IInv, CallOK
<1>5. \A q : [call EXCEPT !.pc = q] = [pc |-> q, c |-> c]
  BY <1>1
<1> QED BY <1>2, <1>3, <1>4, <1>5

-----------------------------------------------------------------------------
LEMMA InitInv == FileAssumption /\ Init => IInv
<1> SUFFICES ASSUME FileAssumption, Init PROVE IInv
  OBVIOUS
<1>1. \A c \in Client : stream[c].kind = "none"
  BY DEF Init, NoStream
<1>2. Typed
  <2>1. content \in [Inode -> Content]
    BY DEF Init, Content
  <2>2. client \in [Client -> ClientState] /\ stream \in [Client -> StreamState]
        /\ call \in CallState
    BY Records DEF Init
  <2>3. locks \in [DOMAIN locks -> Lock]
    BY DEF Init
  <2> QED BY <2>1, <2>2, <2>3 DEF Init, Typed
<1>3. WholeFiles
  BY <1>1 DEF Init, WholeFiles
<1>4. Snapshot /\ Apart
  BY <1>1 DEF Snapshot, Apart
<1>5. CallOK
  BY DEF Init, NoCall, CallOK
<1> QED BY <1>2, <1>3, <1>4, <1>5 DEF IInv

-----------------------------------------------------------------------------
(* fh_lock refuses, or a reader's file cannot be opened.                   *)
LEMMA RefusedInv ==
  ASSUME IInv, FileAssumption, NEW c \in Client, NEW n \in Name, NEW type \in Type,
         \/ WriterRefused(c, n, type)
         \/ ReaderRefused(c, n, type)
         \/ OpenReaderFails(c, n, type)
  PROVE  IInv'
<1>1. /\ client' = [client EXCEPT ![c] = Done]
      /\ UNCHANGED <<dir, content, stream, call>>
      /\ call = NoCall
  BY DEF WriterRefused, ReaderRefused, OpenReaderFails, Idle, disk
<1>2. locks' \in [DOMAIN locks' -> Lock]
  <2>1. CASE OpenReaderFails(c, n, type)
    BY <2>1, LockKeeps, UnlockKeeps DEF OpenReaderFails, IInv, Typed
  <2>2. CASE locks' = locks
    BY <2>2 DEF IInv, Typed
  <2> QED BY <2>1, <2>2 DEF WriterRefused, ReaderRefused
<1>3. Typed'
  BY <1>1, <1>2, Records DEF IInv, Typed
<1>4. WholeFiles' /\ Snapshot' /\ Apart'
  BY <1>1, QuietStep
<1>5. CallOK'
  BY <1>1 DEF CallOK, NoCall
<1> QED BY <1>3, <1>4, <1>5 DEF IInv

LEMMA OpenWriterInv ==
  ASSUME IInv, FileAssumption, NEW c \in Client, NEW n \in Name, NEW type \in Type,
         OpenWriter(c, n, type)
  PROVE  IInv'
<1> DEFINE key == make_key(dir, n, "write")
           joins == type = "data file" /\ key \in DOMAIN locks
           owner == IF joins THEN locks[key].aux ELSE c
<1>1. key \in Key
  BY KeyIsKey DEF IInv
<1>2. owner \in Client
  BY DEF IInv, Typed, Lock
<1> HIDE DEF key
<1>3. /\ locks' = fh_lock(locks, key, type, Exclusive(type), c)
      /\ client' = [client EXCEPT ![c] = Client_(n, "write", type, key, owner)]
      /\ call' = IF joins THEN NoCall ELSE [pc |-> "start", c |-> c]
      /\ UNCHANGED <<dir, content, stream>>
  BY DEF OpenWriter, disk, key
<1>4. Typed'
  <2>1. locks' \in [DOMAIN locks' -> Lock]
    BY <1>3, LockKeeps DEF IInv, Typed, Exclusive
  <2>2. client' \in [Client -> ClientState]
    BY <1>1, <1>2, <1>3, Records DEF IInv, Typed
  <2>3. call' \in CallState
    BY <1>3, Records DEF CallState
  <2> QED BY <1>3, <2>1, <2>2, <2>3 DEF IInv, Typed
<1>5. WholeFiles' /\ Snapshot' /\ Apart'
  BY <1>3, QuietStep
<1>6. CallOK'
  <2>1. client'[c].at = "open"
    BY <1>3 DEF IInv, Typed, Client_
  <2> QED BY <1>3, <2>1 DEF CallOK, NoCall, Opened
<1> QED BY <1>4, <1>5, <1>6 DEF IInv

-----------------------------------------------------------------------------
(* replace_file_start.                                                     *)

LEMMA GiveUpInv ==
  ASSUME IInv, FileAssumption, NEW c \in Client, GiveUp(c), UNCHANGED <<dir, content>>
  PROVE  IInv'
<1>1. stream' = [stream EXCEPT ![c] = NoStream] /\ call' = NoCall
  BY DEF GiveUp
<1>2. Typed'
  BY <1>1, UnlockKeeps, Records DEF GiveUp, IInv, Typed
<1>3. WholeFiles' /\ Snapshot' /\ Apart'
  <2>1. \A d \in Client : stream'[d] = stream[d] \/ stream'[d] = NoStream
    BY <1>1 DEF IInv, Typed
  <2> QED BY <2>1, QuietStep DEF NoStream
<1>4. CallOK'
  BY <1>1 DEF CallOK, NoCall
<1> QED BY <1>2, <1>3, <1>4 DEF IInv

LEMMA StartSpecialInv ==
  ASSUME IInv, FileAssumption, NEW c \in Client, StartSpecial(c)
  PROVE  IInv'
<1> DEFINE new == [kind |-> "special", name |-> client[c].name,
                   fp |-> dir[client[c].name], error |-> FALSE]
<1>1. client[c].name \in Name /\ dir[client[c].name] \in Device
  BY AtCall, Opening DEF StartSpecial
<1>2. new \in StreamState
  BY <1>1 DEF StreamState, FileAssumption
<1>3. new.kind = "special" /\ new.fp \in Device
  BY <1>1
<1> HIDE DEF new
<1>4. /\ stream' = [stream EXCEPT ![c] = new] /\ call' = NoCall
      /\ UNCHANGED <<dir, content, locks, client>>
  BY DEF StartSpecial, disk, new
<1>5. stream'[c] = new /\ \A d \in Client : d # c => stream'[d] = stream[d]
  BY <1>4 DEF IInv, Typed
<1>6. Typed'
  BY <1>2, <1>4, Records DEF IInv, Typed
<1>7. WholeFiles'
  BY <1>3, <1>4, <1>5 DEF IInv, WholeFiles
<1>8. Snapshot'
  BY <1>3, <1>4, <1>5 DEF IInv, Snapshot
<1>9. Apart'
  BY <1>3, <1>4, <1>5 DEF IInv, Apart
<1>10. CallOK'
  BY <1>4 DEF CallOK, NoCall
<1> QED BY <1>6, <1>7, <1>8, <1>9, <1>10 DEF IInv

(* The temporary file is a new one.                                        *)
LEMMA CreateTempInv ==
  ASSUME IInv, FileAssumption, NEW c \in Client, CreateTemp(c)
  PROVE  IInv'
<1>1. PICK i \in Free :
        /\ content' = [content EXCEPT ![i] = [by |-> {}, whole |-> FALSE]]
        /\ stream' = [stream EXCEPT ![c] = [kind |-> "replace", fp |-> i,
                                 name |-> client[c].name, error |-> FALSE]]
  BY DEF CreateTemp
<1> DEFINE new == [kind |-> "replace", fp |-> i, name |-> client[c].name, error |-> FALSE]
<1>2. /\ i \in Inode /\ i \notin Device
      /\ \A n \in Name : dir[n] # i
      /\ \A d \in Client : stream[d].fp # i
  BY DEF Free, Range, IInv, Typed
<1>3. new \in StreamState
  <2>1. client[c].name \in Name
    BY AtCall, Opening DEF CreateTemp
  <2> QED BY <1>2, <2>1 DEF StreamState
<1>4. new.kind = "replace" /\ new.fp = i
  OBVIOUS
<1> HIDE DEF new
<1>5. stream'[c] = new /\ \A d \in Client : d # c => stream'[d] = stream[d]
  BY <1>1 DEF IInv, Typed, new
<1>6. \A j \in Inode : j # i => content'[j] = content[j]
  BY <1>1 DEF IInv, Typed
<1>7. /\ call' = [pc |-> "register", c |-> c] /\ Opened(c)
      /\ UNCHANGED <<dir, locks, client>>
  BY AtCall DEF CreateTemp
<1>8. Typed'
  <2>1. content' \in [Inode -> Content]
    BY <1>1 DEF IInv, Typed, Content
  <2>2. stream' \in [Client -> StreamState]
    BY <1>1, <1>3 DEF IInv, Typed, new
  <2>3. call' \in CallState
    BY <1>7 DEF CallState
  <2> QED BY <1>7, <2>1, <2>2, <2>3 DEF IInv, Typed
<1>9. WholeFiles'
  BY <1>2, <1>4, <1>5, <1>6, <1>7 DEF IInv, WholeFiles
<1>10. Snapshot'
  <2>1. SUFFICES ASSUME NEW d \in Client, d # c,
                        stream[d].kind = "read", stream[d].fp \notin Device
                 PROVE  content'[stream[d].fp] = stream[d].shows
    BY <1>4, <1>5 DEF Snapshot
  <2>2. stream[d].fp \in Inode /\ stream[d].fp # i
    BY <1>2, <2>1 DEF IInv, Typed, StreamState
  <2> QED BY <1>6, <2>1, <2>2 DEF IInv, Snapshot
<1>11. Apart'
  BY <1>2, <1>4, <1>5, <1>7 DEF IInv, Apart
<1>12. CallOK'
  BY <1>7 DEF CallOK, Opened
<1> QED BY <1>8, <1>9, <1>10, <1>11, <1>12 DEF IInv

(* The steps that block and unblock signals, register the temporary file,  *)
(* or begin to close a writer.                                             *)
LEMMA CallInv ==
  ASSUME IInv, FileAssumption, NEW c \in Client,
         \/ StartReplace(c) \/ Register(c) \/ BlockSignals(c) \/ CloseWriter(c)
  PROVE  IInv'
<1>1. UNCHANGED <<dir, content, stream>>
  BY DEF StartReplace, Register, BlockSignals, CloseWriter, disk
<1>2. WholeFiles' /\ Snapshot' /\ Apart'
  BY <1>1, QuietStep
<1>3. CASE StartReplace(c)
  <2>1. call' = [pc |-> "create", c |-> c] /\ Opened(c) /\ UNCHANGED <<locks, client>>
    BY <1>3, AtCall DEF StartReplace
  <2>2. Typed' /\ CallOK'
    BY <1>1, <2>1 DEF IInv, Typed, CallState, CallOK, Opened
  <2> QED BY <1>2, <2>2 DEF IInv
<1>4. CASE Register(c)
  <2>1. call' = NoCall /\ UNCHANGED <<locks, client>>
    BY <1>4 DEF Register
  <2>2. Typed' /\ CallOK'
    BY <1>1, <2>1, Records DEF IInv, Typed, CallOK, NoCall
  <2> QED BY <1>2, <2>2 DEF IInv
<1>5. CASE BlockSignals(c)
  <2>1. UNCHANGED <<call, locks, client>>
    BY <1>5 DEF BlockSignals
  <2>2. Typed' /\ CallOK'
    BY <1>1, <2>1 DEF IInv, Typed, CallOK, Opened
  <2> QED BY <1>2, <2>2 DEF IInv
<1>6. CASE CloseWriter(c)
  <2>1. Opened(c)
    BY <1>6 DEF CloseWriter, Writers
  <2>2. client[c].owner \in Client
    BY <2>1, Opening
  <2>3. call' \in {NoCall, [pc |-> "fclose", c |-> client[c].owner]}
    BY <1>6 DEF CloseWriter
  <2>4. locks' \in [DOMAIN locks' -> Lock] /\ client' \in [Client -> ClientState]
    BY <1>6, UnlockKeeps, Records DEF CloseWriter, IInv, Typed
  <2>5. call' \in CallState /\ CallOK'
    BY <2>2, <2>3, Records DEF CallState, CallOK, NoCall
  <2>6. Typed'
    BY <1>1, <2>4, <2>5 DEF IInv, Typed
  <2> QED BY <1>2, <2>5, <2>6 DEF IInv
<1> QED BY <1>3, <1>4, <1>5, <1>6

-----------------------------------------------------------------------------
(* Writing and closing.                                                    *)

(* A file that is being written can change: it has no name and no reader.  *)
LEMMA ContentInv ==
  ASSUME IInv, NEW o \in Client, stream[o].kind = "replace",
         \A i \in Inode : i # stream[o].fp => content'[i] = content[i],
         UNCHANGED <<dir, stream>>
  PROVE  WholeFiles' /\ Snapshot' /\ Apart'
<1>1. \A c \in Client : stream[c].kind = "read" =>
        stream[c].fp \in Inode /\ stream[c].fp # stream[o].fp
  <2>1. \A c \in Client : stream[c].kind = "read" => c # o /\ stream[c].fp \in Inode
    BY DEF IInv, Typed, StreamState
  <2> QED BY <2>1 DEF IInv, Apart
<1>2. WholeFiles'
  BY DEF IInv, WholeFiles, Apart
<1>3. Snapshot'
  BY <1>1 DEF IInv, Snapshot
<1>4. Apart'
  BY DEF IInv, Apart
<1> QED BY <1>2, <1>3, <1>4

LEMMA WriteInv ==
  ASSUME IInv, FileAssumption, NEW c \in Client, Write(c)
  PROVE  IInv'
<1> DEFINE o == client[c].owner
<1>1. o \in Client
  BY Opening DEF Write, Writers
<1>2. UNCHANGED <<dir, locks, client, call>> /\ call = NoCall
  BY DEF Write, Idle
<1>3. CallOK'
  BY <1>2 DEF CallOK, NoCall
<1>4. CASE /\ stream[o].kind = "replace"
           /\ content' = [content EXCEPT ![stream[o].fp].by = @ \cup {c}]
           /\ UNCHANGED stream
  <2>1. \A i \in Inode : i # stream[o].fp => content'[i] = content[i]
    BY <1>4 DEF IInv, Typed
  <2>2. WholeFiles' /\ Snapshot' /\ Apart'
    BY <1>1, <1>2, <1>4, <2>1, ContentInv
  <2>3. content' \in [Inode -> Content]
    BY <1>4 DEF IInv, Typed, Content
  <2>4. Typed'
    BY <1>2, <1>4, <2>3 DEF IInv, Typed
  <2> QED BY <1>3, <2>2, <2>4 DEF IInv
<1>5. CASE stream' = [stream EXCEPT ![o].error = TRUE] /\ UNCHANGED content
  <2>1. CASE stream[o].kind \in {"special", "replace", "failed"}
    <3>1. stream[o] \in [kind : {"special", "replace", "failed"}, fp : Inode,
                         name : Name, error : BOOLEAN]
      BY <1>1, <2>1 DEF IInv, Typed, StreamState
    <3> DEFINE new == [stream[o] EXCEPT !.error = TRUE]
    <3>2. new \in StreamState /\ new.kind = stream[o].kind /\ new.fp = stream[o].fp
      BY <3>1 DEF StreamState
    <3> HIDE DEF new
    <3>3. stream' = [stream EXCEPT ![o] = new]
      BY <1>5 DEF new
    <3>4. Typed'
      BY <1>2, <1>5, <3>2, <3>3 DEF IInv, Typed
    <3>5. stream'[o] = new /\ \A d \in Client : d # o => stream'[d] = stream[d]
      BY <1>1, <3>3 DEF IInv, Typed
    <3>6. WholeFiles' /\ Snapshot' /\ Apart'
      BY <1>2, <1>5, <2>1, <3>2, <3>5, QuietStep
    <3> QED BY <1>3, <3>4, <3>6 DEF IInv
  <2>2. CASE stream[o].kind \in {"none", "read"}
    <3>1. stream[o] \in [kind : {"none"}, fp : {Absent}]
            \cup [kind : {"read"}, fp : Inode, shows : Content]
      BY <1>1, <2>2 DEF IInv, Typed, StreamState
    <3>2. [stream[o] EXCEPT !.error = TRUE] = stream[o]
      BY <3>1
    <3>3. stream' = stream
      BY <1>1, <1>5, <3>2 DEF IInv, Typed
    <3>4. WholeFiles' /\ Snapshot' /\ Apart'
      BY <1>2, <1>5, <3>3, QuietStep
    <3>5. Typed'
      BY <1>2, <1>5, <3>3 DEF IInv, Typed
    <3> QED BY <1>3, <3>4, <3>5 DEF IInv
  <2>3. stream[o].kind \in {"none", "read", "special", "replace", "failed"}
    BY <1>1 DEF IInv, Typed, StreamState
  <2> QED BY <2>1, <2>2, <2>3
<1> QED BY <1>4, <1>5 DEF Write

LEMMA FinishTyped ==
  ASSUME IInv, NEW o \in Client, Finish(o)
  PROVE  /\ locks' \in [DOMAIN locks' -> Lock]
         /\ client' \in [Client -> ClientState]
         /\ call' \in CallState /\ CallOK'
<1>1. call' = NoCall
  BY DEF Finish
<1>2. CASE Opened(o)
  BY <1>1, <1>2, UnlockKeeps, Records DEF Finish, IInv, Typed, CallOK, NoCall
<1>3. CASE ~Opened(o)
  BY <1>1, <1>3, Records DEF Finish, IInv, Typed, CallOK, NoCall
<1> QED BY <1>2, <1>3

(* A stream that is closed without giving its file a name.                 *)
LEMMA ClosedInv ==
  ASSUME IInv, FileAssumption, NEW o \in Client, Finish(o),
         UNCHANGED <<dir, content>>,
         NEW new \in StreamState, new.kind \notin {"read", "replace"},
         new.fp \in {Absent, stream[o].fp},
         stream' = [stream EXCEPT ![o] = new]
  PROVE  IInv'
<1>1. stream'[o] = new /\ \A d \in Client : d # o => stream'[d] = stream[d]
  BY DEF IInv, Typed
<1>2. WholeFiles' /\ Snapshot' /\ Apart'
  BY <1>1, QuietStep
<1>3. Typed'
  BY FinishTyped DEF IInv, Typed
<1> QED BY <1>2, <1>3, FinishTyped DEF IInv

(* A stream whose file could not be renamed or unlinked.                   *)
LEMMA Failing ==
  ASSUME IInv, NEW o \in Client, stream[o].kind = "replace"
  PROVE  /\ [stream[o] EXCEPT !.kind = "failed"] \in StreamState
         /\ [stream[o] EXCEPT !.kind = "failed"].kind = "failed"
         /\ [stream[o] EXCEPT !.kind = "failed"].fp = stream[o].fp
<1>1. stream[o] \in [kind : {"special", "replace", "failed"}, fp : Inode,
                     name : Name, error : BOOLEAN]
  BY DEF IInv, Typed, StreamState
<1> QED BY <1>1 DEF StreamState

LEMMA CloseSpecialInv ==
  ASSUME IInv, FileAssumption, NEW o \in Client, CloseSpecial(o)
  PROVE  IInv'
BY ClosedInv, Records DEF CloseSpecial, disk, NoStream

LEMMA FcloseInv ==
  ASSUME IInv, FileAssumption, NEW o \in Client, fclose(o)
  PROVE  IInv'
<1>1. /\ stream[o].kind = "replace"
      /\ UNCHANGED <<dir, locks, client, stream>>
  BY DEF fclose
<1>2. stream[o].fp \in Inode
  BY <1>1 DEF IInv, Typed, StreamState
<1>3. CASE /\ content' = [content EXCEPT ![stream[o].fp].whole = TRUE]
           /\ call' = [call EXCEPT !.pc = "rename"]
  <2>1. content' \in [Inode -> Content]
    BY <1>3 DEF IInv, Typed, Content
  <2>2. /\ content'[stream[o].fp].whole
        /\ \A i \in Inode : i # stream[o].fp => content'[i] = content[i]
    BY <1>2, <1>3 DEF IInv, Typed, Content
  <2>3. call' = [pc |-> "rename", c |-> o]
    BY <1>3, AtCall DEF fclose
  <2>4. Typed'
    BY <1>1, <2>1, <2>3 DEF IInv, Typed, CallState
  <2>5. CallOK'
    BY <1>1, <2>2, <2>3 DEF CallOK
  <2> QED BY <1>1, <2>2, <2>4, <2>5, ContentInv DEF IInv
<1>4. CASE UNCHANGED content /\ call' = [call EXCEPT !.pc = "unlink"]
  <2>1. call' = [pc |-> "unlink", c |-> o]
    BY <1>4, AtCall DEF fclose
  <2>2. Typed'
    BY <1>1, <1>4, <2>1 DEF IInv, Typed, CallState
  <2>3. CallOK'
    BY <1>1, <2>1 DEF CallOK
  <2>4. WholeFiles' /\ Snapshot' /\ Apart'
    BY <1>1, <1>4, QuietStep
  <2> QED BY <2>2, <2>3, <2>4 DEF IInv
<1> QED BY <1>3, <1>4 DEF fclose

(* The rename gives a name to a whole file that no one else has open.      *)
LEMMA CommitInv ==
  ASSUME IInv, FileAssumption, NEW o \in Client, replace_file_commit(o)
  PROVE  IInv'
<1>1. /\ stream[o].kind = "replace" /\ content[stream[o].fp].whole
      /\ Finish(o) /\ UNCHANGED content
  BY AtCall DEF replace_file_commit, IInv, CallOK
<1>2. stream[o] \in [kind : {"special", "replace", "failed"}, fp : Inode,
                     name : Name, error : BOOLEAN]
  BY <1>1 DEF IInv, Typed, StreamState
<1>3. CASE /\ dir' = [dir EXCEPT ![stream[o].name] = stream[o].fp]
           /\ stream' = [stream EXCEPT ![o] = NoStream]
  <2>1. /\ stream'[o] = NoStream
        /\ \A c \in Client : c # o => stream'[c] = stream[c]
    BY <1>3 DEF IInv, Typed
  <2>2. \A n \in Name : dir'[n] \in {dir[n], stream[o].fp}
    BY <1>3 DEF IInv, Typed
  <2>3. dir' \in [Name -> Inode \cup {Absent}] /\ stream' \in [Client -> StreamState]
    BY <1>2, <1>3, Records DEF IInv, Typed
  <2>4. Typed' /\ CallOK'
    BY <1>1, <2>3, FinishTyped DEF IInv, Typed
  <2>5. \A c \in Client : c # o => stream[c].fp # stream[o].fp
    BY <1>1 DEF IInv, Apart
  <2>6. WholeFiles'
    BY <1>1, <2>1, <2>2, <2>5 DEF IInv, WholeFiles, NoStream
  <2>7. Snapshot'
    BY <1>1, <2>1 DEF IInv, Snapshot, NoStream
  <2>8. Apart'
    <3>1. SUFFICES ASSUME NEW c \in Client, c # o, stream[c].kind = "replace"
                   PROVE  /\ stream[c].fp \notin Device
                          /\ \A n \in Name : dir'[n] # stream[c].fp
                          /\ \A d \in Client : d # c => stream'[d].fp # stream[c].fp
      BY <2>1 DEF Apart, NoStream
    <3>2. stream[c].fp \in Inode
      BY <3>1 DEF IInv, Typed, StreamState
    <3> QED BY <2>1, <2>2, <2>5, <3>1, <3>2 DEF IInv, Apart, NoStream, FileAssumption
  <2> QED BY <2>4, <2>6, <2>7, <2>8 DEF IInv
<1>4. CASE /\ stream' = [stream EXCEPT ![o].kind = "failed"]
           /\ UNCHANGED dir
  BY <1>1, <1>4, Failing, ClosedInv
<1> QED BY <1>3, <1>4 DEF replace_file_commit

LEMMA AbortInv ==
  ASSUME IInv, FileAssumption, NEW o \in Client, replace_file_abort(o)
  PROVE  IInv'
<1>1. /\ stream[o].kind = "replace"
      /\ Finish(o) /\ UNCHANGED <<dir, content>>
  BY AtCall DEF replace_file_abort, IInv, CallOK, disk
<1>2. CASE stream' = [stream EXCEPT ![o] = NoStream]
  BY <1>1, <1>2, Records, ClosedInv DEF NoStream
<1>3. CASE stream' = [stream EXCEPT ![o].kind = "failed"]
  BY <1>1, <1>3, Failing, ClosedInv
<1> QED BY <1>2, <1>3 DEF replace_file_abort

-----------------------------------------------------------------------------
(* Readers, ERASE and the signal handler.                                  *)

LEMMA OpenReaderInv ==
  ASSUME IInv, FileAssumption, NEW c \in Client, NEW n \in Name, NEW type \in Type,
         OpenReader(c, n, type)
  PROVE  IInv'
<1> DEFINE key == make_key(dir, n, "read")
           joins == type = "data file" /\ key \in DOMAIN locks
           owner == IF joins THEN locks[key].aux ELSE c
           new == [kind |-> "read", fp |-> dir[n], shows |-> content[dir[n]]]
<1>1. key \in Key /\ owner \in Client
  BY KeyIsKey DEF IInv, Typed, Lock
<1> HIDE DEF key
<1>2. /\ locks' = fh_lock(locks, key, type, FALSE, c)
      /\ client' = [client EXCEPT ![c] = Client_(n, "read", type, key, owner)]
      /\ joins \/ dir[n] # Absent
      /\ IF joins THEN UNCHANGED stream ELSE stream' = [stream EXCEPT ![c] = new]
      /\ call = NoCall /\ UNCHANGED <<dir, content, call>>
  BY DEF OpenReader, disk, key, Idle
<1>3. locks' \in [DOMAIN locks' -> Lock] /\ client' \in [Client -> ClientState]
  BY <1>1, <1>2, LockKeeps, Records DEF IInv, Typed
<1>4. CallOK'
  BY <1>2 DEF CallOK, NoCall
<1>5. CASE joins
  <2>1. Typed'
    BY <1>2, <1>3, <1>5 DEF IInv, Typed
  <2>2. WholeFiles' /\ Snapshot' /\ Apart'
    BY <1>2, <1>5, QuietStep
  <2> QED BY <1>4, <2>1, <2>2 DEF IInv
<1>6. CASE ~joins
  <2>1. dir[n] \in Inode
    BY <1>2, <1>6 DEF IInv, Typed
  <2>2. new \in StreamState
    BY <2>1 DEF IInv, Typed, StreamState
  <2>3. new.kind = "read" /\ new.fp = dir[n] /\ new.shows = content[dir[n]]
    OBVIOUS
  <2> HIDE DEF new
  <2>4. stream'[c] = new /\ \A d \in Client : d # c => stream'[d] = stream[d]
    BY <1>2, <1>6 DEF IInv, Typed
  <2>5. Typed'
    BY <1>2, <1>3, <1>6, <2>2, ZenonT(30) DEF IInv, Typed
  <2>6. \A d \in Client :
          stream'[d].kind = "replace" => d # c /\ stream'[d] = stream[d]
    BY <2>3, <2>4
  <2>7. UNCHANGED <<dir, content>>
    BY <1>2
  <2>8. WholeFiles'
    BY <2>6, <2>7 DEF IInv, WholeFiles
  <2>9. Snapshot'
    BY <2>3, <2>4, <2>7 DEF IInv, Snapshot
  <2>10. Apart'
    BY <2>3, <2>4, <2>6, <2>7 DEF IInv, Apart
  <2> QED BY <1>4, <2>5, <2>8, <2>9, <2>10 DEF IInv
<1> QED BY <1>5, <1>6

LEMMA CloseReaderInv ==
  ASSUME IInv, FileAssumption, NEW c \in Client, CloseReader(c)
  PROVE  IInv'
<1>1. /\ UNCHANGED <<dir, content, call>> /\ call = NoCall
      /\ stream' \in {stream, [stream EXCEPT ![client[c].owner] = NoStream]}
  BY DEF CloseReader, disk, Idle
<1>2. \A d \in Client : stream'[d] = stream[d] \/ stream'[d] = NoStream
  BY <1>1 DEF IInv, Typed
<1>3. WholeFiles' /\ Snapshot' /\ Apart'
  BY <1>1, <1>2, QuietStep DEF NoStream
<1>4. locks' \in [DOMAIN locks' -> Lock] /\ client' \in [Client -> ClientState]
  BY UnlockKeeps, Records DEF CloseReader, IInv, Typed
<1>5. Typed'
  BY <1>1, <1>4, Records DEF IInv, Typed
<1>6. CallOK'
  BY <1>1 DEF CallOK, NoCall
<1> QED BY <1>3, <1>5, <1>6 DEF IInv

LEMMA EraseInv ==
  ASSUME IInv, FileAssumption, NEW n \in Name, cmd_erase(n)
  PROVE  IInv'
<1>1. /\ dir' = [dir EXCEPT ![n] = Absent]
      /\ UNCHANGED <<content, locks, client, stream, call>>
  BY DEF cmd_erase
<1>2. \A m \in Name : dir'[m] \in {dir[m], Absent}
  BY <1>1 DEF IInv, Typed
<1>3. WholeFiles' /\ Snapshot' /\ Apart'
  BY <1>1, <1>2, QuietStep
<1>4. Typed' /\ CallOK'
  BY <1>1 DEF IInv, Typed, CallOK, Opened
<1> QED BY <1>3, <1>4 DEF IInv

LEMMA StutterInv ==
  ASSUME IInv, FileAssumption,
         UNCHANGED <<dir, content, locks, client, stream, call>>
  PROVE  IInv'
<1>1. WholeFiles' /\ Snapshot' /\ Apart'
  BY QuietStep
<1>2. Typed' /\ CallOK'
  BY DEF IInv, Typed, CallOK, Opened
<1> QED BY <1>1, <1>2 DEF IInv

-----------------------------------------------------------------------------
LEMMA NextInv == FileAssumption /\ IInv /\ [Next]_vars => IInv'
<1> SUFFICES ASSUME FileAssumption, IInv, [Next]_vars PROVE IInv'
  OBVIOUS
<1>1. CASE UNCHANGED vars
  BY <1>1, StutterInv DEF vars
<1>2. CASE unlink_replace_files
  BY <1>2, StutterInv DEF unlink_replace_files, disk
<1>3. ASSUME NEW n \in Name, cmd_erase(n) PROVE IInv'
  BY <1>3, EraseInv
<1>4. ASSUME NEW c \in Client, NEW n \in Name, NEW type \in Type,
             \/ WriterRefused(c, n, type) \/ OpenWriter(c, n, type)
             \/ ReaderRefused(c, n, type) \/ OpenReader(c, n, type)
             \/ OpenReaderFails(c, n, type)
      PROVE  IInv'
  BY <1>4, RefusedInv, OpenWriterInv, OpenReaderInv
<1>5. ASSUME NEW c \in Client,
             \/ StartSpecial(c) \/ StartSpecialFails(c) \/ StartReplace(c)
             \/ CreateTemp(c) \/ CreateFails(c) \/ Register(c)
      PROVE  IInv'
  <2>1. CASE StartSpecialFails(c) \/ CreateFails(c)
    BY <2>1, GiveUpInv DEF StartSpecialFails, CreateFails, disk
  <2> QED BY <1>5, <2>1, StartSpecialInv, CallInv, CreateTempInv
<1>6. ASSUME NEW c \in Client,
             \/ Write(c) \/ CloseWriter(c) \/ CloseSpecial(c) \/ fclose(c)
             \/ BlockSignals(c) \/ replace_file_commit(c) \/ replace_file_abort(c)
             \/ CloseReader(c)
      PROVE  IInv'
  BY <1>6, WriteInv, CallInv, CloseSpecialInv, FcloseInv, CommitInv, AbortInv,
     CloseReaderInv
<1> QED BY <1>1, <1>2, <1>3, <1>4, <1>5, <1>6 DEF Next

LEMMA Inductive == Spec => []IInv
<1> QED BY FileAssumption, InitInv, NextInv, PTL DEF Spec

(* make-file.h: a file is replaced "atomically".  Whatever fails, and at   *)
(* whatever step the program ends, a file under its own name is whole and  *)
(* no writer is at work on it.                                             *)
THEOREM AtomicReplacement == Spec => []WholeFiles
<1>1. IInv => WholeFiles
  BY DEF IInv
<1> QED BY <1>1, Inductive, PTL

(* A reader opened by fn_open sees, as long as it is open, the file as it  *)
(* was then, although write locks do not keep writers of the file away.    *)
THEOREM ReadersUndisturbed == Spec => []Snapshot
<1>1. IInv => Snapshot
  BY DEF IInv
<1> QED BY <1>1, Inductive, PTL

-----------------------------------------------------------------------------
(***************************************************************************)
(* Locks and clients, for any number of clients, names and files: a lock   *)
(* counts its holders, writers of one name share one stream and so do data *)
(* file readers of one lock, everyone has the stream he opened as long as  *)
(* he has it open, and no temporary file is left behind.                   *)
(*                                                                         *)
(* The argument is about the table of locks.  A lock is found by a key     *)
(* that was computed when it was opened; that key is still the key of the  *)
(* same name when it matters, because the file of a name that is not       *)
(* erased changes only when its last writer is gone (NamesOK, CallsOK).    *)
(***************************************************************************)

Holders(key) == {c \in Client : Opened(c) /\ client[c].key = key}

(* Each lock: its count, its holders, and the client that made it.         *)
LocksOK ==
  /\ \A key \in DOMAIN locks :
       /\ locks[key].open_cnt = Cardinality(Holders(key))
       /\ Holders(key) # {}
       /\ client[locks[key].aux].at # "new"
       /\ Opened(locks[key].aux) => client[locks[key].aux].key = key
       /\ locks[key].exclusive => \A c, d \in Holders(key) : c = d
  /\ \A k, l \in DOMAIN locks : locks[k].aux = locks[l].aux => k = l

(* Each client that has something open: its lock and its stream's owner.   *)
Suits(c, x, aux, type, exclusive) ==
  /\ x.key[1] = x.access
  /\ x.type = type
  /\ x.owner = IF x.type = "data file" THEN aux ELSE c
  /\ x.access = "write" => exclusive = (x.type = "system file")

Holds(c) ==
  LET x == client[c]
      lock == locks[x.key]
  IN x.key \in DOMAIN locks /\ Suits(c, x, lock.aux, lock.type, lock.exclusive)

HoldersOK == \A c \in Client : Opened(c) => Holds(c)

(* The stream that a client uses is open.                                  *)
Starting(o) == call.pc \in {"start", "create"} /\ call.c = o
Closing(o) == call.pc \in {"fclose", "rename", "unlink"} /\ call.c = o
IsOutput(s) == s.kind \in {"replace", "special"}

StreamsOK ==
  /\ \A c \in Client : client[c].at = "new" => stream[c].kind = "none"
  /\ \A c \in Readers :
       Stream(c).kind = "read" /\ client[c].key = <<"read", "file", Stream(c).fp>>
  /\ \A c \in Writers : IsOutput(Stream(c)) \/ Starting(client[c].owner)

(* A name that was not erased has the key that its writers have.           *)
NamesOK ==
  /\ \A m, n \in Name : dir[m] = dir[n] /\ m # n => dir[n] = Absent
  /\ \A c \in Writers :
       /\ client[c].name \notin erased =>
            client[c].key = make_key(dir, client[c].name, "write")
       /\ IsOutput(Stream(c)) =>
            /\ Stream(c).name \in erased \cup {client[c].name}
            /\ Stream(c).name \notin erased =>
                 client[c].key = make_key(dir, Stream(c).name, "write")

(* A call that opens is alone with its lock; one that closes a stream is   *)
(* the only one that still knows it, and its name.                         *)
CallsOK ==
  /\ call.pc \in {"start", "create", "register"} =>
       /\ call.c \in Writers /\ client[call.c].owner = call.c
       /\ Holders(client[call.c].key) = {call.c}
       /\ call.pc # "register" => stream[call.c].kind = "none"
       /\ call.pc = "register" => stream[call.c].kind = "replace"
  /\ call.pc \in {"fclose", "rename", "unlink"} =>
       /\ IsOutput(stream[call.c])
       /\ Opened(call.c) =>
            call.c \in Writers /\ client[call.c].type = "system file"
       /\ \A d \in Client \ {call.c} : Opened(d) => client[d].owner # call.c
       /\ \A d \in Writers \ {call.c} :
            stream[call.c].name \in {client[d].name, Stream(d).name} =>
              stream[call.c].name \in erased

TempsOK ==
  /\ temps \subseteq Client /\ all_files \subseteq Client /\ blocked \in BOOLEAN
  /\ process \in {"running", "signalled", "crashed"}
  /\ \A c \in temps : stream[c].kind \in {"replace", "failed"}
  /\ process = "running" =>
       /\ all_files \subseteq temps
       /\ \A c \in temps : c \in all_files \/ stream[c].kind = "failed"
                           \/ (call.pc = "register" /\ call.c = c)
       /\ call.pc \in {"create", "register"} => blocked /\ call.c \notin all_files
       /\ call.pc = "register" => call.c \in temps
  /\ process = "signalled" => \A c \in temps : stream[c].kind = "failed"

LInv == LocksOK /\ HoldersOK /\ StreamsOK /\ NamesOK /\ CallsOK /\ TempsOK

-----------------------------------------------------------------------------
(* The table of locks after fh_lock and fh_unlock.                         *)
LEMMA Counting ==
  ASSUME NEW table, table \in [DOMAIN table -> Lock], NEW key \in DOMAIN table, NEW n \in Int
  PROVE  LET t == [table EXCEPT ![key].open_cnt = n]
         IN /\ DOMAIN t = DOMAIN table
            /\ \A k \in DOMAIN table \ {key} : t[k] = table[k]
            /\ t[key].open_cnt = n /\ t[key].aux = table[key].aux
            /\ t[key].type = table[key].type /\ t[key].exclusive = table[key].exclusive
<1>1. table[key] \in Lock
  OBVIOUS
<1> DEFINE r == [table[key] EXCEPT !.open_cnt = n]
<1>2. /\ r.open_cnt = n /\ r.aux = table[key].aux
      /\ r.type = table[key].type /\ r.exclusive = table[key].exclusive
  BY <1>1 DEF Lock
<1> HIDE DEF r
<1>3. [table EXCEPT ![key].open_cnt = n] = [table EXCEPT ![key] = r]
  BY DEF r
<1> QED BY <1>2, <1>3

IsLocked(t, key, type, exclusive, c) ==
  /\ DOMAIN t = DOMAIN locks \cup {key}
  /\ \A k \in DOMAIN locks \ {key} : t[k] = locks[k]
  /\ key \in DOMAIN locks =>
       /\ t[key].open_cnt = locks[key].open_cnt + 1
       /\ t[key].aux = locks[key].aux
       /\ t[key].type = locks[key].type
       /\ t[key].exclusive = locks[key].exclusive
  /\ key \notin DOMAIN locks =>
       /\ t[key].open_cnt = 1 /\ t[key].exclusive = exclusive
       /\ t[key].type = type /\ t[key].aux = c

LEMMA Locking ==
  ASSUME Typed, NEW key, NEW type \in Type, NEW exclusive \in BOOLEAN, NEW c \in Client
  PROVE  IsLocked(fh_lock(locks, key, type, exclusive, c), key, type, exclusive, c)
<1>1. CASE key \in DOMAIN locks
  <2>1. locks[key].open_cnt + 1 \in Int
    BY <1>1 DEF Typed, Lock
  <2>2. fh_lock(locks, key, type, exclusive, c)
          = [locks EXCEPT ![key].open_cnt = locks[key].open_cnt + 1]
    BY <1>1 DEF fh_lock
  <2> DEFINE t == [locks EXCEPT ![key].open_cnt = locks[key].open_cnt + 1]
  <2>3. /\ DOMAIN t = DOMAIN locks
        /\ \A k \in DOMAIN locks \ {key} : t[k] = locks[k]
        /\ t[key].open_cnt = locks[key].open_cnt + 1 /\ t[key].aux = locks[key].aux
        /\ t[key].type = locks[key].type /\ t[key].exclusive = locks[key].exclusive
    BY <1>1, <2>1, Counting DEF Typed
  <2> HIDE DEF t
  <2>4. DOMAIN locks = DOMAIN locks \cup {key}
    BY <1>1
  <2> QED BY <1>1, <2>2, <2>3, <2>4 DEF t, IsLocked
<1>2. CASE key \notin DOMAIN locks
  <2> DEFINE new == [open_cnt |-> 1, exclusive |-> exclusive, type |-> type, aux |-> c]
  <2>1. fh_lock(locks, key, type, exclusive, c)
          = [k \in {key} \cup DOMAIN locks |-> IF k = key THEN new ELSE locks[k]]
    BY <1>2 DEF fh_lock
  <2> HIDE DEF new
  <2> DEFINE t == fh_lock(locks, key, type, exclusive, c)
  <2>2. /\ DOMAIN t = DOMAIN locks \cup {key} /\ t[key] = new
        /\ \A k \in DOMAIN locks \ {key} : t[k] = locks[k]
    BY <2>1
  <2>3. new.open_cnt = 1 /\ new.exclusive = exclusive /\ new.type = type /\ new.aux = c
    BY DEF new
  <2> HIDE DEF t
  <2>4. IsLocked(t, key, type, exclusive, c)
    BY <1>2, <2>2, <2>3 DEF IsLocked
  <2> QED BY <2>4 DEF t
<1> QED BY <1>1, <1>2

LEMMA Unlocking ==
  ASSUME Typed, NEW key \in DOMAIN locks
  PROVE  LET t == fh_unlock(locks, key)
         IN /\ \A k \in DOMAIN locks \ {key} : k \in DOMAIN t /\ t[k] = locks[k]
            /\ DOMAIN t \subseteq DOMAIN locks
            /\ key \in DOMAIN t <=> locks[key].open_cnt # 1
            /\ key \in DOMAIN t =>
                 /\ t[key].open_cnt = locks[key].open_cnt - 1
                 /\ t[key].aux = locks[key].aux
                 /\ t[key].type = locks[key].type
                 /\ t[key].exclusive = locks[key].exclusive
<1>1. CASE locks[key].open_cnt = 1
  <2>1. fh_unlock(locks, key) = [k \in DOMAIN locks \ {key} |-> locks[k]]
    BY <1>1 DEF fh_unlock
  <2> QED BY <1>1, <2>1
<1>2. CASE locks[key].open_cnt # 1
  <2>1. locks[key].open_cnt - 1 \in Int
    BY DEF Typed, Lock
  <2>2. fh_unlock(locks, key) = [locks EXCEPT ![key].open_cnt = locks[key].open_cnt - 1]
    BY <1>2 DEF fh_unlock
  <2> QED BY <1>2, <2>1, <2>2, Counting DEF Typed
<1> QED BY <1>1, <1>2

-----------------------------------------------------------------------------
(* What opening and closing do to locks and clients.                       *)
LEMMA Frame ==
  ASSUME LocksOK, HoldersOK, UNCHANGED <<locks, client>>
  PROVE  LocksOK' /\ HoldersOK'
<1>1. \A key : Holders(key)' = Holders(key)
  BY DEF Holders, Opened
<1> QED BY <1>1 DEF LocksOK, HoldersOK, Holds, Opened

Refusing(c) ==
  client[c] = New /\ client' = [client EXCEPT ![c] = Done] /\ UNCHANGED locks

Leaving(c, key) ==
  /\ key = client[c].key
  /\ locks' = fh_unlock(locks, key) /\ client' = [client EXCEPT ![c] = Done]

Entering(c, n, access, type, key, owner) ==
  LET exclusive == access = "write" /\ Exclusive(type)
  IN /\ client[c] = New /\ key[1] = access
     /\ Grants(locks, key, type, exclusive)
     /\ locks' = fh_lock(locks, key, type, exclusive, c)
     /\ owner = IF type = "data file" /\ key \in DOMAIN locks THEN locks[key].aux ELSE c
     /\ client' = [client EXCEPT ![c] = Client_(n, access, type, key, owner)]

(* A client that has nothing open and never will.                          *)
LEMMA Refuses ==
  ASSUME Typed, LocksOK, HoldersOK, NEW c \in Client, Refusing(c)
  PROVE  /\ LocksOK' /\ HoldersOK'
         /\ \A d \in Client : Opened(d)' = Opened(d)
         /\ \A d \in Client : client'[d].at = "new" => client[d].at = "new"
         /\ \A d \in Client : Opened(d) => client'[d] = client[d]
<1>1. \A d \in Client : client'[d] = IF d = c THEN Done ELSE client[d]
  BY DEF Typed, Refusing
<1>0. locks' = locks /\ client[c] = New
  BY DEF Refusing
<1>2. \A d \in Client : Opened(d)' = Opened(d) /\ (Opened(d) => client'[d] = client[d])
  BY <1>0, <1>1 DEF Opened, Done, New
<1>3. \A d \in Client : client'[d].at = "new" => client[d].at = "new"
  BY <1>1 DEF Done
<1>4. \A key : Holders(key)' = Holders(key)
  BY <1>2 DEF Holders
<1>5. HoldersOK'
  <2> SUFFICES ASSUME NEW d \in Client, Opened(d)' PROVE Holds(d)'
    BY DEF HoldersOK
  <2>1. Opened(d) /\ client'[d] = client[d]
    BY <1>2
  <2> QED BY <1>0, <2>1 DEF HoldersOK, Holds
<1>6. \A key \in DOMAIN locks : locks[key].aux \in Client
  BY DEF Typed, Lock
<1>7. LocksOK'
  BY <1>0, <1>2, <1>3, <1>4, <1>6 DEF LocksOK
<1> QED BY <1>2, <1>3, <1>5, <1>7

LEMMA FiniteHolders ==
  ASSUME FileAssumption, NEW key
  PROVE  IsFiniteSet(Holders(key)) /\ Cardinality(Holders(key)) \in Nat
<1>1. Holders(key) \in SUBSET Client
  BY DEF Holders
<1>2. IsFiniteSet(Client)
  BY DEF FileAssumption
<1> QED BY <1>1, <1>2, FS_Subset, FS_CardinalityType

(* Letting go of a lock: the last holder takes it with him.                *)
LEMMA Leaves ==
  ASSUME FileAssumption, Typed, LocksOK, HoldersOK, NEW c \in Client, Opened(c),
         NEW key, Leaving(c, key)
  PROVE  /\ LocksOK' /\ HoldersOK'
         /\ \A d \in Client : Opened(d)' <=> Opened(d) /\ d # c
         /\ \A d \in Client \ {c} : client'[d] = client[d]
         /\ client'[c].at # "new"
         /\ \A d \in Client : Opened(d)' => client[d].key \in DOMAIN locks'
<1>0. key = client[c].key /\ locks' = fh_unlock(locks, key)
  BY DEF Leaving
<1>1. key \in DOMAIN locks
  BY <1>0 DEF HoldersOK, Holds
<1>2. \A d \in Client : client'[d] = IF d = c THEN Done ELSE client[d]
  BY DEF Typed, Leaving
<1>3. \A d \in Client : Opened(d)' <=> Opened(d) /\ d # c
  BY <1>2 DEF Opened, Done
<1>4. client'[c].at = "done"
  BY <1>2 DEF Done
<1>5. /\ \A k \in DOMAIN locks \ {key} : k \in DOMAIN locks' /\ locks'[k] = locks[k]
      /\ DOMAIN locks' \subseteq DOMAIN locks
      /\ key \in DOMAIN locks' <=> locks[key].open_cnt # 1
      /\ key \in DOMAIN locks' =>
           /\ locks'[key].open_cnt = locks[key].open_cnt - 1
           /\ locks'[key].aux = locks[key].aux
           /\ locks'[key].type = locks[key].type
           /\ locks'[key].exclusive = locks[key].exclusive
  BY <1>0, <1>1, Unlocking
<1>6. /\ c \in Holders(key)
      /\ Holders(key)' = Holders(key) \ {c}
      /\ \A k : k # key => Holders(k)' = Holders(k)
  BY <1>0, <1>2, <1>3 DEF Holders
<1>7. /\ Cardinality(Holders(key)') = Cardinality(Holders(key)) - 1
      /\ Cardinality(Holders(key)) = 1 <=> Holders(key)' = {}
  <2>1. IsFiniteSet(Holders(key)) /\ Cardinality(Holders(key)) \in Nat
    BY FiniteHolders
  <2>2. /\ IsFiniteSet(Holders(key) \ {c})
        /\ Cardinality(Holders(key) \ {c}) = Cardinality(Holders(key)) - 1
    BY <1>6, <2>1, FS_RemoveElement
  <2>3. Cardinality(Holders(key) \ {c}) = 0 <=> Holders(key) \ {c} = {}
    BY <2>2, FS_EmptySet
  <2> QED BY <1>6, <2>1, <2>2, <2>3
<1>8. \A d \in Client : Opened(d)' => client[d].key \in DOMAIN locks'
  <2> SUFFICES ASSUME NEW d \in Client, Opened(d)' PROVE client[d].key \in DOMAIN locks'
    OBVIOUS
  <2>1. client[d].key \in DOMAIN locks
    BY <1>3 DEF HoldersOK, Holds
  <2>2. CASE client[d].key = key
    <3>1. d \in Holders(key) /\ d # c
      BY <1>3, <2>2 DEF Holders
    <3>2. Cardinality(Holders(key)) # 1
      BY <1>6, <1>7, <3>1
    <3> QED BY <1>1, <1>5, <2>2, <3>2 DEF LocksOK
  <2> QED BY <1>5, <2>1, <2>2
<1>9. \A k \in DOMAIN locks : locks[k].aux \in Client
  BY DEF Typed, Lock
<1>10. LocksOK'
  <2>1. ASSUME NEW k \in DOMAIN locks'
        PROVE  /\ locks'[k].open_cnt = Cardinality(Holders(k)') /\ Holders(k)' # {}
               /\ locks'[k].aux = locks[k].aux /\ locks'[k].exclusive = locks[k].exclusive
               /\ Holders(k)' \subseteq Holders(k) /\ k \in DOMAIN locks
    <3>1. CASE k # key
      BY <1>5, <1>6, <3>1 DEF LocksOK
    <3>2. CASE k = key
      BY <1>1, <1>5, <1>6, <1>7, <3>2 DEF LocksOK
    <3> QED BY <3>1, <3>2
  <2>2. \A k \in DOMAIN locks' :
          /\ client'[locks[k].aux].at # "new"
          /\ Opened(locks[k].aux)' => client'[locks[k].aux].key = k
    BY <1>2, <1>3, <1>4, <1>9, <2>1 DEF LocksOK
  <2> QED BY <2>1, <2>2 DEF LocksOK
<1>11. HoldersOK'
  <2> SUFFICES ASSUME NEW d \in Client, Opened(d)' PROVE Holds(d)'
    BY DEF HoldersOK
  <2>1. Opened(d) /\ client'[d] = client[d] /\ client[d].key \in DOMAIN locks'
    BY <1>2, <1>3, <1>8
  <2>2. PICK k : k = client[d].key
    OBVIOUS
  <2>3. /\ locks'[k].aux = locks[k].aux /\ locks'[k].type = locks[k].type
        /\ locks'[k].exclusive = locks[k].exclusive
    BY <1>5, <2>1, <2>2
  <2> QED BY <2>1, <2>2, <2>3 DEF HoldersOK, Holds
<1> QED BY <1>2, <1>3, <1>4, <1>8, <1>10, <1>11

(* Taking a lock, alone or in company.                                     *)
LEMMA Enters ==
  ASSUME FileAssumption, Typed, LocksOK, HoldersOK, NEW c \in Client,
         NEW n \in Name, NEW access \in {"read", "write"}, NEW type \in Type, NEW key,
         NEW owner, Entering(c, n, access, type, key, owner)
  PROVE  /\ LocksOK' /\ HoldersOK'
         /\ \A d \in Client \ {c} : client'[d] = client[d]
         /\ client'[c] = Client_(n, access, type, key, owner) /\ Opened(c)' /\ ~ Opened(c)
         /\ key \notin DOMAIN locks => Holders(key)' = {c}
<1> DEFINE exclusive == access = "write" /\ Exclusive(type)
<1>a. /\ client[c] = New
      /\ locks' = fh_lock(locks, key, type, exclusive, c) /\ exclusive \in BOOLEAN
  BY DEF Entering
<1>0. /\ client[c] = New /\ key[1] = access /\ exclusive \in BOOLEAN
      /\ Grants(locks, key, type, exclusive)
      /\ locks' = fh_lock(locks, key, type, exclusive, c)
      /\ owner = IF type = "data file" /\ key \in DOMAIN locks THEN locks[key].aux ELSE c
  BY DEF Entering
<1>1. \A d \in Client : client'[d] = IF d = c THEN Client_(n, access, type, key, owner)
                                               ELSE client[d]
  BY DEF Typed, Entering
<1> HIDE DEF exclusive
<1>2. /\ client'[c].at = "open" /\ client'[c].key = key /\ client'[c].type = type
      /\ client'[c].access = access /\ client'[c].owner = owner /\ client[c].at = "new"
  <2>1. client'[c] = Client_(n, access, type, key, owner)
    BY <1>1
  <2>2. client[c].at = "new"
    BY <1>a DEF New
  <2> QED BY <2>1, <2>2 DEF Client_
<1>3. \A d \in Client : Opened(d)' <=> Opened(d) \/ d = c
  BY <1>1, <1>2 DEF Opened
<1>4. ~ Opened(c)
  BY <1>2 DEF Opened
<1>5. /\ c \notin Holders(key)
      /\ Holders(key)' = Holders(key) \cup {c}
      /\ \A k : k # key => Holders(k)' = Holders(k)
  BY <1>1, <1>2, <1>3, <1>4 DEF Holders
<1>6. Cardinality(Holders(key)') = Cardinality(Holders(key)) + 1
  BY <1>5, FiniteHolders, FS_AddElement
<1>7. key \notin DOMAIN locks => Holders(key) = {}
  BY DEF Holders, HoldersOK, Holds
<1>8. \A k \in DOMAIN locks : locks[k].aux \in Client /\ locks[k].aux # c
  BY <1>2 DEF Typed, Lock, LocksOK
<1>9. /\ DOMAIN locks' = DOMAIN locks \cup {key}
      /\ \A k \in DOMAIN locks \ {key} : locks'[k] = locks[k]
      /\ key \in DOMAIN locks =>
           /\ locks'[key].open_cnt = locks[key].open_cnt + 1
           /\ locks'[key].aux = locks[key].aux
           /\ locks'[key].type = locks[key].type
           /\ locks'[key].exclusive = locks[key].exclusive
      /\ key \notin DOMAIN locks =>
           /\ locks'[key].open_cnt = 1 /\ locks'[key].exclusive = exclusive
           /\ locks'[key].type = type /\ locks'[key].aux = c
  <2>0. PICK e \in BOOLEAN : e = exclusive
    BY <1>a
  <2>1. IsLocked(fh_lock(locks, key, type, e, c), key, type, e, c)
    BY Locking
  <2>2. IsLocked(locks', key, type, exclusive, c)
    BY <1>a, <2>0, <2>1
  <2> QED BY <2>2 DEF IsLocked
<1>10. key \in DOMAIN locks => locks[key].type = type /\ ~ exclusive /\ ~ locks[key].exclusive
  BY <1>0 DEF Grants
<1>11. LocksOK'
  <2>1. ASSUME NEW k \in DOMAIN locks'
        PROVE  /\ locks'[k].open_cnt = Cardinality(Holders(k)') /\ Holders(k)' # {}
               /\ locks'[k].exclusive => \A d, e \in Holders(k)' : d = e
    <3>1. CASE k # key
      BY <1>5, <1>9, <3>1 DEF LocksOK
    <3>2. CASE k = key /\ key \in DOMAIN locks
      BY <1>5, <1>6, <1>9, <1>10, <3>2 DEF LocksOK
    <3>3. CASE k = key /\ key \notin DOMAIN locks
      <4>1. Holders(key)' = {c}
        BY <1>5, <1>7, <3>3
      <4>2. Cardinality(Holders(key)') = 1
        BY <4>1, FS_Singleton
      <4> QED BY <1>9, <3>3, <4>1, <4>2
    <3> QED BY <3>1, <3>2, <3>3
  <2>2. ASSUME NEW k \in DOMAIN locks'
        PROVE  /\ client'[locks'[k].aux].at # "new"
               /\ Opened(locks[k].aux)' => client'[locks'[k].aux].key = k
    <3>1. CASE k \in DOMAIN locks
      <4>1. locks'[k].aux = locks[k].aux
        BY <1>9, <3>1
      <4>2. PICK o : o = locks[k].aux
        OBVIOUS
      <4>3. o \in Client /\ o # c
        BY <1>8, <3>1, <4>2
      <4>4. client'[o] = client[o]
        BY <1>1, <4>3
      <4>5. locks'[k].aux = o
        BY <4>1, <4>2
      <4>6. client[o].at # "new" /\ (Opened(o) => client[o].key = k)
        BY <3>1, <4>2 DEF LocksOK
      <4> QED BY <4>4, <4>5, <4>6 DEF Opened
    <3>2. CASE k \notin DOMAIN locks
      <4>1. k = key /\ locks'[k].aux = c
        BY <1>9, <3>2
      <4> QED BY <1>2, <4>1
    <3> QED BY <3>1, <3>2
  <2>3. \A k, l \in DOMAIN locks' : locks'[k].aux = locks'[l].aux => k = l
    <3>1. \A k \in DOMAIN locks : locks'[k].aux = locks[k].aux /\ locks'[k].aux # c
      BY <1>8, <1>9
    <3>2. \A k \in DOMAIN locks' : k \notin DOMAIN locks => k = key /\ locks'[k].aux = c
      BY <1>9
    <3> QED BY <3>1, <3>2 DEF LocksOK
  <2> QED BY <2>1, <2>2, <2>3 DEF LocksOK
<1>12. HoldersOK'
  <2> SUFFICES ASSUME NEW d \in Client, Opened(d)' PROVE Holds(d)'
    BY DEF HoldersOK
  <2>1. CASE d = c
    <3>1. type = "data file" \/ type = "system file"
      BY DEF Type
    <3>2. access = "write" /\ key \in DOMAIN locks =>
            locks[key].exclusive = (type = "system file")
      <4>1. key \in DOMAIN locks => locks[key].exclusive \in BOOLEAN
        BY DEF Typed, Lock
      <4> QED BY <1>10, <3>1, <4>1 DEF Exclusive, exclusive
    <3>3. access = "write" => locks'[key].exclusive = (type = "system file")
      BY <1>9, <3>2 DEF Exclusive, exclusive
    <3>4. type = locks'[key].type /\ key \in DOMAIN locks'
      BY <1>9, <1>10
    <3>5. owner = IF type = "data file" THEN locks'[key].aux ELSE c
      BY <1>0, <1>9
    <3>6. key[1] = access
      BY <1>0
    <3>7. Suits(c, client'[c], locks'[key].aux, locks'[key].type, locks'[key].exclusive)
      BY <1>2, <3>3, <3>4, <3>5, <3>6 DEF Suits
    <3> QED BY <1>2, <2>1, <3>4, <3>7 DEF Holds
  <2>2. CASE d # c
    <3>1. Opened(d) /\ client'[d] = client[d] /\ client[d].key \in DOMAIN locks
      BY <1>1, <1>3, <2>2 DEF HoldersOK, Holds
    <3>2. PICK k : k = client[d].key
      OBVIOUS
    <3>3. /\ locks'[k].aux = locks[k].aux /\ locks'[k].type = locks[k].type
          /\ locks'[k].exclusive = locks[k].exclusive /\ k \in DOMAIN locks'
      BY <1>9, <3>1, <3>2
    <3> QED BY <3>1, <3>2, <3>3 DEF HoldersOK, Holds
  <2> QED BY <2>1, <2>2
<1> QED BY <1>1, <1>2, <1>4, <1>5, <1>7, <1>11, <1>12 DEF Opened

-----------------------------------------------------------------------------
(* Whose stream a client uses.                                             *)
LEMMA SameOwner ==
  ASSUME LocksOK, HoldersOK, NEW c \in Client, NEW d \in Client, Opened(c), Opened(d),
         client[c].owner = client[d].owner
  PROVE  /\ client[c].key = client[d].key /\ client[c].type = client[d].type
         /\ client[c].type # "data file" => c = d
<1>1. Holds(c) /\ Holds(d)
  BY DEF HoldersOK
<1>2. client[c].key = client[d].key
  <2>1. CASE client[c].type = "data file" /\ client[d].type = "data file"
    BY <1>1, <2>1 DEF Holds, Suits, LocksOK
  <2>2. CASE client[c].type = "data file" /\ client[d].type # "data file"
    BY <1>1, <2>2, ZenonT(30) DEF Holds, Suits, LocksOK
  <2>3. CASE client[c].type # "data file" /\ client[d].type = "data file"
    BY <1>1, <2>3, ZenonT(30) DEF Holds, Suits, LocksOK
  <2>4. CASE client[c].type # "data file" /\ client[d].type # "data file"
    BY <1>1, <2>4 DEF Holds, Suits
  <2> QED BY <2>1, <2>2, <2>3, <2>4
<1> QED BY <1>1, <1>2 DEF Holds, Suits

LEMMA OwnerKnown ==
  ASSUME LocksOK, HoldersOK, NEW c \in Client, Opened(c)
  PROVE  client[client[c].owner].at # "new"
<1>1. Holds(c) /\ client[c].at # "new"
  BY DEF HoldersOK, Opened
<1> QED BY <1>1 DEF Holds, Suits, LocksOK

(* What a client still has open, it has as before.                         *)
Keeps(d) ==
  LET s == Stream(d)
      t == stream'[client[d].owner]
  IN /\ Opened(d) /\ client'[d] = client[d]
     /\ t.kind = s.kind /\ t.fp = s.fp
     /\ IsOutput(s) => t.name = s.name

LEMMA Kept ==
  ASSUME StreamsOK, NamesOK,
         \A d \in Client : Opened(d)' => Keeps(d),
         \A d \in Client : client'[d].at = "new" =>
            client[d].at = "new" /\ stream'[d].kind = stream[d].kind,
         \A d \in Writers : Opened(d)' => IsOutput(Stream(d)) \/ Starting(client[d].owner)'
  PROVE  /\ StreamsOK'
         /\ UNCHANGED <<dir, erased>> => NamesOK'
<1>1. \A d \in Readers' : d \in Readers /\ Keeps(d) /\ client'[d] = client[d]
  BY DEF Readers, Keeps, Opened
<1>2. \A d \in Writers' : d \in Writers /\ Keeps(d) /\ client'[d] = client[d]
  BY DEF Writers, Keeps, Opened
<1>3. \A d \in Readers' : /\ Stream(d)'.kind = "read"
                          /\ client'[d].key = <<"read", "file", Stream(d)'.fp>>
  BY <1>1 DEF StreamsOK, Keeps, Stream
<1>4. \A d \in Writers' : /\ IsOutput(Stream(d)') <=> IsOutput(Stream(d))
                          /\ IsOutput(Stream(d)) => Stream(d)'.name = Stream(d).name
  BY <1>2 DEF Keeps, Stream, IsOutput
<1>5. StreamsOK'
  BY <1>1, <1>2, <1>3, <1>4 DEF StreamsOK, Writers, Starting
<1>6. UNCHANGED <<dir, erased>> => NamesOK'
  BY <1>2, <1>4 DEF NamesOK
<1> QED BY <1>5, <1>6

(* Two names that are not erased have different keys.                      *)
LEMMA KeysDiffer ==
  ASSUME NamesOK, NEW m \in Name, NEW n \in Name,
         make_key(dir, m, "write") = make_key(dir, n, "write")
  PROVE  m = n
<1>1. CASE dir[m] = Absent /\ dir[n] = Absent
  BY <1>1 DEF make_key
<1>2. CASE dir[m] # Absent /\ dir[n] # Absent
  BY <1>2 DEF make_key, NamesOK
<1>3. CASE (dir[m] = Absent) # (dir[n] = Absent)
  BY <1>3 DEF make_key
<1> QED BY <1>1, <1>2, <1>3

-----------------------------------------------------------------------------
LEMMA InitLInv == FileAssumption /\ Init => LInv
<1> SUFFICES ASSUME FileAssumption, Init PROVE LInv
  OBVIOUS
<1>1. \A c \in Client : client[c].at = "new" /\ ~ Opened(c) /\ stream[c].kind = "none"
  BY DEF Init, New, NoStream, Opened
<1>2. DOMAIN locks = {} /\ call.pc = "none"
  BY DEF Init, NoCall
<1>3. LocksOK /\ HoldersOK
  BY <1>1, <1>2 DEF LocksOK, HoldersOK
<1>4. StreamsOK /\ NamesOK /\ CallsOK
  BY <1>1, <1>2 DEF Init, StreamsOK, NamesOK, CallsOK, Readers, Writers
<1>5. TempsOK
  BY <1>2 DEF Init, TempsOK
<1> QED BY <1>3, <1>4, <1>5 DEF LInv

(* Nothing that a client has open is touched.                              *)
LEMMA Untouched ==
  ASSUME LInv, UNCHANGED <<dir, erased, locks, client, stream>>,
         \/ call.pc \in {"start", "create"} /\ call'.c = call.c /\ call'.pc \in {"start", "create"}
         \/ call.pc \notin {"start", "create"}
  PROVE  LocksOK' /\ HoldersOK' /\ StreamsOK' /\ NamesOK'
<1>1. LocksOK' /\ HoldersOK'
  BY Frame DEF LInv
<1>2. \A d \in Client : Opened(d)' => Keeps(d)
  BY DEF Opened, Keeps, Stream
<1>3. \A d \in Writers : IsOutput(Stream(d)) \/ Starting(client[d].owner)'
  BY DEF LInv, StreamsOK, Starting
<1> QED BY <1>1, <1>2, <1>3, Kept DEF LInv

LEMMA RefusedLInv ==
  ASSUME FileAssumption, IInv, LInv, NEW c \in Client, NEW n \in Name, NEW type \in Type,
         \/ WriterRefused(c, n, type)
         \/ ReaderRefused(c, n, type)
         \/ OpenReaderFails(c, n, type)
  PROVE  LInv'
<1>1. /\ client[c] = New /\ client' = [client EXCEPT ![c] = Done]
      /\ UNCHANGED <<dir, erased, stream, call, temps, all_files, blocked, process>>
      /\ call.pc = "none"
  <2>1. call = NoCall => call.pc = "none"
    BY DEF NoCall
  <2>2. CASE WriterRefused(c, n, type)
    BY <2>1, <2>2 DEF WriterRefused, Idle, disk, replacing
  <2>3. CASE ReaderRefused(c, n, type)
    BY <2>1, <2>3 DEF ReaderRefused, Idle, disk, replacing
  <2>4. CASE OpenReaderFails(c, n, type)
    BY <2>1, <2>4 DEF OpenReaderFails, Idle, disk, replacing
  <2> QED BY <2>2, <2>3, <2>4
<1>2. locks' = locks
  <2>1. CASE OpenReaderFails(c, n, type)
    <3>1. PICK key : key = make_key(dir, n, "read")
      OBVIOUS
    <3>2. locks' = fh_unlock(fh_lock(locks, key, type, FALSE, c), key)
      BY <2>1, <3>1 DEF OpenReaderFails
    <3>3. CASE key \notin DOMAIN locks
      <4> DEFINE new == [open_cnt |-> 1, exclusive |-> FALSE, type |-> type, aux |-> c]
                 t == [k \in {key} \cup DOMAIN locks |-> IF k = key THEN new ELSE locks[k]]
      <4>1. fh_lock(locks, key, type, FALSE, c) = t
        BY <3>3 DEF fh_lock
      <4>2. new.open_cnt = 1
        OBVIOUS
      <4> HIDE DEF new
      <4>3. t[key].open_cnt = 1
        BY <4>2
      <4>4. locks' = [k \in DOMAIN t \ {key} |-> t[k]]
        BY <3>2, <4>1, <4>3 DEF fh_unlock
      <4>5. locks = [k \in DOMAIN locks |-> locks[k]]
        BY DEF IInv, Typed
      <4>6. DOMAIN t \ {key} = DOMAIN locks /\ \A k \in DOMAIN locks : t[k] = locks[k]
        BY <3>3
      <4> HIDE DEF t
      <4> QED BY <4>4, <4>5, <4>6
    <3>4. CASE key \in DOMAIN locks
      <4> DEFINE cnt == locks[key].open_cnt
                 t == [locks EXCEPT ![key].open_cnt = cnt + 1]
      <4>1. fh_lock(locks, key, type, FALSE, c) = t
        BY <3>4 DEF fh_lock
      <4>2. cnt \in Nat \ {0}
        <5>1. Holders(key) # {} /\ cnt = Cardinality(Holders(key))
          BY <3>4 DEF LInv, LocksOK
        <5> QED BY <5>1, FiniteHolders, FS_EmptySet
      <4>3. locks[key] \in Lock /\ locks \in [DOMAIN locks -> Lock]
        BY <3>4 DEF IInv, Typed
      <4>4. t = [locks EXCEPT ![key] = [locks[key] EXCEPT !.open_cnt = cnt + 1]]
        OBVIOUS
      <4>5. /\ [locks[key] EXCEPT !.open_cnt = cnt + 1].open_cnt = cnt + 1
            /\ [[locks[key] EXCEPT !.open_cnt = cnt + 1] EXCEPT !.open_cnt = cnt] = locks[key]
        BY <4>3 DEF Lock
      <4>6. t[key] = [locks[key] EXCEPT !.open_cnt = cnt + 1] /\ DOMAIN t = DOMAIN locks
        BY <3>4, <4>3, <4>4
      <4>7. t[key].open_cnt = cnt + 1 /\ t[key].open_cnt # 1 /\ t[key].open_cnt - 1 = cnt
        <5>1. t[key].open_cnt = cnt + 1
          BY <4>5, <4>6
        <5>2. \A m \in Nat \ {0} : m + 1 # 1 /\ (m + 1) - 1 = m
          OBVIOUS
        <5> HIDE DEF t, cnt
        <5> QED BY <4>2, <5>1, <5>2
      <4>8. locks' = [t EXCEPT ![key].open_cnt = t[key].open_cnt - 1]
        BY <3>2, <4>1, <4>7 DEF fh_unlock
      <4>9. locks' = [t EXCEPT ![key] = [t[key] EXCEPT !.open_cnt = cnt]]
        BY <4>7, <4>8
      <4>10. locks' = [t EXCEPT ![key] = locks[key]]
        BY <4>5, <4>6, <4>9
      <4> QED BY <3>4, <4>3, <4>4, <4>6, <4>10
    <3> QED BY <3>3, <3>4
  <2> QED BY <2>1 DEF WriterRefused, ReaderRefused
<1>3. Refusing(c)
  BY <1>1, <1>2 DEF Refusing
<1>4. /\ LocksOK' /\ HoldersOK'
      /\ \A d \in Client : Opened(d)' = Opened(d)
      /\ \A d \in Client : client'[d].at = "new" => client[d].at = "new"
      /\ \A d \in Client : Opened(d) => client'[d] = client[d]
  BY <1>3, Refuses DEF IInv, LInv
<1>5. \A d \in Client : Opened(d)' => Keeps(d)
  BY <1>1, <1>4 DEF Keeps, Stream
<1>6. \A d \in Writers : IsOutput(Stream(d))
  BY <1>1 DEF LInv, StreamsOK, Starting
<1>7. StreamsOK' /\ NamesOK'
  BY <1>1, <1>4, <1>5, <1>6, Kept DEF LInv
<1>8. CallsOK' /\ TempsOK'
  BY <1>1 DEF LInv, CallsOK, TempsOK
<1> QED BY <1>4, <1>7, <1>8 DEF LInv

-----------------------------------------------------------------------------
(* The steps of a call that touch no lock, no client and no stream.        *)
LEMMA CallGoesOn ==
  ASSUME LInv, UNCHANGED <<dir, erased, locks, client, stream>>,
         \/ call'.pc = "none" /\ call.pc \notin {"start", "create"}
         \/ call'.c = call.c /\ call'.pc = call.pc
         \/ call'.c = call.c /\ {call.pc, call'.pc} \subseteq {"start", "create"}
         \/ call'.c = call.c /\ {call.pc, call'.pc} \subseteq {"fclose", "rename", "unlink"}
  PROVE  LocksOK' /\ HoldersOK' /\ StreamsOK' /\ NamesOK' /\ CallsOK'
<1>1. LocksOK' /\ HoldersOK'
  BY Frame DEF LInv
<1>2. /\ \A d \in Client : Opened(d)' = Opened(d) /\ Stream(d)' = Stream(d)
      /\ \A key : Holders(key)' = Holders(key)
      /\ Readers' = Readers /\ Writers' = Writers
  BY DEF Opened, Holders, Readers, Writers, Stream
<1>3. \A d \in Writers : IsOutput(Stream(d)) \/ Starting(client[d].owner)'
  BY DEF LInv, StreamsOK, Starting
<1>4. StreamsOK' /\ NamesOK'
  <2>1. \A d \in Client : Opened(d)' => Keeps(d)
    BY <1>2 DEF Keeps, Stream
  <2> QED BY <1>3, <2>1, Kept DEF LInv
<1>5. CASE call'.pc = "none"
  BY <1>1, <1>4, <1>5 DEF CallsOK
<1>6. CASE call'.pc # "none"
  <2>1. PICK o : o = call.c
    OBVIOUS
  <2>2. /\ call.c = o /\ call'.c = o
        /\ call'.pc = "register" <=> call.pc = "register"
        /\ call'.pc \in {"start", "create", "register"} =>
             call.pc \in {"start", "create", "register"}
        /\ call'.pc \in {"fclose", "rename", "unlink"} =>
             call.pc \in {"fclose", "rename", "unlink"}
    BY <1>6, <2>1
  <2>3. call'.pc \in {"start", "create", "register"} =>
          /\ o \in Writers' /\ client'[o].owner = o
          /\ Holders(client[o].key)' = {o}
          /\ call'.pc # "register" => stream'[o].kind = "none"
          /\ call'.pc = "register" => stream'[o].kind = "replace"
    BY <1>2, <2>2 DEF LInv, CallsOK
  <2>4. call'.pc \in {"fclose", "rename", "unlink"} =>
          /\ IsOutput(stream'[o])
          /\ Opened(o)' => o \in Writers' /\ client'[o].type = "system file"
          /\ \A d \in Client \ {o} : Opened(d)' => client'[d].owner # o
          /\ \A d \in Writers' \ {o} :
               stream'[o].name \in {client'[d].name, Stream(d)'.name} =>
                 stream'[o].name \in erased'
    <3> SUFFICES ASSUME call.pc \in {"fclose", "rename", "unlink"}
        PROVE  /\ IsOutput(stream[o])
               /\ Opened(o)' => o \in Writers /\ client[o].type = "system file"
               /\ \A d \in Client \ {o} : Opened(d)' => client[d].owner # o
               /\ \A d \in Writers \ {o} :
                    stream[o].name \in {client[d].name, Stream(d)'.name} =>
                      stream[o].name \in erased
      BY <1>2, <2>2
    <3>1. /\ \A d \in Client : Opened(d)' = Opened(d) /\ Stream(d)' = Stream(d)
          /\ Opened(o)' = Opened(o)
      BY <1>2 DEF Opened
    <3>2. Writers \subseteq Client
      BY DEF Writers
    <3> QED BY <2>2, <3>1, <3>2 DEF LInv, CallsOK
  <2>5. CallsOK'
    BY <2>2, <2>3, <2>4 DEF CallsOK
  <2> QED BY <1>1, <1>4, <2>5
<1> QED BY <1>5, <1>6

LEMMA QuietCallLInv ==
  ASSUME IInv, LInv, NEW c \in Client,
         \/ StartReplace(c) \/ Register(c) \/ BlockSignals(c) \/ fclose(c)
  PROVE  LInv'
<1>1. CASE StartReplace(c)
  <2>1. /\ call.pc = "start" /\ call.c = c
        /\ call' = [pc |-> "create", c |-> c]
        /\ UNCHANGED <<dir, erased, locks, client, stream, temps, all_files, process>>
        /\ blocked' = TRUE
    BY <1>1, AtCall DEF StartReplace, disk
  <2>2. c \notin all_files
    BY <1>1, <2>1 DEF LInv, CallsOK, TempsOK, StartReplace, At
  <2>3. call'.pc = "create" /\ call'.c = c
    BY <2>1
  <2>4. LocksOK' /\ HoldersOK' /\ StreamsOK' /\ NamesOK' /\ CallsOK'
    BY <2>1, <2>3, CallGoesOn
  <2>5. TempsOK'
    BY <2>1, <2>2, <2>3 DEF LInv, TempsOK
  <2> QED BY <2>4, <2>5 DEF LInv
<1>2. CASE Register(c)
  <2>1. /\ call.pc = "register" /\ call.c = c /\ call' = NoCall
        /\ UNCHANGED <<dir, erased, locks, client, stream, temps, process>>
        /\ all_files' = all_files \cup {c} /\ blocked' = FALSE /\ process = "running"
    BY <1>2, AtCall DEF Register, disk, At
  <2>3. call'.pc = "none"
    BY <2>1 DEF NoCall
  <2>4. LocksOK' /\ HoldersOK' /\ StreamsOK' /\ NamesOK' /\ CallsOK'
    BY <2>1, <2>3, CallGoesOn
  <2>5. TempsOK'
    BY <2>1, <2>3 DEF LInv, TempsOK
  <2> QED BY <2>4, <2>5 DEF LInv
<1>3. CASE BlockSignals(c)
  <2>1. /\ call' = call /\ call.pc \in {"rename", "unlink"}
        /\ UNCHANGED <<dir, erased, locks, client, stream, temps, all_files, process>>
        /\ blocked' = TRUE
    BY <1>3, AtCall DEF BlockSignals, disk
  <2>4. LocksOK' /\ HoldersOK' /\ StreamsOK' /\ NamesOK' /\ CallsOK'
    BY <2>1, CallGoesOn
  <2>5. TempsOK'
    BY <2>1 DEF LInv, TempsOK
  <2> QED BY <2>4, <2>5 DEF LInv
<1>4. CASE fclose(c)
  <2>1. /\ call.pc = "fclose" /\ call.c = c
        /\ call' \in {[pc |-> "rename", c |-> c], [pc |-> "unlink", c |-> c]}
        /\ UNCHANGED <<dir, erased, locks, client, stream, temps, all_files, blocked, process>>
    BY <1>4, AtCall DEF fclose, replacing
  <2>3. call'.pc \in {"rename", "unlink"} /\ call'.c = c
    BY <2>1
  <2>4. LocksOK' /\ HoldersOK' /\ StreamsOK' /\ NamesOK' /\ CallsOK'
    BY <2>1, <2>3, CallGoesOn
  <2>5. TempsOK'
    BY <2>1, <2>3 DEF LInv, TempsOK
  <2> QED BY <2>4, <2>5 DEF LInv
<1> QED BY <1>1, <1>2, <1>3, <1>4

LEMMA SignalLInv ==
  ASSUME LInv, unlink_replace_files
  PROVE  LInv'
<1>1. /\ UNCHANGED <<dir, erased, locks, client, stream, call, all_files, blocked>>
      /\ temps' = temps \ all_files /\ process' = "signalled"
      /\ process = "running" /\ ~ blocked
  BY DEF unlink_replace_files, disk
<1>2. LocksOK' /\ HoldersOK' /\ StreamsOK' /\ NamesOK' /\ CallsOK'
  BY <1>1, CallGoesOn
<1>3. TempsOK'
  BY <1>1 DEF LInv, TempsOK
<1> QED BY <1>2, <1>3 DEF LInv

LEMMA StutterLInv ==
  ASSUME LInv, UNCHANGED vars
  PROVE  LInv'
<1>1. UNCHANGED <<dir, erased, locks, client, stream, call, temps, all_files, blocked, process>>
  BY DEF vars
<1>2. LocksOK' /\ HoldersOK' /\ StreamsOK' /\ NamesOK' /\ CallsOK'
  BY <1>1, CallGoesOn
<1>3. TempsOK'
  BY <1>1 DEF LInv, TempsOK
<1> QED BY <1>2, <1>3 DEF LInv

-----------------------------------------------------------------------------
(* A client that lets go of his lock, and closes no one else's stream.     *)
LEMMA Leaver ==
  ASSUME FileAssumption, IInv, LInv, NEW c \in Client, Opened(c),
         Leaving(c, client[c].key),
         \A d \in Client : d # c /\ Opened(d) =>
            stream'[client[d].owner] = stream[client[d].owner],
         \A d \in Client : client[d].at = "new" => stream'[d] = stream[d],
         \A d \in Writers : d # c => ~ Starting(client[d].owner)
  PROVE  /\ LocksOK' /\ HoldersOK' /\ StreamsOK'
         /\ UNCHANGED <<dir, erased>> => NamesOK'
         /\ \A d \in Client : Opened(d)' <=> Opened(d) /\ d # c
         /\ \A d \in Client \ {c} : client'[d] = client[d]
<1>1. /\ LocksOK' /\ HoldersOK'
      /\ \A d \in Client : Opened(d)' <=> Opened(d) /\ d # c
      /\ \A d \in Client \ {c} : client'[d] = client[d]
      /\ client'[c].at # "new"
  BY Leaves DEF IInv, LInv
<1>2. \A d \in Client : Opened(d)' => Keeps(d)
  BY <1>1 DEF Keeps, Stream
<1>3. \A d \in Client : client'[d].at = "new" =>
        client[d].at = "new" /\ stream'[d].kind = stream[d].kind
  BY <1>1
<1>4. \A d \in Writers : Opened(d)' => IsOutput(Stream(d))
  BY <1>1 DEF LInv, StreamsOK, Writers
<1>5. StreamsOK' /\ (UNCHANGED <<dir, erased>> => NamesOK')
  BY <1>2, <1>3, <1>4, Kept DEF LInv
<1> QED BY <1>1, <1>5

(* The client of a call that opens is the only one of his lock and stream. *)
LEMMA Alone ==
  ASSUME LInv, NEW c \in Client, call.pc \in {"start", "create", "register"}, call.c = c
  PROVE  /\ Opened(c) /\ c \in Writers /\ client[c].owner = c
         /\ Holders(client[c].key) = {c}
         /\ \A d \in Client : Opened(d) /\ d # c => client[d].owner # c
<1>1. /\ c \in Writers /\ Opened(c) /\ client[c].owner = c
      /\ Holders(client[c].key) = {c}
  BY DEF LInv, CallsOK, Writers
<1>2. ASSUME NEW d \in Client, Opened(d), d # c, client[d].owner = c PROVE FALSE
  <2>1. client[c].key = client[d].key
    BY <1>1, <1>2, SameOwner DEF LInv
  <2>2. d \in Holders(client[c].key)
    BY <1>2, <2>1 DEF Holders
  <2> QED BY <1>1, <1>2, <2>2
<1> QED BY <1>1, <1>2

LEMMA GiveUpLInv ==
  ASSUME FileAssumption, IInv, LInv, NEW c \in Client,
         StartSpecialFails(c) \/ CreateFails(c)
  PROVE  LInv'
<1>1. /\ call.pc \in {"start", "create", "register"} /\ call.c = c
      /\ GiveUp(c)
      /\ UNCHANGED <<dir, erased, all_files>>
      /\ process = "running" /\ process' \in {"running", "crashed"}
  BY AtCall DEF StartSpecialFails, CreateFails, disk, replacing, At
<1>2. /\ Opened(c) /\ client[c].owner = c
      /\ \A d \in Client : Opened(d) /\ d # c => client[d].owner # c
  BY <1>1, Alone
<1>3. /\ Leaving(c, client[c].key)
      /\ stream' = [stream EXCEPT ![c] = NoStream] /\ call'.pc = "none"
  BY <1>1 DEF GiveUp, Leaving, NoCall
<1>4. stream'[c] = NoStream /\ \A d \in Client : d # c => stream'[d] = stream[d]
  BY <1>3 DEF IInv, Typed
<1>5. \A d \in Client : d # c /\ Opened(d) =>
         stream'[client[d].owner] = stream[client[d].owner]
  BY <1>2, <1>4, Opening
<1>6. \A d \in Client : client[d].at = "new" => stream'[d] = stream[d]
  BY <1>2, <1>4 DEF Opened
<1>7. \A d \in Writers : d # c => ~ Starting(client[d].owner)
  BY <1>1, <1>2 DEF Starting, Writers
<1>8. LocksOK' /\ HoldersOK' /\ StreamsOK' /\ NamesOK'
  BY <1>1, <1>2, <1>3, <1>5, <1>6, <1>7, Leaver
<1>9. CallsOK'
  BY <1>3 DEF CallsOK
<1>10. temps' = temps \ {c} /\ blocked' \in BOOLEAN
  <2>1. CASE StartSpecialFails(c)
    <3>1. call.pc = "start"
      BY <2>1, AtCall DEF StartSpecialFails
    <3>2. c \notin temps
      BY <1>1, <3>1 DEF LInv, CallsOK, TempsOK
    <3> QED BY <2>1, <3>2 DEF StartSpecialFails, replacing, LInv, TempsOK
  <2>2. CASE CreateFails(c)
    BY <2>2 DEF CreateFails
  <2> QED BY <2>1, <2>2
<1>11. c \notin all_files
  BY <1>1 DEF LInv, TempsOK, CallsOK
<1>12. TempsOK'
  BY <1>1, <1>3, <1>4, <1>10, <1>11 DEF LInv, TempsOK
<1> QED BY <1>8, <1>9, <1>12 DEF LInv

(* replace_file_start opens a stream for the client's name.                *)
LEMMA Streams ==
  ASSUME IInv, LInv, NEW c \in Client, call.pc \in {"start", "create", "register"}, call.c = c,
         UNCHANGED <<dir, erased, locks, client>>,
         NEW new, IsOutput(new), new.name = client[c].name,
         stream' = [stream EXCEPT ![c] = new]
  PROVE  /\ LocksOK' /\ HoldersOK' /\ StreamsOK' /\ NamesOK'
         /\ stream'[c] = new /\ \A d \in Client : d # c => stream'[d] = stream[d]
         /\ c \in Writers' /\ client'[c].owner = c /\ Holders(client[c].key)' = {c}
<1>1. /\ Opened(c) /\ c \in Writers /\ client[c].owner = c
      /\ Holders(client[c].key) = {c}
      /\ \A d \in Client : Opened(d) /\ d # c => client[d].owner # c
  BY Alone
<1>2. stream'[c] = new /\ \A d \in Client : d # c => stream'[d] = stream[d]
  BY DEF IInv, Typed
<1>3. LocksOK' /\ HoldersOK'
  BY Frame DEF LInv
<1>4. /\ \A d \in Client : Opened(d)' = Opened(d)
      /\ \A key : Holders(key)' = Holders(key)
      /\ Readers' = Readers /\ Writers' = Writers
  BY DEF Opened, Holders, Readers, Writers
<1>5. \A d \in Client : Opened(d) => Stream(d)' = IF d = c THEN new ELSE Stream(d)
  BY <1>1, <1>2, Opening DEF Stream
<1>6. c \notin Readers /\ client[c].at # "new"
  BY <1>1 DEF Readers, Writers, Opened
<1>7. \A d \in Writers : d # c => IsOutput(Stream(d))
  BY <1>1 DEF LInv, StreamsOK, Starting, Writers
<1>8. StreamsOK'
  <2>1. \A d \in Readers : /\ Stream(d)'.kind = "read"
                           /\ client'[d].key = <<"read", "file", Stream(d)'.fp>>
    BY <1>5, <1>6 DEF LInv, StreamsOK, Readers
  <2>2. \A d \in Writers : IsOutput(Stream(d)')
    BY <1>5, <1>7 DEF Writers
  <2>3. \A d \in Client : client[d].at = "new" => stream'[d].kind = "none"
    BY <1>2, <1>6 DEF LInv, StreamsOK
  <2> QED BY <1>4, <2>1, <2>2, <2>3 DEF StreamsOK
<1>9. NamesOK'
  <2>1. ASSUME NEW d \in Writers
        PROVE  /\ Stream(d)'.name \in erased \cup {client[d].name}
               /\ Stream(d)'.name \notin erased =>
                    client[d].key = make_key(dir, Stream(d)'.name, "write")
    BY <1>5, <1>7 DEF LInv, NamesOK, Writers
  <2> QED BY <1>4, <2>1 DEF LInv, NamesOK
<1>10. c \in Writers' /\ client'[c].owner = c
  BY <1>1, <1>4
<1>11. Holders(client[c].key)' = {c}
  BY <1>1, <1>4
<1> QED BY <1>2, <1>3, <1>8, <1>9, <1>10, <1>11

LEMMA StreamLInv ==
  ASSUME IInv, LInv, NEW c \in Client, StartSpecial(c) \/ CreateTemp(c)
  PROVE  LInv'
<1>1. CASE StartSpecial(c)
  <2> DEFINE new == [kind |-> "special", name |-> client[c].name,
                     fp |-> dir[client[c].name], error |-> FALSE]
  <2>1. /\ call.pc = "start" /\ call.c = c /\ process = "running" /\ call'.pc = "none"
        /\ stream' = [stream EXCEPT ![c] = new]
        /\ UNCHANGED <<dir, erased, locks, client, temps, all_files, blocked, process>>
    BY <1>1, AtCall DEF StartSpecial, At, disk, replacing, NoCall
  <2>2. IsOutput(new) /\ new.name = client[c].name
    BY DEF IsOutput
  <2> HIDE DEF new
  <2>3. /\ LocksOK' /\ HoldersOK' /\ StreamsOK' /\ NamesOK'
        /\ \A d \in Client : d # c => stream'[d] = stream[d]
    BY <2>1, <2>2, Streams
  <2>4. c \notin temps
    BY <2>1 DEF LInv, CallsOK, TempsOK
  <2>5. TempsOK' /\ CallsOK'
    BY <2>1, <2>3, <2>4 DEF LInv, TempsOK, CallsOK
  <2> QED BY <2>3, <2>5 DEF LInv
<1>2. CASE CreateTemp(c)
  <2>1. PICK i \in Free : stream' = [stream EXCEPT ![c] = [kind |-> "replace", fp |-> i,
                                        name |-> client[c].name, error |-> FALSE]]
    BY <1>2 DEF CreateTemp
  <2> DEFINE new == [kind |-> "replace", fp |-> i, name |-> client[c].name, error |-> FALSE]
  <2>2. /\ call.pc = "create" /\ call.c = c /\ process = "running"
        /\ call' = [pc |-> "register", c |-> c] /\ temps' = temps \cup {c}
        /\ UNCHANGED <<dir, erased, locks, client, all_files, blocked, process>>
    BY <1>2, AtCall DEF CreateTemp, At
  <2>3. IsOutput(new) /\ new.name = client[c].name /\ new.kind = "replace"
    BY DEF IsOutput
  <2>4. stream' = [stream EXCEPT ![c] = new]
    BY <2>1
  <2> HIDE DEF new
  <2>5. /\ LocksOK' /\ HoldersOK' /\ StreamsOK' /\ NamesOK'
        /\ stream'[c] = new /\ \A d \in Client : d # c => stream'[d] = stream[d]
        /\ c \in Writers' /\ client'[c].owner = c /\ Holders(client[c].key)' = {c}
    BY <2>2, <2>3, <2>4, Streams
  <2>6. call'.pc = "register" /\ call'.c = c
    BY <2>2
  <2>7. CallsOK'
    BY <2>3, <2>5, <2>6 DEF CallsOK
  <2>8. TempsOK'
    BY <2>2, <2>3, <2>5, <2>6 DEF LInv, TempsOK
  <2> QED BY <2>5, <2>7, <2>8 DEF LInv
<1> QED BY <1>1, <1>2

(* CloseReader lets go of the lock, and then closes the stream unless the  *)
(* lock is still there.                                                    *)
LEMMA CloseReaderLInv ==
  ASSUME FileAssumption, IInv, LInv, NEW c \in Client, CloseReader(c)
  PROVE  LInv'
<1> DEFINE o == client[c].owner
<1>1. /\ Opened(c) /\ c \in Readers /\ process = "running" /\ call.pc = "none"
      /\ Leaving(c, client[c].key)
      /\ UNCHANGED <<dir, erased, temps, all_files, blocked, call, process>>
      /\ stream' = IF client[c].type = "data file" /\ client[c].key \in DOMAIN locks'
                     THEN stream
                     ELSE [stream EXCEPT ![o] = NoStream]
  BY DEF CloseReader, Idle, NoCall, Readers, Leaving, disk, replacing
<1>2. o \in Client
  BY <1>1, Opening
<1>3. /\ \A d \in Client : Opened(d)' <=> Opened(d) /\ d # c
      /\ \A d \in Client : Opened(d)' => client[d].key \in DOMAIN locks'
  BY <1>1, Leaves DEF IInv, LInv
<1>4. /\ \A d \in Client : d # o => stream'[d] = stream[d]
      /\ stream'[o] \in {stream[o], NoStream}
  BY <1>1, <1>2 DEF IInv, Typed
<1>5. ASSUME NEW d \in Client, d # c, Opened(d)
      PROVE  stream'[client[d].owner] = stream[client[d].owner]
  <2>1. CASE client[d].owner # o
    BY <1>4, <1>5, <2>1, Opening
  <2>2. CASE client[d].owner = o
    <3>1. client[d].key = client[c].key /\ client[c].type = "data file"
      BY <1>1, <1>5, <2>2, SameOwner DEF LInv
    <3>2. client[c].key \in DOMAIN locks'
      BY <1>3, <1>5, <3>1
    <3> QED BY <1>1, <3>1, <3>2
  <2> QED BY <2>1, <2>2
<1>6. client[o].at # "new" /\ stream[o].kind = "read"
  BY <1>1, OwnerKnown DEF LInv, StreamsOK, Stream
<1>7. \A d \in Client : client[d].at = "new" => stream'[d] = stream[d]
  BY <1>4, <1>6
<1>8. \A d \in Writers : ~ Starting(client[d].owner)
  BY <1>1 DEF Starting
<1> HIDE DEF o
<1>9. LocksOK' /\ HoldersOK' /\ StreamsOK' /\ NamesOK'
  BY <1>1, <1>5, <1>7, <1>8, Leaver
<1>10. o \notin temps
  BY <1>6 DEF LInv, TempsOK
<1>11. CallsOK' /\ TempsOK'
  BY <1>1, <1>4, <1>10 DEF LInv, CallsOK, TempsOK
<1> QED BY <1>9, <1>11 DEF LInv

-----------------------------------------------------------------------------
(* Writing may mark the stream as faulty.                                  *)
LEMMA Faulty ==
  ASSUME IInv, NEW o \in Client, IsOutput(stream[o])
  PROVE  LET new == [stream[o] EXCEPT !.error = TRUE]
         IN new.kind = stream[o].kind /\ new.fp = stream[o].fp /\ new.name = stream[o].name
<1>1. stream[o] \in [kind : {"special", "replace", "failed"}, fp : Inode,
                     name : Name, error : BOOLEAN]
  BY DEF IInv, Typed, StreamState, IsOutput
<1> QED BY <1>1

LEMMA WriteLInv ==
  ASSUME IInv, LInv, NEW c \in Client, Write(c)
  PROVE  LInv'
<1>1. /\ c \in Writers /\ process = "running" /\ call.pc = "none"
      /\ UNCHANGED <<dir, erased, locks, client, temps, all_files, blocked, call, process>>
  BY DEF Write, Idle, NoCall, replacing
<1>2. PICK o : o = client[c].owner
  OBVIOUS
<1>3. o \in Client /\ IsOutput(stream[o])
  BY <1>1, <1>2, Opening DEF LInv, StreamsOK, Stream, Starting, Writers
<1>4. CASE stream' = stream
  <2>1. LocksOK' /\ HoldersOK' /\ StreamsOK' /\ NamesOK' /\ CallsOK'
    BY <1>1, <1>4, CallGoesOn
  <2>2. TempsOK'
    BY <1>1, <1>4 DEF LInv, TempsOK
  <2> QED BY <2>1, <2>2 DEF LInv
<1>5. CASE stream' # stream
  <2> DEFINE new == [stream[o] EXCEPT !.error = TRUE]
  <2>1. stream' = [stream EXCEPT ![o] = new]
    BY <1>2, <1>5 DEF Write
  <2>2. new.kind = stream[o].kind /\ new.fp = stream[o].fp /\ new.name = stream[o].name
    BY <1>3, Faulty
  <2> HIDE DEF new
  <2>3. \A d \in Client : /\ stream'[d].kind = stream[d].kind /\ stream'[d].fp = stream[d].fp
                          /\ stream'[d].name = stream[d].name \/ stream'[d] = stream[d]
    BY <2>1, <2>2 DEF IInv, Typed
  <2>4. \A d \in Client : Opened(d)' => Keeps(d)
    <3> SUFFICES ASSUME NEW d \in Client, Opened(d)' PROVE Keeps(d)
      OBVIOUS
    <3>1. Opened(d) /\ client[d].owner \in Client
      BY <1>1, Opening DEF Opened
    <3> QED BY <1>1, <2>3, <3>1 DEF Keeps, Stream
  <2>5. \A d \in Writers : IsOutput(Stream(d))
    BY <1>1 DEF LInv, StreamsOK, Starting
  <2>6. StreamsOK' /\ NamesOK'
    BY <1>1, <2>3, <2>4, <2>5, Kept DEF LInv
  <2>7. LocksOK' /\ HoldersOK'
    BY <1>1, Frame DEF LInv
  <2>8. CallsOK' /\ TempsOK'
    BY <1>1, <2>3 DEF LInv, CallsOK, TempsOK
  <2> QED BY <2>6, <2>7, <2>8 DEF LInv
<1> QED BY <1>4, <1>5

(* ERASE changes no key of a name that is not erased.                      *)
LEMMA EraseLInv ==
  ASSUME IInv, LInv, NEW n \in Name, cmd_erase(n)
  PROVE  LInv'
<1>1. /\ UNCHANGED <<locks, client, stream, temps, all_files, blocked, call, process>>
      /\ dir' = [dir EXCEPT ![n] = Absent] /\ erased' = erased \cup {n}
      /\ call.pc = "none"
  BY DEF cmd_erase, Idle, NoCall, replacing
<1>2. LocksOK' /\ HoldersOK'
  BY <1>1, Frame DEF LInv
<1>3. StreamsOK'
  <2>1. \A d \in Client : Opened(d)' => Keeps(d)
    BY <1>1 DEF Keeps, Stream, Opened
  <2>2. \A d \in Writers : IsOutput(Stream(d))
    BY <1>1 DEF LInv, StreamsOK, Starting
  <2> QED BY <1>1, <2>1, <2>2, Kept DEF LInv
<1>4. \A m \in Name : dir'[m] = IF m = n THEN Absent ELSE dir[m]
  BY <1>1 DEF IInv, Typed
<1>5. \A m : m \notin erased' => m \notin erased /\ make_key(dir', m, "write") = make_key(dir, m, "write")
  <2> SUFFICES ASSUME NEW m, m \notin erased'
               PROVE  m \notin erased /\ dir'[m] = dir[m]
    BY DEF make_key
  <2>1. m # n
    BY <1>1
  <2> QED BY <1>1, <2>1
<1>6. NamesOK'
  <2>1. Writers' = Writers /\ \A d \in Client : Stream(d)' = Stream(d)
    BY <1>1 DEF Writers, Opened, Stream
  <2>2. Writers \subseteq Client /\ erased \subseteq erased'
    BY <1>1 DEF Writers
  <2>3. \A d \in Writers :
          /\ client[d].name \notin erased' =>
               client[d].key = make_key(dir', client[d].name, "write")
          /\ IsOutput(Stream(d)) =>
               /\ Stream(d).name \in erased' \cup {client[d].name}
               /\ Stream(d).name \notin erased' =>
                    client[d].key = make_key(dir', Stream(d).name, "write")
    BY <1>5, <2>2 DEF LInv, NamesOK
  <2>4. \A l, m \in Name : dir'[l] = dir'[m] /\ l # m => dir'[m] = Absent
    BY <1>4 DEF LInv, NamesOK
  <2> QED BY <1>1, <2>1, <2>2, <2>3, <2>4 DEF NamesOK
<1>7. CallsOK' /\ TempsOK'
  BY <1>1 DEF LInv, CallsOK, TempsOK
<1> QED BY <1>2, <1>3, <1>6, <1>7 DEF LInv

-----------------------------------------------------------------------------
(* A client that joins others has their stream: another client holds the   *)
(* lock, and its stream is the stream of the lock's owner.                 *)
LEMMA Joining ==
  ASSUME IInv, LInv, NEW key \in DOMAIN locks, locks[key].type = "data file"
  PROVE  \E h \in Client : /\ Opened(h) /\ client[h].key = key /\ client[h].access = key[1]
                           /\ client[h].owner = locks[key].aux
<1>0. Holders(key) # {}
  BY DEF LInv, LocksOK
<1>1. PICK h \in Client : Opened(h) /\ client[h].key = key
  BY <1>0 DEF Holders
<1>2. Holds(h)
  BY <1>1 DEF LInv, HoldersOK
<1> QED BY <1>1, <1>2 DEF Holds, Suits

LEMMA OpenWriterLInv ==
  ASSUME FileAssumption, IInv, LInv, NEW c \in Client, NEW n \in Name, NEW type \in Type,
         OpenWriter(c, n, type)
  PROVE  LInv'
<1> DEFINE key == make_key(dir, n, "write")
           joins == type = "data file" /\ key \in DOMAIN locks
           owner == IF joins THEN locks[key].aux ELSE c
<1>1. /\ process = "running" /\ call.pc = "none" /\ client[c] = New
      /\ Grants(locks, key, type, Exclusive(type))
      /\ locks' = fh_lock(locks, key, type, Exclusive(type), c)
      /\ client' = [client EXCEPT ![c] = Client_(n, "write", type, key, owner)]
      /\ call' = IF joins THEN NoCall ELSE [pc |-> "start", c |-> c]
      /\ UNCHANGED <<dir, erased, stream, temps, all_files, blocked, process>>
  <2>1. call = NoCall => call.pc = "none"
    BY DEF NoCall
  <2> QED BY <2>1 DEF OpenWriter, Idle, disk, replacing
<1>2. key[1] = "write"
  BY DEF make_key
<1>3. Entering(c, n, "write", type, key, owner)
  <2>1. ("write" = "write" /\ Exclusive(type)) = Exclusive(type)
    BY DEF Exclusive
  <2> QED BY <1>1, <1>2, <2>1 DEF Entering
<1>4. /\ LocksOK' /\ HoldersOK'
      /\ \A d \in Client \ {c} : client'[d] = client[d]
      /\ client'[c] = Client_(n, "write", type, key, owner) /\ Opened(c)' /\ ~ Opened(c)
      /\ \A k : k = key /\ k \notin DOMAIN locks => Holders(k)' = {c}
  <2> HIDE DEF key, owner
  <2> QED BY <1>3, Enters DEF IInv, LInv
<1>0. client[c].at = "new"
  <2>1. client[c] = New
    BY DEF OpenWriter
  <2> QED BY <2>1 DEF New
<1> HIDE DEF key, owner
<1>5. /\ client'[c].name = n /\ client'[c].access = "write" /\ client'[c].key = key
      /\ client'[c].owner = owner /\ client'[c].at = "open"
  BY <1>4 DEF Client_
<1>6. Readers' = Readers /\ Writers' = Writers \cup {c}
  <2>1. \A d \in Client : d # c => client'[d] = client[d]
    BY <1>4
  <2>2. ~ Opened(c)
    BY <1>4
  <2> QED BY <1>5, <2>1, <2>2 DEF Readers, Writers, Opened
<1>7. \A d \in Writers : IsOutput(Stream(d)) /\ d # c /\ Stream(d)' = Stream(d)
  <2>1. \A d \in Writers : d # c /\ d \in Client
    BY <1>4 DEF Writers
  <2> QED BY <1>1, <1>4, <2>1 DEF LInv, StreamsOK, Starting, Stream
<1>8. StreamsOK' /\ NamesOK' /\ CallsOK' /\ TempsOK'
  <2>1. \A d \in Readers' : /\ Stream(d)'.kind = "read"
                            /\ client'[d].key = <<"read", "file", Stream(d)'.fp>>
    <3>1. \A d \in Readers : d # c /\ d \in Client
      BY <1>4 DEF Readers
    <3> QED BY <1>1, <1>4, <1>6, <3>1 DEF LInv, StreamsOK, Stream
  <2>2. \A d \in Client : client'[d].at = "new" => stream'[d].kind = "none"
    BY <1>1, <1>4, <1>5 DEF LInv, StreamsOK
  <2>3. \A d \in Writers :
          /\ client'[d].name \notin erased => client'[d].key = make_key(dir, client'[d].name, "write")
          /\ IsOutput(Stream(d)') =>
               /\ Stream(d)'.name \in erased \cup {client'[d].name}
               /\ Stream(d)'.name \notin erased =>
                    client'[d].key = make_key(dir, Stream(d)'.name, "write")
    <3>1. \A d \in Writers : client'[d] = client[d]
      BY <1>4, <1>7 DEF Writers
    <3> QED BY <1>7, <3>1 DEF LInv, NamesOK
  <2>4. \A l, m \in Name : dir'[l] = dir'[m] /\ l # m => dir'[m] = Absent
    BY <1>1 DEF LInv, NamesOK
  <2>5. CASE joins
    <3>1. locks[key].type = "data file" /\ key \in DOMAIN locks
      BY <1>1, <2>5 DEF Grants
    <3>2. PICK h \in Client : /\ Opened(h) /\ client[h].key = key
                              /\ client[h].access = key[1] /\ client[h].owner = locks[key].aux
      BY <3>1, Joining
    <3>3. h \in Writers /\ client[h].owner = owner
      BY <1>2, <2>5, <3>2 DEF Writers, owner
    <3>4. IsOutput(Stream(h)) /\ Stream(c)' = Stream(h)
      BY <1>1, <1>5, <1>7, <3>3 DEF Stream
    <3>5. Stream(h).name \in Name
      <4>1. client[h].owner \in Client
        BY <3>2, Opening
      <4>2. Stream(h) \in StreamState
        BY <4>1 DEF Stream, IInv, Typed
      <4> QED BY <3>4, <4>2 DEF StreamState, IsOutput
    <3>6. Stream(h).name \notin erased => Stream(h).name = n
      <4> SUFFICES ASSUME Stream(h).name \notin erased PROVE Stream(h).name = n
        OBVIOUS
      <4>1. key = make_key(dir, Stream(h).name, "write")
        BY <3>2, <3>3, <3>4 DEF LInv, NamesOK
      <4>2. PICK m \in Name : m = Stream(h).name
        BY <3>5
      <4> QED BY <4>1, <4>2, KeysDiffer DEF key, LInv
    <3>7. /\ Stream(c)'.name \in erased \cup {n}
          /\ Stream(c)'.name \notin erased => key = make_key(dir, Stream(c)'.name, "write")
      BY <3>4, <3>6 DEF key
    <3>8. StreamsOK'
      BY <1>6, <1>7, <2>1, <2>2, <3>4 DEF StreamsOK
    <3>9. NamesOK'
      BY <1>1, <1>5, <1>6, <2>3, <2>4, <3>7 DEF NamesOK, key
    <3>10. call'.pc = "none"
      BY <1>1, <2>5 DEF NoCall
    <3>11. CallsOK' /\ TempsOK'
      BY <1>1, <3>10 DEF LInv, CallsOK, TempsOK
    <3> QED BY <3>8, <3>9, <3>11
  <2>6. CASE ~ joins
    <3>1. key \notin DOMAIN locks
      BY <1>1, <2>6 DEF Grants, Exclusive, Type
    <3>2. call'.pc = "start" /\ call'.c = c /\ owner = c
      BY <1>1, <2>6 DEF owner
    <3>3. stream[c].kind = "none"
      BY <1>0 DEF LInv, StreamsOK
    <3>4. Stream(c)' = stream[c] /\ ~ IsOutput(Stream(c)')
      BY <1>1, <1>5, <3>2, <3>3 DEF Stream, IsOutput
    <3>5. StreamsOK'
      BY <1>5, <1>6, <1>7, <2>1, <2>2, <3>2 DEF StreamsOK, Starting
    <3>6. NamesOK'
      BY <1>1, <1>5, <1>6, <2>3, <2>4, <3>4 DEF NamesOK, key
    <3>7. CallsOK'
      <4>1. Holders(client[c].key)' = {c}
        BY <1>4, <1>5, <3>1
      <4> QED BY <1>1, <1>5, <1>6, <3>2, <3>3, <4>1 DEF CallsOK
    <3>8. TempsOK'
      BY <1>1, <3>2 DEF LInv, TempsOK
    <3> QED BY <3>5, <3>6, <3>7, <3>8
  <2> QED BY <2>5, <2>6
<1> QED BY <1>4, <1>8 DEF LInv

LEMMA OpenReaderLInv ==
  ASSUME FileAssumption, IInv, LInv, NEW c \in Client, NEW n \in Name, NEW type \in Type,
         OpenReader(c, n, type)
  PROVE  /\ LInv'
         /\ \A d \in Client \ {c} : client'[d] = client[d]
         /\ Stream(c)'.fp = dir[n] /\ client'[c].name = n
<1> DEFINE key == make_key(dir, n, "read")
           joins == type = "data file" /\ key \in DOMAIN locks
           owner == IF joins THEN locks[key].aux ELSE c
<1>1. /\ process = "running" /\ call.pc = "none" /\ client[c] = New
      /\ Grants(locks, key, type, FALSE)
      /\ joins \/ dir[n] # Absent
      /\ locks' = fh_lock(locks, key, type, FALSE, c)
      /\ client' = [client EXCEPT ![c] = Client_(n, "read", type, key, owner)]
      /\ stream' = IF joins THEN stream
                            ELSE [stream EXCEPT ![c] = [kind |-> "read", fp |-> dir[n],
                                                        shows |-> content[dir[n]]]]
      /\ UNCHANGED <<dir, erased, temps, all_files, blocked, call, process>>
  <2>1. call = NoCall => call.pc = "none"
    BY DEF NoCall
  <2> QED BY <2>1 DEF OpenReader, Idle, disk, replacing
<1>2. key[1] = "read"
  BY DEF make_key
<1>3. Entering(c, n, "read", type, key, owner)
  <2>1. ("read" = "write" /\ Exclusive(type)) = FALSE
    OBVIOUS
  <2> QED BY <1>1, <1>2, <2>1 DEF Entering
<1>4. /\ LocksOK' /\ HoldersOK'
      /\ \A d \in Client \ {c} : client'[d] = client[d]
      /\ client'[c] = Client_(n, "read", type, key, owner) /\ Opened(c)' /\ ~ Opened(c)
  <2> HIDE DEF key, owner
  <2> QED BY <1>3, Enters DEF IInv, LInv
<1>0. client[c].at = "new"
  <2>1. client[c] = New
    BY DEF OpenReader
  <2> QED BY <2>1 DEF New
<1> HIDE DEF key, owner
<1>5. /\ client'[c].name = n /\ client'[c].access = "read" /\ client'[c].key = key
      /\ client'[c].owner = owner /\ client'[c].at = "open"
  BY <1>4 DEF Client_
<1>6. Readers' = Readers \cup {c} /\ Writers' = Writers
  <2>1. \A d \in Client : d # c => client'[d] = client[d]
    BY <1>4
  <2>2. ~ Opened(c)
    BY <1>4
  <2> QED BY <1>5, <2>1, <2>2 DEF Readers, Writers, Opened
<1>7. stream[c].kind = "none" /\ \A d \in Client : d # c => stream'[d] = stream[d]
  BY <1>0, <1>1 DEF LInv, StreamsOK, IInv, Typed
<1>8. \A d \in Client : Opened(d) => d # c /\ client'[d] = client[d] /\ Stream(d)' = Stream(d)
  <2> SUFFICES ASSUME NEW d \in Client, Opened(d)
               PROVE  d # c /\ client'[d] = client[d] /\ Stream(d)' = Stream(d)
    OBVIOUS
  <2>1. client[d].owner \in Client /\ client[d].owner # c
    BY <1>0, Opening, OwnerKnown DEF LInv
  <2> QED BY <1>4, <1>7, <2>1 DEF Stream
<1>9. Stream(c)'.kind = "read" /\ key = <<"read", "file", Stream(c)'.fp>>
  <2>1. CASE joins
    <3>1. locks[key].type = "data file" /\ key \in DOMAIN locks
      BY <1>1, <2>1 DEF Grants
    <3>2. PICK h \in Client : /\ Opened(h) /\ client[h].key = key
                              /\ client[h].access = key[1] /\ client[h].owner = locks[key].aux
      BY <3>1, Joining
    <3>3. h \in Readers /\ client[h].owner = owner
      BY <1>2, <2>1, <3>2 DEF Readers, owner
    <3>4. Stream(c)' = Stream(h)
      BY <1>1, <1>5, <2>1, <3>3 DEF Stream
    <3> QED BY <3>2, <3>3, <3>4 DEF LInv, StreamsOK
  <2>2. CASE ~ joins
    <3>1. stream'[c] = [kind |-> "read", fp |-> dir[n], shows |-> content[dir[n]]]
      BY <1>1, <2>2 DEF IInv, Typed
    <3>2. owner = c /\ dir[n] # Absent
      BY <1>1, <2>2 DEF owner
    <3> QED BY <1>5, <3>1, <3>2 DEF Stream, key, make_key
  <2> QED BY <2>1, <2>2
<1>10. StreamsOK'
  <2>1. \A d \in Readers' : Stream(d)'.kind = "read" /\ client'[d].key = <<"read", "file", Stream(d)'.fp>>
    BY <1>5, <1>6, <1>8, <1>9 DEF LInv, StreamsOK, Readers
  <2>2. \A d \in Writers : IsOutput(Stream(d)')
    BY <1>1, <1>8 DEF LInv, StreamsOK, Writers, Starting
  <2>3. \A d \in Client : client'[d].at = "new" => stream'[d].kind = "none"
    BY <1>4, <1>5, <1>7 DEF LInv, StreamsOK
  <2> QED BY <1>6, <2>1, <2>2, <2>3 DEF StreamsOK
<1>11. NamesOK'
  <2>1. \A d \in Writers : client'[d] = client[d] /\ Stream(d)' = Stream(d)
    BY <1>8 DEF Writers
  <2>2. UNCHANGED <<dir, erased>>
    BY <1>1
  <2>3. \A d \in Writers :
          /\ client'[d].name \notin erased => client'[d].key = make_key(dir, client'[d].name, "write")
          /\ IsOutput(Stream(d)') =>
               /\ Stream(d)'.name \in erased \cup {client'[d].name}
               /\ Stream(d)'.name \notin erased =>
                    client'[d].key = make_key(dir, Stream(d)'.name, "write")
    BY <2>1 DEF LInv, NamesOK
  <2>4. \A l, m \in Name : dir[l] = dir[m] /\ l # m => dir[m] = Absent
    BY DEF LInv, NamesOK
  <2> QED BY <1>6, <2>2, <2>3, <2>4 DEF NamesOK
<1>12. c \notin temps
  BY <1>7 DEF LInv, TempsOK
<1>13. CallsOK' /\ TempsOK'
  BY <1>1, <1>7, <1>12 DEF LInv, CallsOK, TempsOK
<1>14. Stream(c)'.fp = dir[n] /\ client'[c].name = n
  BY <1>5, <1>9 DEF key, make_key
<1> QED BY <1>4, <1>10, <1>11, <1>13, <1>14 DEF LInv

-----------------------------------------------------------------------------
(* Writers that a name brings together hold one lock.                      *)
LEMMA NameTellsKey ==
  ASSUME IInv, LInv, call.pc = "none", NEW c \in Writers, NEW d \in Writers,
         Stream(c).name \in {client[d].name, Stream(d).name},
         Stream(c).name \notin erased
  PROVE  client[c].key = client[d].key
<1>1. IsOutput(Stream(c)) /\ IsOutput(Stream(d))
  BY DEF LInv, StreamsOK, Starting
<1>2. client[c].key = make_key(dir, Stream(c).name, "write")
  BY <1>1 DEF LInv, NamesOK
<1>3. client[d].key = make_key(dir, Stream(c).name, "write")
  BY <1>1 DEF LInv, NamesOK
<1> QED BY <1>2, <1>3

LEMMA CloseWriterLInv ==
  ASSUME FileAssumption, IInv, LInv, NEW c \in Client, CloseWriter(c)
  PROVE  LInv'
<1>0. PICK o : o = client[c].owner
  OBVIOUS
<1>1. /\ c \in Writers /\ Opened(c) /\ process = "running" /\ call.pc = "none"
      /\ UNCHANGED <<dir, erased, stream, temps, all_files, blocked, process>>
      /\ call' = IF client[c].key \in DOMAIN locks' /\ ~ Exclusive(client[c].type)
                   THEN NoCall ELSE [pc |-> "fclose", c |-> o]
  <2>1. call = NoCall => call.pc = "none"
    BY DEF NoCall
  <2> QED BY <1>0, <2>1 DEF CloseWriter, Idle, Writers, disk, replacing
<1>2. o \in Client /\ IsOutput(stream[o]) /\ Stream(c) = stream[o]
  BY <1>0, <1>1, Opening DEF LInv, StreamsOK, Stream, Starting
<1>3. \A d \in Client \ {c} : Opened(d) /\ client[d].owner = o =>
        client[d].key = client[c].key /\ client[c].type = "data file"
  BY <1>0, <1>1, SameOwner DEF LInv
<1>4. Holds(c)
  BY <1>1 DEF LInv, HoldersOK
<1>5. ASSUME NEW d \in Writers, stream[o].name \in {client[d].name, Stream(d).name},
             stream[o].name \notin erased
      PROVE  client[d].key = client[c].key
  BY <1>1, <1>2, <1>5, NameTellsKey
<1>6. CASE Exclusive(client[c].type)
  <2>1. /\ UNCHANGED <<locks, client>> /\ client[c].type = "system file"
    BY <1>6 DEF CloseWriter, Exclusive
  <2>2. o = c /\ \A d \in Client \ {c} : Opened(d) => client[d].key # client[c].key
    <3>1. o = c /\ locks[client[c].key].exclusive = TRUE /\ client[c].key \in DOMAIN locks
      BY <1>0, <1>1, <1>4, <2>1 DEF Holds, Suits, Writers
    <3>2. \A d, e \in Holders(client[c].key) : d = e
      BY <3>1 DEF LInv, LocksOK
    <3>3. c \in Holders(client[c].key)
      BY <1>1 DEF Holders
    <3>4. \A d \in Client \ {c} : Opened(d) => client[d].key # client[c].key
      BY <3>2, <3>3 DEF Holders
    <3> QED BY <3>1, <3>4
  <2>3. call'.pc = "fclose" /\ call'.c = c
    BY <1>1, <1>6, <2>2
  <2>4. LocksOK' /\ HoldersOK' /\ StreamsOK' /\ NamesOK'
    BY <1>1, <2>1, Untouched
  <2>5. Writers' = Writers /\ \A d \in Client : Opened(d)' = Opened(d) /\ Stream(d)' = Stream(d)
    BY <1>1, <2>1 DEF Writers, Opened, Stream
  <2>6. CallsOK'
    <3>1. \A d \in Client \ {c} : Opened(d) => client[d].owner # c
      BY <1>3, <2>1, <2>2
    <3>2. \A d \in Writers \ {c} : stream[c].name \in {client[d].name, Stream(d).name} =>
            stream[c].name \in erased
      BY <1>5, <2>2 DEF Writers
    <3>3. Writers \subseteq Client
      BY DEF Writers
    <3>4. \A d \in Writers \ {c} : stream'[c].name \in {client'[d].name, Stream(d)'.name} =>
            stream'[c].name \in erased'
      BY <1>1, <2>1, <2>5, <3>2, <3>3
    <3> QED BY <1>1, <1>2, <2>1, <2>2, <2>3, <2>5, <3>1, <3>4 DEF CallsOK
  <2>7. TempsOK'
    BY <1>1, <2>3 DEF LInv, TempsOK
  <2> QED BY <2>4, <2>6, <2>7 DEF LInv
<1>7. CASE ~ Exclusive(client[c].type)
  <2>1. Leaving(c, client[c].key)
    BY <1>7 DEF CloseWriter, Leaving
  <2>2. \A d \in Client : Opened(d)' => client[d].key \in DOMAIN locks'
    BY <1>1, <2>1, Leaves DEF IInv, LInv
  <2>3. \A d \in Writers : ~ Starting(client[d].owner)
    BY <1>1 DEF Starting
  <2>4. /\ LocksOK' /\ HoldersOK' /\ StreamsOK' /\ NamesOK'
        /\ \A d \in Client : Opened(d)' <=> Opened(d) /\ d # c
        /\ \A d \in Client \ {c} : client'[d] = client[d]
    <3>1. \A d \in Client : d # c /\ Opened(d) =>
            stream'[client[d].owner] = stream[client[d].owner]
      BY <1>1
    <3>2. \A d \in Client : client[d].at = "new" => stream'[d] = stream[d]
      BY <1>1
    <3> QED BY <1>1, <2>1, <2>3, <3>1, <3>2, Leaver
  <2>5. CASE client[c].key \in DOMAIN locks'
    <3>1. call'.pc = "none"
      BY <1>1, <1>7, <2>5 DEF NoCall
    <3>2. CallsOK' /\ TempsOK'
      BY <1>1, <3>1 DEF LInv, CallsOK, TempsOK
    <3> QED BY <2>4, <3>2 DEF LInv
  <2>6. CASE client[c].key \notin DOMAIN locks'
    <3>1. call'.pc = "fclose" /\ call'.c = o
      BY <1>1, <2>6
    <3>2. \A d \in Client : Opened(d)' => Opened(d) /\ d # c /\ client'[d] = client[d]
                                          /\ client[d].key # client[c].key
      BY <2>2, <2>4, <2>6
    <3>3. ~ Opened(o)'
      <4>1. Opened(o) => client[o].key = client[c].key
        <5>1. CASE client[c].type = "data file"
          <6>1. o = locks[client[c].key].aux /\ client[c].key \in DOMAIN locks
            BY <1>0, <1>4, <5>1 DEF Holds, Suits
          <6> QED BY <6>1 DEF LInv, LocksOK
        <5>2. CASE client[c].type # "data file"
          BY <1>0, <1>4, <5>2 DEF Holds, Suits
        <5> QED BY <5>1, <5>2
      <4> QED BY <1>2, <3>2, <4>1
    <3>4. \A d \in Client : Opened(d)' => client'[d].owner # o
      <4> SUFFICES ASSUME NEW d \in Client, Opened(d)', client'[d].owner = o PROVE FALSE
        OBVIOUS
      <4>1. Opened(d) /\ d # c /\ client[d].owner = o /\ client[d].key # client[c].key
        BY <3>2
      <4> QED BY <1>3, <4>1
    <3>5. \A d \in Writers' : d \in Writers /\ d \in Client /\ client'[d] = client[d]
                              /\ Stream(d)' = Stream(d) /\ client[d].key # client[c].key
      BY <1>1, <3>2 DEF Writers, Stream
    <3>6. \A d \in Writers' : stream'[o].name \in {client'[d].name, Stream(d)'.name} =>
            stream'[o].name \in erased'
      <4> SUFFICES ASSUME NEW d \in Writers', stream'[o].name \in {client'[d].name, Stream(d)'.name},
                          stream'[o].name \notin erased'
                   PROVE  FALSE
        OBVIOUS
      <4>1. /\ d \in Writers /\ stream[o].name \in {client[d].name, Stream(d).name}
            /\ stream[o].name \notin erased /\ client[d].key # client[c].key
        BY <1>1, <3>5
      <4> QED BY <1>5, <4>1
    <3>7. CallsOK'
      BY <1>1, <1>2, <3>1, <3>3, <3>4, <3>6 DEF CallsOK
    <3>8. TempsOK'
      BY <1>1, <3>1 DEF LInv, TempsOK
    <3> QED BY <2>4, <3>7, <3>8 DEF LInv
  <2> QED BY <2>5, <2>6
<1> QED BY <1>6, <1>7

(* What remains when a stream is closed.                                   *)
LEMMA Finishing ==
  ASSUME FileAssumption, IInv, LInv, NEW o \in Client,
         call.pc \in {"fclose", "rename", "unlink"}, call.c = o,
         Finish(o), NEW new, stream' = [stream EXCEPT ![o] = new]
  PROVE  /\ LocksOK' /\ HoldersOK' /\ StreamsOK' /\ CallsOK' /\ call'.pc = "none"
         /\ UNCHANGED <<dir, erased>> => NamesOK'
         /\ stream'[o] = new /\ \A d \in Client : d # o => stream'[d] = stream[d]
         /\ \A d \in Writers' : /\ d \in Writers /\ d # o
                                /\ client'[d] = client[d] /\ Stream(d)' = Stream(d)
<1>1. stream'[o] = new /\ \A d \in Client : d # o => stream'[d] = stream[d]
  BY DEF IInv, Typed
<1>2. /\ IsOutput(stream[o])
      /\ \A d \in Client \ {o} : Opened(d) => client[d].owner # o
  BY DEF LInv, CallsOK
<1>3. client[o].at # "new"
  BY <1>2 DEF LInv, StreamsOK, IsOutput
<1>4. /\ \A d \in Client : d # o /\ Opened(d) =>
           stream'[client[d].owner] = stream[client[d].owner]
      /\ \A d \in Client : client[d].at = "new" => stream'[d] = stream[d]
  BY <1>1, <1>2, <1>3, Opening
<1>5. call'.pc = "none" /\ CallsOK'
  BY DEF Finish, NoCall, CallsOK
<1>6. \A d \in Writers : ~ Starting(client[d].owner)
  BY DEF Starting
<1>7. /\ LocksOK' /\ HoldersOK' /\ StreamsOK'
      /\ UNCHANGED <<dir, erased>> => NamesOK'
      /\ \A d \in Client : Opened(d)' => Opened(d) /\ d # o /\ client'[d] = client[d]
  <2>1. CASE Opened(o)
    <3>1. Leaving(o, client[o].key)
      BY <2>1 DEF Finish, Leaving
    <3> QED BY <1>4, <1>6, <2>1, <3>1, Leaver
  <2>2. CASE ~ Opened(o)
    <3>1. UNCHANGED <<locks, client>>
      BY <2>2 DEF Finish
    <3>2. \A d \in Client : Opened(d)' => Opened(d) /\ d # o /\ client'[d] = client[d]
      BY <2>2, <3>1 DEF Opened
    <3>3. \A d \in Client : Opened(d)' => Keeps(d)
      BY <1>4, <3>2 DEF Keeps, Stream
    <3>4. LocksOK' /\ HoldersOK'
      BY <3>1, Frame DEF LInv
    <3>5. \A d \in Client : client'[d].at = "new" =>
            client[d].at = "new" /\ stream'[d].kind = stream[d].kind
      BY <1>4, <3>1
    <3>6. \A d \in Writers : IsOutput(Stream(d))
      BY <1>6 DEF LInv, StreamsOK
    <3>7. StreamsOK' /\ (UNCHANGED <<dir, erased>> => NamesOK')
      BY <3>3, <3>5, <3>6, Kept DEF LInv
    <3> QED BY <3>2, <3>4, <3>7
  <2> QED BY <2>1, <2>2
<1>8. \A d \in Writers' : /\ d \in Writers /\ d # o
                          /\ client'[d] = client[d] /\ Stream(d)' = Stream(d)
  <2> SUFFICES ASSUME NEW d \in Client, Opened(d)', client'[d].access = "write"
               PROVE  /\ d \in Writers /\ d # o
                      /\ client'[d] = client[d] /\ Stream(d)' = Stream(d)
    BY DEF Writers
  <2>1. Opened(d) /\ d # o /\ client'[d] = client[d]
    BY <1>7
  <2> QED BY <1>4, <2>1 DEF Writers, Stream
<1> QED BY <1>1, <1>5, <1>7, <1>8

LEMMA FinishLInv ==
  ASSUME FileAssumption, IInv, LInv, NEW o \in Client,
         CloseSpecial(o) \/ replace_file_commit(o) \/ replace_file_abort(o)
  PROVE  LInv'
<1> DEFINE failed == [stream[o] EXCEPT !.kind = "failed"]
<1>1. /\ call.pc \in {"fclose", "rename", "unlink"} /\ call.c = o
      /\ Finish(o) /\ UNCHANGED erased /\ process' = process /\ process = "running"
  BY AtCall DEF CloseSpecial, replace_file_commit, replace_file_abort, disk, At
<1>2. CASE CloseSpecial(o)
  <2>1. /\ stream' = [stream EXCEPT ![o] = NoStream] /\ stream[o].kind = "special"
        /\ UNCHANGED <<dir, erased, temps, all_files, blocked>>
    BY <1>2 DEF CloseSpecial, disk, replacing
  <2>2. /\ LocksOK' /\ HoldersOK' /\ StreamsOK' /\ CallsOK' /\ call'.pc = "none" /\ NamesOK'
        /\ \A d \in Client : d # o => stream'[d] = stream[d]
    BY <1>1, <2>1, Finishing
  <2>3. o \notin temps
    BY <2>1 DEF LInv, TempsOK
  <2>4. TempsOK'
    BY <1>1, <2>1, <2>2, <2>3 DEF LInv, TempsOK
  <2> QED BY <2>2, <2>4 DEF LInv
<1>3. CASE replace_file_commit(o) \/ replace_file_abort(o)
  <2>1. /\ stream[o].kind = "replace" /\ failed.kind = "failed"
        /\ all_files' = all_files \ {o} /\ blocked' = FALSE
    BY <1>1, <1>3, AtCall, Failing DEF IInv, CallOK, replace_file_commit, replace_file_abort
  <2>2. \/ temps' = temps \ {o} /\ stream' = [stream EXCEPT ![o] = NoStream]
        \/ temps' = temps /\ stream' = [stream EXCEPT ![o] = failed]
    BY <1>3 DEF replace_file_commit, replace_file_abort
  <2> HIDE DEF failed
  <2>3. PICK new \in {NoStream, failed} : stream' = [stream EXCEPT ![o] = new]
    BY <2>2
  <2>4. /\ LocksOK' /\ HoldersOK' /\ StreamsOK' /\ CallsOK' /\ call'.pc = "none"
        /\ UNCHANGED <<dir, erased>> => NamesOK'
        /\ stream'[o] = new /\ \A d \in Client : d # o => stream'[d] = stream[d]
        /\ \A d \in Writers' : /\ d \in Writers /\ d # o
                               /\ client'[d] = client[d] /\ Stream(d)' = Stream(d)
    BY <1>1, <2>3, Finishing
  <2>5. TempsOK'
    <3>1. temps' = temps \ {o} \/ (temps' = temps /\ stream'[o].kind = "failed")
      BY <2>1, <2>2 DEF IInv, Typed
    <3> QED BY <1>1, <2>1, <2>4, <3>1 DEF LInv, TempsOK
  <2>6. CASE UNCHANGED dir
    BY <1>1, <2>4, <2>5, <2>6 DEF LInv
  <2>7. CASE dir' # dir
    <3> DEFINE m == stream[o].name
               i == stream[o].fp
    <3>1. dir' = [dir EXCEPT ![m] = i]
      BY <1>3, <2>7 DEF replace_file_commit, replace_file_abort, disk
    <3>2. \A n \in Name : dir[n] # i
      BY <2>1 DEF IInv, Apart
    <3>3. i \in Inode /\ i # Absent
      BY <2>1 DEF IInv, Typed, StreamState, FileAssumption
    <3>4. \A n \in Name : dir'[n] = IF n = m THEN i ELSE dir[n]
      BY <3>1 DEF IInv, Typed
    <3>5. \A l, n \in Name : dir'[l] = dir'[n] /\ l # n => dir'[n] = Absent
      BY <3>2, <3>4 DEF LInv, NamesOK
    <3>6. \A n : n # m => make_key(dir', n, "write") = make_key(dir, n, "write")
      BY <3>1 DEF make_key
    <3>7. ASSUME NEW d \in Writers'
          PROVE  /\ client'[d].name \notin erased => client'[d].key = make_key(dir', client'[d].name, "write")
                 /\ IsOutput(Stream(d)') =>
                      /\ Stream(d)'.name \in erased \cup {client'[d].name}
                      /\ Stream(d)'.name \notin erased =>
                           client'[d].key = make_key(dir', Stream(d)'.name, "write")
      <4>1. d \in Writers /\ d # o /\ client'[d] = client[d] /\ Stream(d)' = Stream(d)
        BY <2>4
      <4>2. m \in {client[d].name, Stream(d).name} => m \in erased
        BY <1>1, <4>1 DEF LInv, CallsOK
      <4> HIDE DEF m
      <4>3. client[d].name \notin erased => client[d].key = make_key(dir', client[d].name, "write")
        BY <3>6, <4>1, <4>2 DEF LInv, NamesOK
      <4>4. IsOutput(Stream(d)) =>
              /\ Stream(d).name \in erased \cup {client[d].name}
              /\ Stream(d).name \notin erased =>
                   client[d].key = make_key(dir', Stream(d).name, "write")
        BY <3>6, <4>1, <4>2 DEF LInv, NamesOK
      <4> QED BY <4>1, <4>3, <4>4
    <3>8. NamesOK'
      BY <1>1, <3>5, <3>7 DEF NamesOK
    <3> QED BY <2>4, <2>5, <3>8 DEF LInv
  <2> QED BY <2>6, <2>7
<1> QED BY <1>2, <1>3

-----------------------------------------------------------------------------
LEMMA NextLInv == FileAssumption /\ IInv /\ LInv /\ [Next]_vars => LInv'
<1> SUFFICES ASSUME FileAssumption, IInv, LInv, [Next]_vars PROVE LInv'
  OBVIOUS
<1>1. CASE UNCHANGED vars
  BY <1>1, StutterLInv
<1>2. CASE unlink_replace_files
  BY <1>2, SignalLInv
<1>3. ASSUME NEW n \in Name, cmd_erase(n) PROVE LInv'
  BY <1>3, EraseLInv
<1>4. ASSUME NEW c \in Client, NEW n \in Name, NEW type \in Type,
             \/ WriterRefused(c, n, type) \/ OpenWriter(c, n, type)
             \/ ReaderRefused(c, n, type) \/ OpenReader(c, n, type)
             \/ OpenReaderFails(c, n, type)
      PROVE  LInv'
  BY <1>4, RefusedLInv, OpenWriterLInv, OpenReaderLInv
<1>5. ASSUME NEW c \in Client,
             \/ StartSpecial(c) \/ StartSpecialFails(c) \/ StartReplace(c)
             \/ CreateTemp(c) \/ CreateFails(c) \/ Register(c)
      PROVE  LInv'
  BY <1>5, StreamLInv, GiveUpLInv, QuietCallLInv
<1>6. ASSUME NEW c \in Client,
             \/ Write(c) \/ CloseWriter(c) \/ CloseSpecial(c) \/ fclose(c)
             \/ BlockSignals(c) \/ replace_file_commit(c) \/ replace_file_abort(c)
             \/ CloseReader(c)
      PROVE  LInv'
  BY <1>6, WriteLInv, CloseWriterLInv, FinishLInv, QuietCallLInv, CloseReaderLInv
<1> QED BY <1>1, <1>2, <1>3, <1>4, <1>5, <1>6 DEF Next

LEMMA LockInductive == Spec => [](IInv /\ LInv)
<1> QED BY FileAssumption, InitInv, NextInv, InitLInv, NextLInv, PTL DEF Spec

(* fh_lock and fh_unlock: a lock has as many openers as clients that hold  *)
(* it, of its type, and every open client's lock is in the table.          *)
THEOREM LocksCounted == Spec => []TypeOK
<1>1. IInv /\ LInv => TypeOK
  <2> SUFFICES ASSUME IInv, LInv PROVE TypeOK
    OBVIOUS
  <2>1. /\ dir \in [Name -> Inode \cup {Absent}]
        /\ content \in [Inode -> [by : SUBSET Client, whole : BOOLEAN]]
    BY DEF IInv, Typed, Content
  <2>2. call.pc \in {"none", "start", "create", "register", "fclose", "rename", "unlink"}
    BY DEF IInv, Typed, CallState
  <2>3. ASSUME NEW key \in DOMAIN locks
        PROVE  /\ locks[key].open_cnt = Cardinality(Holders(key)) /\ Holders(key) # {}
               /\ \A c \in Holders(key) : client[c].type = locks[key].type
    <3>1. \A c \in Holders(key) : c \in Client /\ Opened(c) /\ client[c].key = key
      BY DEF Holders
    <3>2. \A c \in Holders(key) : Holds(c)
      BY <3>1 DEF LInv, HoldersOK
    <3>3. \A c \in Holders(key) : client[c].type = locks[key].type
      BY <3>1, <3>2 DEF Holds, Suits
    <3>4. locks[key].open_cnt = Cardinality(Holders(key)) /\ Holders(key) # {}
      BY DEF LInv, LocksOK
    <3> QED BY <3>3, <3>4
  <2>4. \A c \in Client : Opened(c) => client[c].key \in DOMAIN locks
    BY DEF LInv, HoldersOK, Holds
  <2> QED BY <2>1, <2>2, <2>3, <2>4 DEF TypeOK, LInv, TempsOK, Holders
<1> QED BY <1>1, LockInductive, PTL

(* fh_lock's key is computed from the file as it is: the writers of one    *)
(* name find one another's lock although the first of them may have        *)
(* brought the file into being, unless ERASE comes between.                *)
THEOREM NamesShareStreams == Spec => []WritersShare
<1>1. IInv /\ LInv => WritersShare
  <2> SUFFICES ASSUME IInv, LInv, NEW c \in Writers, NEW d \in Writers,
                      client[c].name = client[d].name, client[c].name \notin erased
               PROVE  client[c].owner = client[d].owner
    BY DEF WritersShare
  <2>1. client[c].key = client[d].key
    BY DEF LInv, NamesOK
  <2>2. /\ c \in Client /\ d \in Client /\ Holds(c) /\ Holds(d)
        /\ client[c].access = "write" /\ client[d].access = "write"
    BY DEF LInv, HoldersOK, Writers
  <2>3. client[c].type = client[d].type /\ client[c].type \in Type
    BY <2>1, <2>2, Opening DEF Holds, Suits, Writers
  <2>4. CASE client[c].type = "data file"
    BY <2>1, <2>2, <2>3, <2>4 DEF Holds, Suits
  <2>5. CASE client[c].type = "system file"
    <3>1. locks[client[c].key].exclusive /\ client[c].key \in DOMAIN locks
      BY <2>2, <2>5 DEF Holds, Suits
    <3>2. c \in Holders(client[c].key) /\ d \in Holders(client[c].key)
      BY <2>1 DEF Holders, Writers
    <3>3. c = d
      BY <3>1, <3>2 DEF LInv, LocksOK
    <3> QED BY <3>3
  <2> QED BY <2>3, <2>4, <2>5 DEF Type
<1> QED BY <1>1, LockInductive, PTL

(* Between calls everyone who has a file open has a stream of the right    *)
(* kind, and a writer that of the name he gave: closing one client's file  *)
(* (sfm_open, dfm_close_reader, dfm_close_writer) closes no one else's.    *)
THEOREM StreamsKept == Spec => []OwnStream
<1>1. IInv /\ LInv => OwnStream
  <2> SUFFICES ASSUME IInv, LInv, Idle PROVE OwnStream
    BY DEF OwnStream
  <2>1. call.pc = "none"
    BY DEF Idle, NoCall
  <2>2. \A c \in Readers : Stream(c).kind = "read"
    BY DEF LInv, StreamsOK
  <2>3. \A c \in Writers : IsOutput(Stream(c))
    BY <2>1 DEF LInv, StreamsOK, Starting
  <2>4. \A c \in Writers : erased = {} => Stream(c).name = client[c].name
    BY <2>3 DEF LInv, NamesOK
  <2> QED BY <2>2, <2>3, <2>4 DEF OwnStream, IsOutput
<1> QED BY <1>1, LockInductive, PTL

(* replace_file_start keeps signals out until the temporary file is        *)
(* registered, so that a signal leaves none that could be removed.         *)
THEOREM NothingLeftBehind == Spec => []NoLitter
<1>1. IInv /\ LInv => NoLitter
  BY DEF LInv, TempsOK, NoLitter
<1> QED BY <1>1, LockInductive, PTL

-----------------------------------------------------------------------------
(* Only a reader's opening makes a new client a reader.                    *)
LEMMA OnlyOpening ==
  ASSUME IInv, [Next]_vars, NEW c \in Client, client[c] = New, c \in Readers'
  PROVE  \E n \in Name, type \in Type : OpenReader(c, n, type)
<1>1. client'[c].at = "open" /\ client'[c].access = "read"
  BY DEF Readers, Opened
<1>2. client'[c] # New /\ client'[c] # Done
  BY <1>1 DEF New, Done
<1>3. CASE UNCHANGED client
  BY <1>2, <1>3
<1>4. \A d : client' # [client EXCEPT ![d] = Done]
  BY <1>2 DEF IInv, Typed
<1>5. ASSUME NEW d \in Client, NEW n \in Name, NEW type \in Type, OpenWriter(d, n, type)
      PROVE  FALSE
  <2>1. PICK key, owner : client' = [client EXCEPT ![d] = Client_(n, "write", type, key, owner)]
    BY <1>5 DEF OpenWriter
  <2>2. Client_(n, "write", type, key, owner).access = "write"
    BY DEF Client_
  <2>3. client'[c] = client[c] \/ client'[c] = Client_(n, "write", type, key, owner)
    BY <2>1 DEF IInv, Typed
  <2> QED BY <1>1, <1>2, <2>2, <2>3
<1>6. ASSUME NEW d \in Client, NEW n \in Name, NEW type \in Type, OpenReader(d, n, type)
      PROVE  d = c
  <2>1. PICK key, owner : client' = [client EXCEPT ![d] = Client_(n, "read", type, key, owner)]
    BY <1>6 DEF OpenReader
  <2> QED BY <1>2, <2>1 DEF IInv, Typed
<1>7. CASE Next
  <2>1. ASSUME NEW d \in Client, NEW n \in Name, NEW type \in Type,
               WriterRefused(d, n, type) \/ ReaderRefused(d, n, type) \/ OpenReaderFails(d, n, type)
        PROVE  FALSE
    BY <1>4, <2>1 DEF WriterRefused, ReaderRefused, OpenReaderFails
  <2>2. ASSUME NEW d \in Client,
               \/ StartSpecial(d) \/ StartSpecialFails(d) \/ StartReplace(d)
               \/ CreateTemp(d) \/ CreateFails(d) \/ Register(d)
        PROVE  UNCHANGED client
    BY <1>4, <2>2 DEF StartSpecial, StartSpecialFails, StartReplace, CreateTemp,
                      CreateFails, Register, GiveUp
  <2>3. ASSUME NEW d \in Client,
               \/ Write(d) \/ CloseWriter(d) \/ CloseSpecial(d) \/ fclose(d)
               \/ BlockSignals(d) \/ replace_file_commit(d) \/ replace_file_abort(d)
               \/ CloseReader(d)
        PROVE  UNCHANGED client
    BY <1>4, <2>3 DEF Write, CloseWriter, CloseSpecial, fclose, BlockSignals,
                      replace_file_commit, replace_file_abort, CloseReader, Finish
  <2>4. ASSUME (\E n \in Name : cmd_erase(n)) \/ unlink_replace_files
        PROVE  UNCHANGED client
    BY <2>4 DEF cmd_erase, unlink_replace_files
  <2> QED BY <1>3, <1>5, <1>6, <1>7, <2>1, <2>2, <2>3, <2>4 DEF Next
<1> QED BY <1>3, <1>7 DEF vars

(* A data file reader that joins another one on the lock (fn_open gives    *)
(* him the reader that is open) reads the file that has the name now.      *)
THEOREM CurrentFile == Spec => OpensCurrentFile
<1> DEFINE Current == \A c \in Client :
             client[c] = New /\ c \in Readers' => Stream(c)'.fp = dir[client'[c].name]
<1>1. IInv /\ LInv /\ [Next]_vars => Current
  <2> SUFFICES ASSUME IInv, LInv, [Next]_vars, NEW c \in Client, client[c] = New, c \in Readers'
               PROVE  Stream(c)'.fp = dir[client'[c].name]
    OBVIOUS
  <2>1. PICK n \in Name, type \in Type : OpenReader(c, n, type)
    BY OnlyOpening
  <2> QED BY <2>1, OpenReaderLInv, FileAssumption
<1> QED BY <1>1, LockInductive, PTL DEF Spec, OpensCurrentFile
=============================================================================
