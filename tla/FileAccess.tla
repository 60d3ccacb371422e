----------------------------- MODULE FileAccess -----------------------------
(***************************************************************************)
(* How PSPP reads and replaces files: the clients of file handles (the     *)
(* system file reader and writer, the data file reader and writer of       *)
(* DATA LIST and PRINT), the locks that keep them apart                    *)
(* (file-handle-def.c), and the atomic replacement of files (make-file.c). *)
(*                                                                         *)
(* A writer writes a temporary file beside its target and renames it over  *)
(* the target when it closes.  A fatal signal may strike between any two   *)
(* steps at which signals are not blocked, and deletes the temporary       *)
(* files that are registered.  (A program killed outright leaves the disk  *)
(* as it is at that step, which is a state of this module.)                *)
(* Transformations hold their files open from the command that declares    *)
(* them to the procedure that runs them, so clients of several commands,   *)
(* and an ERASE, come between the calls of one another.                    *)
(*                                                                         *)
(* An inode's content is abstracted to the clients whose output it holds   *)
(* and to whether all that they wrote has reached the file.                *)
(***************************************************************************)
EXTENDS FileHandle, FiniteSets, Functions

CONSTANTS
  Name,     \* file names
  Inode,    \* files
  Device,   \* those that are not regular files
  Client    \* opens of a file: each client opens one file once

ASSUME FileAssumption ==
  /\ IsFiniteSet(Client)
  /\ Device \subseteq Inode
  /\ Absent \notin Inode \cup Name

Type == {"system file", "data file"}
Exclusive(type) == type = "system file"     \* its writers; readers never are

VARIABLES
  dir,        \* [Name -> Inode or Absent], the directory
  content,    \* [Inode -> [by, whole]]
  locks,      \* the table `locks' of file-handle-def.c
  client,     \* what each client has open: [at, name, access, type, key, owner]
  stream,     \* the FILE and replace_file that a client created
  temps,      \* the clients whose temporary file is on the disk
  all_files,  \* the clients whose temporary file is registered for deletion
  blocked,    \* are fatal signals blocked?
  call,       \* the library call in progress: [pc, c]
  process,    \* "running", "signalled" or "crashed"
  erased      \* history: the names that ERASE has removed

vars == <<dir, content, locks, client, stream, temps, all_files, blocked, call,
          process, erased>>

disk == <<dir, content, erased>>
replacing == <<temps, all_files, blocked>>

New == [at |-> "new"]
Done == [at |-> "done"]
NoStream == [kind |-> "none", fp |-> Absent]
NoCall == [pc |-> "none"]

Idle == process = "running" /\ call = NoCall
Opened(c) == client[c].at = "open"
Writers == {c \in Client : Opened(c) /\ client[c].access = "write"}
Readers == {c \in Client : Opened(c) /\ client[c].access = "read"}

(* What a client's reads and writes go to.                                 *)
Stream(c) == stream[client[c].owner]

Free == Inode \ (Device \cup Range(dir) \cup {stream[c].fp : c \in Client})

Init ==
  /\ dir \in [Name -> Inode \cup {Absent}]
  /\ \A m, n \in Name : dir[m] = dir[n] /\ m # n => dir[n] = Absent
  /\ content = [i \in Inode |-> [by |-> {}, whole |-> TRUE]]
  /\ locks = <<>>
  /\ client = [c \in Client |-> New]
  /\ stream = [c \in Client |-> NoStream]
  /\ temps = {} /\ all_files = {}
  /\ blocked = FALSE
  /\ call = NoCall
  /\ process = "running"
  /\ erased = {}

Client_(n, access, type, key, owner) ==
  [at |-> "open", name |-> n, access |-> access, type |-> type, key |-> key,
   owner |-> owner]

-----------------------------------------------------------------------------
(* Opening for writing: sfm_open_writer and dfm_open_writer.               *)

(* fh_lock refuses.                                                        *)
WriterRefused(c, n, type) ==
  /\ Idle /\ client[c] = New
  /\ ~Grants(locks, make_key(dir, n, "write"), type, Exclusive(type))
  /\ client' = [client EXCEPT ![c] = Done]
  /\ UNCHANGED <<disk, locks, stream, replacing, call, process>>

(* The lock is granted.  A data file that is being written already has     *)
(* its dfm_writer as the lock's auxiliary data; anyone else goes on to     *)
(* replace_file_start.                                                     *)
OpenWriter(c, n, type) ==
  LET key == make_key(dir, n, "write")
      joins == type = "data file" /\ key \in DOMAIN locks
      owner == IF joins THEN locks[key].aux ELSE c
  IN /\ Idle /\ client[c] = New
     /\ Grants(locks, key, type, Exclusive(type))
     /\ locks' = fh_lock(locks, key, type, Exclusive(type), c)
     /\ client' = [client EXCEPT ![c] = Client_(n, "write", type, key, owner)]
     /\ call' = IF joins THEN NoCall ELSE [pc |-> "start", c |-> c]
     /\ UNCHANGED <<disk, stream, replacing, process>>

At(pc, c) == process = "running" /\ call = [pc |-> pc, c |-> c]

(* A client that could not open its file lets go of the lock.              *)
GiveUp(c) ==
  /\ locks' = fh_unlock(locks, client[c].key)
  /\ client' = [client EXCEPT ![c] = Done]
  /\ stream' = [stream EXCEPT ![c] = NoStream]
  /\ call' = NoCall

(* replace_file_start writes to what is not a regular file directly.       *)
StartSpecial(c) ==
  /\ At("start", c)
  /\ dir[client[c].name] \in Device
  /\ stream' = [stream EXCEPT ![c] = [kind |-> "special", name |-> client[c].name,
                                      fp |-> dir[client[c].name], error |-> FALSE]]
  /\ call' = NoCall
  /\ UNCHANGED <<disk, locks, client, replacing, process>>

(* If that fails, it leaves the caller's FILE pointer alone.  The one in   *)
(* struct sfm_writer is null; the one in struct dfm_writer was never set,  *)
(* and dfm_close_writer uses it.                                           *)
StartSpecialFails(c) ==
  /\ At("start", c)
  /\ dir[client[c].name] \in Device
  /\ GiveUp(c)
  /\ process' \in IF client[c].type = "data file" THEN {"running", "crashed"}
                                                  ELSE {"running"}
  /\ UNCHANGED <<disk, replacing>>

StartUnblocked(c) ==   \* mutant: signals are not blocked
  /\ At("start", c)
  /\ dir[client[c].name] \notin Device
  /\ call' = [call EXCEPT !.pc = "create"]
  /\ UNCHANGED <<disk, locks, client, stream, replacing, process>>
StartReplace(c) ==
  /\ At("start", c)
  /\ dir[client[c].name] \notin Device
  /\ blocked' = TRUE
  /\ call' = [call EXCEPT !.pc = "create"]
  /\ UNCHANGED <<disk, locks, client, stream, temps, all_files, process>>

CreateInPlace(c) ==    \* mutant: truncates and rewrites the file itself
  /\ At("create", c)
  /\ \E i \in {dir[client[c].name]} \cap Inode :
       /\ content' = [content EXCEPT ![i] = [by |-> {}, whole |-> FALSE]]
       /\ stream' = [stream EXCEPT ![c] = [kind |-> "replace", fp |-> i,
                                 name |-> client[c].name, error |-> FALSE]]
  /\ temps' = temps \cup {c}
  /\ call' = [call EXCEPT !.pc = "register"]
  /\ UNCHANGED <<dir, erased, locks, client, all_files, blocked, process>>
CreateTemp(c) ==
  /\ At("create", c)
  /\ \E i \in Free :
       /\ content' = [content EXCEPT ![i] = [by |-> {}, whole |-> FALSE]]
       /\ stream' = [stream EXCEPT ![c] = [kind |-> "replace", fp |-> i,
                                 name |-> client[c].name, error |-> FALSE]]
  /\ temps' = temps \cup {c}
  /\ call' = [call EXCEPT !.pc = "register"]
  /\ UNCHANGED <<dir, erased, locks, client, all_files, blocked, process>>

(* The temporary file cannot be created, or fdopen fails and it is deleted *)
(* again.                                                                  *)
CreateFails(c) ==
  /\ At("create", c) \/ At("register", c)
  /\ temps' = temps \ {c}
  /\ blocked' = FALSE
  /\ GiveUp(c)
  /\ UNCHANGED <<disk, all_files, process>>

Register(c) ==
  /\ At("register", c)
  /\ all_files' = all_files \cup {c}
  /\ blocked' = FALSE
  /\ call' = NoCall
  /\ UNCHANGED <<disk, locks, client, stream, temps, process>>

-----------------------------------------------------------------------------
(* Writing, and closing a writer: close_writer and dfm_close_writer.       *)

Write(c) ==
  /\ Idle /\ c \in Writers
  /\ LET o == client[c].owner
     IN \/ /\ stream[o].kind = "replace" /\ ~stream[o].error
           /\ content' = [content EXCEPT ![stream[o].fp].by = @ \cup {c}]
           /\ UNCHANGED stream
        \/ /\ stream' = [stream EXCEPT ![o].error = TRUE]
           /\ UNCHANGED content
  /\ UNCHANGED <<dir, erased, locks, client, replacing, call, process>>

(* A system file writer owns its stream and lets go of the lock when all   *)
(* is done.  A data file writer lets go first, and only the last one       *)
(* closes the stream.                                                      *)
CloseWriter(c) ==
  /\ Idle /\ c \in Writers
  /\ IF Exclusive(client[c].type)
       THEN UNCHANGED <<locks, client>>
       ELSE /\ locks' = fh_unlock(locks, client[c].key)
            /\ client' = [client EXCEPT ![c] = Done]
  /\ call' = IF client[c].key \in DOMAIN locks' /\ ~Exclusive(client[c].type)
               THEN NoCall
               ELSE [pc |-> "fclose", c |-> client[c].owner]
  /\ UNCHANGED <<disk, stream, replacing, process>>

Finish(o) ==
  /\ call' = NoCall
  /\ IF Opened(o)
       THEN /\ locks' = fh_unlock(locks, client[o].key)
            /\ client' = [client EXCEPT ![o] = Done]
       ELSE UNCHANGED <<locks, client>>

CloseSpecial(o) ==
  /\ At("fclose", o)
  /\ stream[o].kind = "special"
  /\ stream' = [stream EXCEPT ![o] = NoStream]
  /\ Finish(o)
  /\ UNCHANGED <<disk, replacing, process>>

(* fclose flushes what was written.  After an error of it or of a write,   *)
(* the file will be unlinked instead.                                      *)
fcloseUnchecked(o) ==  \* mutant: commits whatever fclose says
  /\ At("fclose", o)
  /\ stream[o].kind = "replace"
  /\ \/ content' = [content EXCEPT ![stream[o].fp].whole = TRUE]
     \/ UNCHANGED content
  /\ call' = [call EXCEPT !.pc = "rename"]
  /\ UNCHANGED <<dir, erased, locks, client, stream, replacing, process>>
fclose(o) ==
  /\ At("fclose", o)
  /\ stream[o].kind = "replace"
  /\ \/ /\ ~stream[o].error
        /\ content' = [content EXCEPT ![stream[o].fp].whole = TRUE]
        /\ call' = [call EXCEPT !.pc = "rename"]
     \/ /\ call' = [call EXCEPT !.pc = "unlink"]
        /\ UNCHANGED content
  /\ UNCHANGED <<dir, erased, locks, client, stream, replacing, process>>

BlockSignals(o) ==
  /\ At("rename", o) \/ At("unlink", o)
  /\ ~blocked
  /\ blocked' = TRUE
  /\ UNCHANGED <<disk, locks, client, stream, temps, all_files, call, process>>

(* replace_file_commit.  If rename fails, the temporary file stays.        *)
replace_file_commit(o) ==
  /\ At("rename", o) /\ blocked
  /\ \/ /\ dir' = [dir EXCEPT ![stream[o].name] = stream[o].fp]
        /\ temps' = temps \ {o}
        /\ stream' = [stream EXCEPT ![o] = NoStream]
     \/ /\ stream' = [stream EXCEPT ![o].kind = "failed"]
        /\ UNCHANGED <<dir, temps>>
  /\ all_files' = all_files \ {o}
  /\ blocked' = FALSE
  /\ Finish(o)
  /\ UNCHANGED <<content, erased, process>>

replace_file_abort(o) ==
  /\ At("unlink", o) /\ blocked
  /\ \/ /\ temps' = temps \ {o}
        /\ stream' = [stream EXCEPT ![o] = NoStream]
     \/ /\ stream' = [stream EXCEPT ![o].kind = "failed"]
        /\ UNCHANGED temps
  /\ all_files' = all_files \ {o}
  /\ blocked' = FALSE
  /\ Finish(o)
  /\ UNCHANGED <<disk, process>>

-----------------------------------------------------------------------------
(* Readers: sfm_open and dfm_open_reader.  Only data files share a reader. *)

ReaderRefused(c, n, type) ==
  /\ Idle /\ client[c] = New
  /\ ~Grants(locks, make_key(dir, n, "read"), type, FALSE)
  /\ client' = [client EXCEPT ![c] = Done]
  /\ UNCHANGED <<disk, locks, stream, replacing, call, process>>

OpenReader(c, n, type) ==
  LET key == make_key(dir, n, "read")
      joins == type = "data file" /\ key \in DOMAIN locks
      owner == IF joins THEN locks[key].aux ELSE c
  IN /\ Idle /\ client[c] = New
     /\ Grants(locks, key, type, FALSE)
     /\ joins \/ dir[n] # Absent
     /\ locks' = fh_lock(locks, key, type, FALSE, c)
     /\ client' = [client EXCEPT ![c] = Client_(n, "read", type, key, owner)]
     /\ IF joins
          THEN UNCHANGED stream
          ELSE stream' = [stream EXCEPT ![c] = [kind |-> "read", fp |-> dir[n],
                                                shows |-> content[dir[n]]]]
     /\ UNCHANGED <<disk, replacing, call, process>>

(* The file does not exist or cannot be opened: the lock, just taken, is   *)
(* let go.                                                                 *)
OpenReaderFails(c, n, type) ==
  LET key == make_key(dir, n, "read")
  IN /\ Idle /\ client[c] = New
     /\ Grants(locks, key, type, FALSE)
     /\ ~(type = "data file" /\ key \in DOMAIN locks)
     /\ locks' = fh_unlock(fh_lock(locks, key, type, FALSE, c), key)
     /\ client' = [client EXCEPT ![c] = Done]
     /\ UNCHANGED <<disk, stream, replacing, call, process>>

CloseReader(c) ==
  /\ Idle /\ c \in Readers
  /\ locks' = fh_unlock(locks, client[c].key)
  /\ client' = [client EXCEPT ![c] = Done]
  /\ stream' = IF client[c].type = "data file" /\ client[c].key \in DOMAIN locks'
                 THEN stream
                 ELSE [stream EXCEPT ![client[c].owner] = NoStream]
  /\ UNCHANGED <<disk, replacing, call, process>>

-----------------------------------------------------------------------------
(* ERASE takes no notice of locks.                                         *)
cmd_erase(n) ==
  /\ Idle
  /\ dir[n] # Absent
  /\ dir' = [dir EXCEPT ![n] = Absent]
  /\ erased' = erased \cup {n}
  /\ UNCHANGED <<content, locks, client, stream, replacing, call, process>>

unlink_replace_files ==
  /\ process = "running" /\ ~blocked
  /\ temps' = temps \ all_files
  /\ process' = "signalled"
  /\ UNCHANGED <<disk, locks, client, stream, all_files, blocked, call>>

Next ==
  \/ \E c \in Client :
       \/ \E n \in Name, type \in Type :
            \/ WriterRefused(c, n, type)
            \/ OpenWriter(c, n, type)
            \/ ReaderRefused(c, n, type)
            \/ OpenReader(c, n, type)
            \/ OpenReaderFails(c, n, type)
       \/ StartSpecial(c) \/ StartSpecialFails(c)
       \/ StartReplace(c) \/ CreateTemp(c) \/ CreateFails(c) \/ Register(c)
       \/ Write(c) \/ CloseWriter(c) \/ CloseSpecial(c) \/ fclose(c)
       \/ BlockSignals(c) \/ replace_file_commit(c) \/ replace_file_abort(c)
       \/ CloseReader(c)
  \/ \E n \in Name : cmd_erase(n)
  \/ unlink_replace_files

Spec == Init /\ [][Next]_vars

-----------------------------------------------------------------------------
(* The types of the state, the locks' counts among them: a lock has as     *)
(* many openers as clients that hold it, and at least one.                 *)
TypeOK ==
  /\ dir \in [Name -> Inode \cup {Absent}]
  /\ content \in [Inode -> [by : SUBSET Client, whole : BOOLEAN]]
  /\ temps \subseteq Client /\ all_files \subseteq Client
  /\ blocked \in BOOLEAN
  /\ call.pc \in {"none", "start", "create", "register", "fclose", "rename", "unlink"}
  /\ process \in {"running", "signalled", "crashed"}
  /\ \A key \in DOMAIN locks :
       LET holders == {c \in Client : Opened(c) /\ client[c].key = key}
       IN /\ locks[key].open_cnt = Cardinality(holders)
          /\ holders # {}
          /\ \A c \in holders : client[c].type = locks[key].type
  /\ \A c \in Client : Opened(c) => client[c].key \in DOMAIN locks

(* "A sharable read or write lock precludes reader or writers ... of a     *)
(* different TYPE", "exclusive write access precludes other writers"       *)
(* (fh_lock), as the user sees it: the writers of one name share one       *)
(* stream, although the key of that name changes when the file comes into  *)
(* being.  Only ERASE can part them.                                       *)
WritersShare ==
  \A c, d \in Writers :
    client[c].name = client[d].name /\ client[c].name \notin erased =>
      client[c].owner = client[d].owner

(* What a client works on is open as long as any client has it, and no     *)
(* one's output goes to another file than the one he named.  That needs    *)
(* that nothing was erased: the lock of an erased file can be found by     *)
(* another one that is given its inode.                                    *)
OwnStream ==
  Idle =>
    /\ \A c \in Readers : Stream(c).kind = "read"
    /\ \A c \in Writers :
         /\ Stream(c).kind \in {"replace", "special"}
         /\ erased = {} => Stream(c).name = client[c].name

(* Whatever fails, and whenever the program dies, the files under their    *)
(* own names are whole, and no writer is still at work on them: "Prepares  *)
(* to atomically replace a (potentially) existing file" (make-file.h).     *)
WholeFiles ==
  \A n \in Name :
    dir[n] \in Inode \ Device =>
      /\ content[dir[n]].whole
      /\ \A c \in Client : stream[c].kind = "replace" => stream[c].fp # dir[n]

(* "program termination via signal will cause all resources to be          *)
(* released" (make-file.h): a temporary file is registered for deletion,   *)
(* or a handler is kept out; only one that could not be renamed or         *)
(* unlinked stays.                                                         *)
NoLitter ==
  /\ process = "signalled" => \A c \in temps : stream[c].kind = "failed"
  /\ process = "running" /\ ~blocked =>
       \A c \in temps : c \in all_files \/ stream[c].kind = "failed"
  /\ all_files \subseteq temps \/ process # "running"

(* Read locks and write locks do not exclude one another, and need not: an *)
(* open reader sees the file as it was when it was opened, even while the  *)
(* file is being written anew, replaced or erased.                         *)
Snapshot ==
  \A c \in Client :
    stream[c].kind = "read" /\ stream[c].fp \notin Device =>
      content[stream[c].fp] = stream[c].shows

(* A reader that joins another one on the same lock gets the file that now *)
(* has the name, not one that was replaced since.                          *)
OpensCurrentFile ==
  [][\A c \in Client :
       client[c] = New /\ c \in Readers' => Stream(c)'.fp = dir[client'[c].name]]_vars
=============================================================================
