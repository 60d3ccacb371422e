----------------------------- MODULE FileHandle -----------------------------
(***************************************************************************)
(* The table of file locks of src/data/file-handle-def.c, as operators on  *)
(* its value: a function from the keys that are locked to their locks.     *)
(* One lock is shared by all its openers, and carries the auxiliary data   *)
(* that they share.                                                        *)
(***************************************************************************)
EXTENDS Naturals

CONSTANT Absent   \* what a directory holds for a name that is no file

(* The key of a name for reading or for writing.  A file that exists is    *)
(* known by its inode, one that does not by its name.                      *)
KeyByName(dir, n, access) ==        \* mutant: the name alone
  <<access, "name", n>>
KeyOnceMade(dir, n, access) ==      \* mutant: a new file is every new file
  IF dir[n] = Absent THEN <<access, "name", Absent>> ELSE <<access, "file", dir[n]>>
make_key(dir, n, access) ==
  IF dir[n] = Absent THEN <<access, "name", n>> ELSE <<access, "file", dir[n]>>

(* fh_lock refuses another type of file, and company to an exclusive lock. *)
GrantsType(locks, key, type, exclusive) ==   \* mutant: type alone decides
  key \in DOMAIN locks => locks[key].type = type
Grants(locks, key, type, exclusive) ==
  key \in DOMAIN locks =>
    locks[key].type = type /\ ~exclusive /\ ~locks[key].exclusive

fh_lock(locks, key, type, exclusive, aux) ==
  IF key \in DOMAIN locks
    THEN [locks EXCEPT ![key].open_cnt = @ + 1]
    ELSE LET lock == [open_cnt |-> 1, exclusive |-> exclusive, type |-> type, aux |-> aux]
         IN [k \in {key} \cup DOMAIN locks |-> IF k = key THEN lock ELSE locks[k]]

UnlockAll(locks, key) ==            \* mutant: the first to leave closes
  [k \in DOMAIN locks \ {key} |-> locks[k]]
fh_unlock(locks, key) ==
  IF locks[key].open_cnt = 1
    THEN [k \in DOMAIN locks \ {key} |-> locks[k]]
    ELSE [locks EXCEPT ![key].open_cnt = @ - 1]
=============================================================================
