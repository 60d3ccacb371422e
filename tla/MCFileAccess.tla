---------------------------- MODULE MCFileAccess ----------------------------
(* FileAccess on a few names, files and clients.                           *)
EXTENDS FileAccess, TLC

RegularFile == Inode \ Device
Symmetry == Permutations(Client) \cup Permutations(Name) \cup Permutations(RegularFile)
=============================================================================
