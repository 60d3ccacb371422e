CONSTANTS
  Absent = Absent
  Name = {f, g}
  Inode = {i1, i2, i3, tty}
  Device = {tty}
  Client = {c1, c2, c3}
SPECIFICATION Spec
SYMMETRY Symmetry
INVARIANTS TypeOK WritersShare OwnStream WholeFiles NoLitter Snapshot
PROPERTY OpensCurrentFile
CHECK_DEADLOCK FALSE
