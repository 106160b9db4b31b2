\* The calls of MCFiles.cfg: an inode that nobody uses and names stays allocated.
CONSTANTS
  Proc = {p1, p2}
  Inum = {i1, i2, i3}
  Root = i1
  None = None
  Free = Free
  a = a
  b = b
  Name = {a, b}
  Requests <- Tree
  MaxLink = 3
SPECIFICATION Spec
SYMMETRY Symmetry
INVARIANTS Reclaimed
