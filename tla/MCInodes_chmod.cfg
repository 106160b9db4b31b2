\* One process makes a directory and calls chmod() on it.
CONSTANTS
  Proc = {p1}
  Inum = {i1, i2, i3}
  Root = i1
  None = None
  Free = Free
  a = a
  b = b
  Name = {a, b}
  Requests <- Modes
  MaxLink = 3
SPECIFICATION SpecChmod
PROPERTY TypeKept
