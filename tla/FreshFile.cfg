\* A download of a file that was replaced during another one.
SPECIFICATION Spec
CONSTANTS
  Paths = {p1, p2}
  Downloads = {d1, d2}
  Uploads = {u1}
  MaxInodes = 2
  MaxObjects = 3
  MaxLength = 1
SYMMETRY Symmetry
CHECK_DEADLOCK FALSE
PROPERTY Fresh
