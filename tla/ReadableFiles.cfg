\* Two paths, three downloads and an upload; three objects may be made.
SPECIFICATION Spec
CONSTANTS
  Paths = {p1, p2}
  Downloads = {d1, d2, d3}
  Uploads = {u1}
  MaxInodes = 2
  MaxObjects = 3
  MaxLength = 1
SYMMETRY Symmetry
CHECK_DEADLOCK FALSE
INVARIANTS
  TypeOK
  HeldLives
  EntriesEnd
PROPERTY FreshWhenAlone
