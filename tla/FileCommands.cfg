\* Two sessions of every pair of users; a third inode for a newcomer.
CONSTANTS
  Sessions = {s1, s2}
  Paths = {p, q}
  Inodes = {i1, i2, i3}
  PermissionSets <- Users
  NoFile = NoFile
  NoPath = NoPath
SPECIFICATION Spec
SYMMETRY Symmetry
INVARIANT TypeOK
PROPERTIES Permitted UploadKeepsWhatItSaw RenameKeepsWhatItSaw NewFileNeedsWrite
CHECK_DEADLOCK FALSE
