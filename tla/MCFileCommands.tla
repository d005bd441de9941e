--------------------------- MODULE MCFileCommands ---------------------------
(* Instance of FileCommands for TLC. *)
EXTENDS FileCommands, TLC

\* May append and rename files; may write files and handle directories; may
\* replace and delete files and rename whatever there is.
Appender == {"FileAppend", "FileRename"}
Writer   == {"FileWrite", "DirCreate", "DirDelete", "DirRename"}
Owner    == {"FileWrite", "FileDelete", "FileRename", "DirRename"}

Users == {Appender, Writer, Owner}

Symmetry == Permutations(Sessions) \cup Permutations(Paths) \cup Permutations(Inodes)
=============================================================================
