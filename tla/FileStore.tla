------------------------------ MODULE FileStore ------------------------------
(***************************************************************************)
(* What the permissions of users promise (permissions.h:7-16): an abstract *)
(* file store, changed by one atomic step after the other, each by a       *)
(* session whose user has the permission that is documented for it.        *)
(***************************************************************************)
CONSTANTS Sessions, Paths, Inodes, NoFile

VARIABLES
  permissions,  \* the permissions of the user of each session
  entry,        \* the inode at a path, or NoFile
  kind,         \* "file" or "dir"; "free" for an inode not yet used
  filled,       \* whether a file holds data
  uploads       \* the files a session is uploading to

store == <<permissions, entry, kind, filled, uploads>>

May(s, permission) == permission \in permissions[s]

At(path, k) == entry[path] # NoFile /\ kind[entry[path]] = k

Made(path, k, i) ==
  /\ entry[path] = NoFile /\ kind[i] = "free"
  /\ entry' = [entry EXCEPT ![path] = i]
  /\ kind' = [kind EXCEPT ![i] = k]

Receiving(s, i) == uploads' = [uploads EXCEPT ![s] = @ \cup {i}]

\* "Upload files as new files"
Create(s, path, i) ==
  /\ May(s, "FileWrite")
  /\ Made(path, "file", i) /\ Receiving(s, i)
  /\ UNCHANGED filled

\* "... or overwrite an existing file"
Overwrite(s, path) ==
  /\ May(s, "FileWrite") /\ May(s, "FileDelete")
  /\ At(path, "file")
  /\ filled' = [filled EXCEPT ![entry[path]] = FALSE]
  /\ Receiving(s, entry[path])
  /\ UNCHANGED <<entry, kind>>

\* "Upload files that get appended to existing files"
Extend(s, path) ==
  /\ May(s, "FileAppend")
  /\ At(path, "file")
  /\ Receiving(s, entry[path])
  /\ UNCHANGED <<entry, kind, filled>>

\* Data arrives for a file that was opened with a permission.
Receive(s, i) ==
  /\ i \in uploads[s]
  /\ filled' = [filled EXCEPT ![i] = TRUE]
  /\ UNCHANGED <<entry, kind, uploads>>

Finish(s, i) ==
  /\ i \in uploads[s]
  /\ uploads' = [uploads EXCEPT ![s] = @ \ {i}]
  /\ UNCHANGED <<entry, kind, filled>>

\* "Delete existing files", "Delete existing directories"
Delete(s, path) ==
  /\ \/ At(path, "file") /\ May(s, "FileDelete")
     \/ At(path, "dir") /\ May(s, "DirDelete")
  /\ entry' = [entry EXCEPT ![path] = NoFile]
  /\ UNCHANGED <<kind, filled, uploads>>

\* "Create new directories"
CreateDirectory(s, path, i) ==
  /\ May(s, "DirCreate")
  /\ Made(path, "dir", i)
  /\ UNCHANGED <<filled, uploads>>

\* "Rename existing files", "Rename existing directories"; nothing is
\* overwritten by it (ftp_session.cpp:865).
Rename(s, from, to) ==
  /\ \/ At(from, "file") /\ May(s, "FileRename")
     \/ At(from, "dir") /\ May(s, "DirRename")
  /\ entry[to] = NoFile
  /\ entry' = [entry EXCEPT ![from] = NoFile, ![to] = entry[from]]
  /\ UNCHANGED <<kind, filled, uploads>>

Change(s) ==
  /\ \/ \E path \in Paths :
           \/ \E i \in Inodes : Create(s, path, i) \/ CreateDirectory(s, path, i)
           \/ Overwrite(s, path) \/ Extend(s, path) \/ Delete(s, path)
           \/ \E to \in Paths : Rename(s, path, to)
     \/ \E i \in Inodes : Receive(s, i) \/ Finish(s, i)
  /\ UNCHANGED permissions
=============================================================================
