---------------------------- MODULE FileCommands ----------------------------
(***************************************************************************)
(* The commands that change files and directories, as several sessions run *)
(* them over one file system.  Each handler asks for the status of a path  *)
(* and acts in a later system call; what it knows by then may be stale.    *)
(*                                                                         *)
(* A command that is refused changes nothing and is not an action; every   *)
(* system call may fail.  Paths are local paths without regard to which    *)
(* is below which: that a directory is not there, or not empty, is a       *)
(* failure of the call.                                                    *)
(***************************************************************************)
EXTENDS Functions

CONSTANTS
  Sessions,
  Paths,           \* local paths
  Inodes,          \* bound: files and directories ever created
  PermissionSets,  \* the permissions users are given
  NoFile, NoPath

ASSUME NoneOutside == NoFile \notin Inodes /\ NoPath \notin Paths

VARIABLES
  permissions,  \* permissions_ of the user of each session
  entry, kind, filled, uploads,    \* the file system, as in FileStore
  op            \* the handler of each session, between two system calls

vars == <<permissions, entry, kind, filled, uploads, op>>

Store == INSTANCE FileStore

May(s, permission) == permission \in permissions[s]

IsFile(i) == i # NoFile /\ kind[i] = "file"

(***************************************************************************)
(* "path" and "to" are the arguments, "saw" and "saw_to" what stat found   *)
(* there.                                                                  *)
(***************************************************************************)
Idle == [command |-> "none", path |-> NoPath, saw |-> NoFile,
         to |-> NoPath, saw_to |-> NoFile]

Init ==
  /\ permissions \in [Sessions -> PermissionSets]
  /\ \E path \in Paths, i \in Inodes :
        /\ entry = [p \in Paths |-> IF p = path THEN i ELSE NoFile]
        /\ kind = [j \in Inodes |-> IF j = i THEN "file" ELSE "free"]
        /\ filled = [j \in Inodes |-> j = i]
  /\ uploads = [s \in Sessions |-> {}]
  /\ op = [s \in Sessions |-> Idle]

\* A handler has passed the checks on the status of its path.
Checked(s, command, path) ==
  /\ op[s] = Idle
  /\ op' = [op EXCEPT ![s] = [Idle EXCEPT !.command = command, !.path = path,
                                          !.saw = entry[path]]]
  /\ UNCHANGED <<permissions, entry, kind, filled, uploads>>

Done(s) == op' = [op EXCEPT ![s] = Idle] /\ UNCHANGED permissions

\* The call fails, with an error reply.
Fails(s) == Done(s) /\ UNCHANGED <<entry, kind, filled, uploads>>

-----------------------------------------------------------------------------
(***************************************************************************)
(* Uploads: the constructor of WriteableFile opens an fstream, which       *)
(* creates a file that is not there and truncates one that is, unless it   *)
(* is opened to append.                                                    *)
(***************************************************************************)
OpenNew(s, path) ==
  /\ entry[path] = NoFile
  /\ \E i \in Inodes :
        /\ kind[i] = "free"
        /\ entry' = [entry EXCEPT ![path] = i]
        /\ kind' = [kind EXCEPT ![i] = "file"]
        /\ uploads' = [uploads EXCEPT ![s] = @ \cup {i}]
  /\ Done(s)
  /\ UNCHANGED filled

OpenExisting(s, path, append) ==
  /\ IsFile(entry[path])
  /\ filled' = IF append THEN filled
                ELSE [filled EXCEPT ![entry[path]] = FALSE]
  /\ uploads' = [uploads EXCEPT ![s] = @ \cup {entry[path]}]
  /\ Done(s)
  /\ UNCHANGED <<entry, kind>>

Open(s, append) ==
  \/ OpenNew(s, op[s].path)
  \/ OpenExisting(s, op[s].path, append)
  \/ Fails(s)

\* Faulty variant: FileDelete is not asked for.
STORWithoutDelete(s, path) ==
  /\ May(s, "FileWrite")
  /\ entry[path] = NoFile \/ IsFile(entry[path])
  /\ Checked(s, "STOR", path)

STOR(s, path) ==
  /\ May(s, "FileWrite")
  /\ entry[path] = NoFile \/ (IsFile(entry[path]) /\ May(s, "FileDelete"))
  /\ Checked(s, "STOR", path)

OpenSTOR(s) == op[s].command = "STOR" /\ Open(s, FALSE)

\* The name is random: any path at which stat finds nothing, within ten
\* attempts.
STOU(s, path) ==
  /\ May(s, "FileWrite")
  /\ entry[path] = NoFile
  /\ Checked(s, "STOU", path)

OpenSTOU(s) == op[s].command = "STOU" /\ Open(s, FALSE)

\* Faulty variant: the permission to append is enough for a new file.
APPEAnywhere(s, path) ==
  /\ May(s, "FileAppend")
  /\ entry[path] = NoFile \/ IsFile(entry[path])
  /\ Checked(s, "APPE", path)

APPE(s, path) ==
  /\ \/ entry[path] = NoFile /\ May(s, "FileWrite")
     \/ IsFile(entry[path]) /\ May(s, "FileAppend")
  /\ Checked(s, "APPE", path)

\* Faulty variant: the file is always opened as STOR does.
OpenAPPETruncating(s) == op[s].command = "APPE" /\ Open(s, FALSE)

OpenAPPE(s) == op[s].command = "APPE" /\ Open(s, op[s].saw # NoFile)

\* receiveDataFromSocketAndWriteToFile, on the data strand: the session may
\* run other commands meanwhile.
WriteData(s, i) ==
  /\ i \in uploads[s]
  /\ filled' = [filled EXCEPT ![i] = TRUE]
  /\ UNCHANGED <<permissions, entry, kind, uploads, op>>

EndDataReceiving(s, i) ==
  /\ i \in uploads[s]
  /\ uploads' = [uploads EXCEPT ![s] = @ \ {i}]
  /\ UNCHANGED <<permissions, entry, kind, filled, op>>

-----------------------------------------------------------------------------
(***************************************************************************)
(* Deletions, and directories.                                             *)
(***************************************************************************)
DELE(s, path) ==
  /\ IsFile(entry[path]) /\ May(s, "FileDelete")
  /\ Checked(s, "DELE", path)

\* unlink(2) takes no directory.
Unlink(s) ==
  /\ op[s].command = "DELE"
  /\ \/ /\ IsFile(entry[op[s].path])
        /\ entry' = [entry EXCEPT ![op[s].path] = NoFile]
        /\ Done(s)
        /\ UNCHANGED <<kind, filled, uploads>>
     \/ Fails(s)

\* mkdir(2) and rmdir(2) are the only look at the path.
MKD(s, path) ==
  /\ op[s] = Idle
  /\ May(s, "DirCreate")
  /\ entry[path] = NoFile
  /\ \E i \in Inodes :
        /\ kind[i] = "free"
        /\ entry' = [entry EXCEPT ![path] = i]
        /\ kind' = [kind EXCEPT ![i] = "dir"]
  /\ UNCHANGED <<permissions, filled, uploads, op>>

RMD(s, path) ==
  /\ op[s] = Idle
  /\ May(s, "DirDelete")
  /\ entry[path] # NoFile /\ ~IsFile(entry[path])
  /\ entry' = [entry EXCEPT ![path] = NoFile]
  /\ UNCHANGED <<permissions, kind, filled, uploads, op>>

-----------------------------------------------------------------------------
(***************************************************************************)
(* Renaming.  RNTO asks for the status of the source again, then for that  *)
(* of the target, then renames.                                            *)
(***************************************************************************)
checkIfPathIsRenamable(s, path) ==
  /\ entry[path] # NoFile
  /\ May(s, IF IsFile(entry[path]) THEN "FileRename" ELSE "DirRename")

RNTO(s, from) ==
  /\ checkIfPathIsRenamable(s, from)
  /\ Checked(s, "RNTO", from)

\* Faulty variant: no look at the target.
CheckTargetBlindly(s, to) ==
  /\ op[s].command = "RNTO"
  /\ op' = [op EXCEPT ![s].command = "rename", ![s].to = to,
                      ![s].saw_to = entry[to]]
  /\ UNCHANGED <<permissions, entry, kind, filled, uploads>>

CheckTarget(s, to) ==
  /\ op[s].command = "RNTO"
  /\ op' = [op EXCEPT ![s] = IF entry[to] # NoFile THEN Idle
                             ELSE [@ EXCEPT !.command = "rename", !.to = to,
                                            !.saw_to = entry[to]]]
  /\ UNCHANGED <<permissions, entry, kind, filled, uploads>>

\* Faulty variant: the new entry is made and the old one forgotten.
RenameCallLinks(s) ==
  /\ op[s].command = "rename"
  /\ entry[op[s].path] # NoFile
  /\ entry' = [entry EXCEPT ![op[s].to] = entry[op[s].path]]
  /\ Done(s)
  /\ UNCHANGED <<kind, filled, uploads>>

\* rename(2): a file replaces a file, and a directory an empty directory.
RenameCall(s) ==
  LET from == op[s].path
      to   == op[s].to
  IN
  /\ op[s].command = "rename"
  /\ \/ /\ from # to /\ entry[from] # NoFile
        /\ entry[to] # NoFile => (IsFile(entry[from]) <=> IsFile(entry[to]))
        /\ entry' = [entry EXCEPT ![from] = NoFile, ![to] = entry[from]]
        /\ Done(s)
        /\ UNCHANGED <<kind, filled, uploads>>
     \/ Fails(s)

-----------------------------------------------------------------------------
Upload(s) == \/ \E path \in Paths : STOR(s, path) \/ STOU(s, path) \/ APPE(s, path)
             \/ OpenSTOR(s) \/ OpenSTOU(s) \/ OpenAPPE(s)
             \/ \E i \in Inodes : WriteData(s, i) \/ EndDataReceiving(s, i)

Removal(s) == \/ \E path \in Paths : DELE(s, path) \/ RMD(s, path)
              \/ Unlink(s)

Renaming(s) == \/ \E path \in Paths : RNTO(s, path) \/ CheckTarget(s, path)
               \/ RenameCall(s)

Next == \E s \in Sessions :
           \/ Upload(s)
           \/ Removal(s)
           \/ \E path \in Paths : MKD(s, path)
           \/ Renaming(s)

Spec == Init /\ [][Next]_vars

-----------------------------------------------------------------------------
(***************************************************************************)
(* Properties.                                                             *)
(***************************************************************************)

(***************************************************************************)
(* The variables have their types; a path leads to a file or a directory   *)
(* that was created, no two to the same one, and uploads go to files.      *)
(***************************************************************************)
Commands == {"none", "STOR", "STOU", "APPE", "DELE", "RNTO", "rename"}

TypeOK ==
  /\ permissions \in [Sessions -> PermissionSets]
  /\ entry \in [Paths -> Inodes \cup {NoFile}]
  /\ kind \in [Inodes -> {"free", "file", "dir"}]
  /\ filled \in [Inodes -> BOOLEAN]
  /\ uploads \in [Sessions -> SUBSET Inodes]
  /\ op \in [Sessions -> [command : Commands, path : Paths \cup {NoPath},
                          saw : Inodes \cup {NoFile}, to : Paths \cup {NoPath},
                          saw_to : Inodes \cup {NoFile}]]
  /\ \A p, q \in Paths :
        entry[p] # NoFile => kind[entry[p]] # "free"
                             /\ (entry[p] = entry[q] => p = q)
  /\ \A s \in Sessions : \A i \in uploads[s] : kind[i] = "file"

\* A step of the handler of s, and a path it asked about that has changed.
Moves(s) == op'[s] # op[s]

Disturbed(s) ==
  \/ op[s].path # NoPath /\ entry[op[s].path] # op[s].saw
  \/ op[s].to # NoPath /\ entry[op[s].to] # op[s].saw_to

(***************************************************************************)
(* Every change of the file system is one that the permissions of the      *)
(* session's user promise, done in one step, unless another session came   *)
(* between the command's check and its act.                                *)
(***************************************************************************)
Permitted ==
  [][\E s \in Sessions : Store!Change(s) \/ (Moves(s) /\ Disturbed(s))]_(Store!store)

\* Inode i had an entry, and its data or its entry goes.
Lost(i) == /\ i \in Range(entry)
           /\ \/ i \notin Range(entry')
              \/ filled[i] /\ ~filled'[i]

(***************************************************************************)
(* Even when it comes to that, an upload of a user without the permission  *)
(* to delete costs no file that its check found at the path: only one that *)
(* came there since then.  STOU and APPE cost none they found at all.      *)
(***************************************************************************)
UploadKeepsWhatItSaw ==
  [][\A s \in Sessions, i \in Inodes :
        Moves(s) /\ op[s].command \in {"STOR", "STOU", "APPE"} /\ Lost(i)
          => \/ i # op[s].saw
             \/ op[s].command = "STOR" /\ May(s, "FileDelete")]_vars

(***************************************************************************)
(* A renaming costs no file that was at the target when RNTO looked, and   *)
(* moves nothing that the user may not rename except what came to the      *)
(* source since RNTO looked there.                                         *)
(***************************************************************************)
RenameKeepsWhatItSaw ==
  [][\A s \in Sessions, i \in Inodes :
        Moves(s) /\ op[s].command = "rename"
          => /\ Lost(i) => i # op[s].saw_to
             /\ entry[op[s].path] = i /\ entry'[op[s].path] # i
                  => \/ i # op[s].saw
                     \/ May(s, IF IsFile(i) THEN "FileRename" ELSE "DirRename")]_vars

(***************************************************************************)
(* Even a disturbed command creates no file without the permission to      *)
(* write, except in the place of one that was there to append to.          *)
(***************************************************************************)
NewFileNeedsWrite ==
  [][\A i \in Inodes :
        kind[i] = "free" /\ kind'[i] = "file"
          => \E s \in Sessions :
                /\ Moves(s)
                /\ \/ May(s, "FileWrite")
                   \/ op[s].command = "APPE" /\ op[s].saw # NoFile]_vars
=============================================================================
