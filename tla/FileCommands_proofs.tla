------------------------ MODULE FileCommands_proofs ------------------------
(***************************************************************************)
(* Theorems about FileCommands, for any number of sessions, paths and      *)
(* files and any permissions of the users.                                 *)
(***************************************************************************)
EXTENDS FileCommands, TLAPS

(***************************************************************************)
(* What a handler knows between two of its system calls: the permissions   *)
(* that its checks asked for, and what kind of thing they saw.  It is      *)
(* about what was seen, not about what is there by now.                    *)
(***************************************************************************)
Knows(s) ==
  LET o == op[s] IN
  /\ o.command # "none" => o.path \in Paths
  /\ o.command = "STOR" => /\ May(s, "FileWrite")
                           /\ o.saw # NoFile => May(s, "FileDelete")
  /\ o.command = "STOU" => May(s, "FileWrite") /\ o.saw = NoFile
  /\ o.command = "APPE" => IF o.saw = NoFile THEN May(s, "FileWrite")
                           ELSE May(s, "FileAppend")
  /\ o.command = "DELE" => May(s, "FileDelete")
  /\ o.command \in {"RNTO", "rename"} =>
        /\ o.saw # NoFile /\ kind[o.saw] # "free"
        /\ May(s, IF IsFile(o.saw) THEN "FileRename" ELSE "DirRename")
  /\ o.command = "rename" => o.to \in Paths /\ o.saw_to = NoFile

IInv == TypeOK /\ \A s \in Sessions : Knows(s)

OpType == [command : Commands, path : Paths \cup {NoPath},
           saw : Inodes \cup {NoFile}, to : Paths \cup {NoPath},
           saw_to : Inodes \cup {NoFile}]

LEMMA IdleType == Idle \in OpType
BY DEF Idle, OpType, Commands

LEMMA InitIInv == Init => IInv
<1> SUFFICES ASSUME Init PROVE IInv
  OBVIOUS
<1>1. TypeOK
  BY IdleType, NoneOutside DEF Init, TypeOK, OpType
<1>2. \A s \in Sessions : Knows(s)
  BY DEF Init, Knows, Idle
<1> QED BY <1>1, <1>2 DEF IInv

-----------------------------------------------------------------------------
(* The types. *)

\* A handler that passes its checks.
LEMMA CheckedType ==
  ASSUME TypeOK, NEW s \in Sessions, NEW path \in Paths,
         NEW command \in Commands, Checked(s, command, path)
  PROVE  TypeOK'
<1>1. [Idle EXCEPT !.command = command, !.path = path, !.saw = entry[path]]
        \in OpType
  BY DEF Idle, OpType, TypeOK
<1>2. op' \in [Sessions -> OpType]
  BY <1>1 DEF Checked, TypeOK, OpType
<1> QED BY <1>2 DEF Checked, TypeOK, OpType, IsFile

\* A handler that ends.
LEMMA DoneType ==
  ASSUME TypeOK, NEW s \in Sessions, Done(s)
  PROVE  op' \in [Sessions -> OpType] /\ permissions' \in [Sessions -> PermissionSets]
BY IdleType DEF Done, TypeOK, OpType

LEMMA FailsType ==
  ASSUME TypeOK, NEW s \in Sessions, Fails(s)
  PROVE  TypeOK'
BY DoneType DEF Fails, TypeOK, OpType

\* A file or directory that is made where nothing was.
LEMMA MadeType ==
  ASSUME TypeOK, NEW path \in Paths, NEW i \in Inodes, NEW k \in {"file", "dir"},
         kind[i] = "free",
         entry' = [entry EXCEPT ![path] = i], kind' = [kind EXCEPT ![i] = k]
  PROVE  /\ entry' \in [Paths -> Inodes \cup {NoFile}]
         /\ kind' \in [Inodes -> {"free", "file", "dir"}]
         /\ \A p, q \in Paths :
               entry'[p] # NoFile => kind'[entry'[p]] # "free"
                                     /\ (entry'[p] = entry'[q] => p = q)
         /\ \A s \in Sessions : \A j \in uploads[s] : kind'[j] = "file"
<1>1. entry' \in [Paths -> Inodes \cup {NoFile}] /\ kind' \in [Inodes -> {"free", "file", "dir"}]
  BY DEF TypeOK
<1>2. \A p \in Paths : entry[p] # NoFile => entry[p] \in Inodes /\ entry[p] # i
  BY DEF TypeOK
<1>3. \A p, q \in Paths :
         entry'[p] # NoFile => kind'[entry'[p]] # "free"
                               /\ (entry'[p] = entry'[q] => p = q)
  BY <1>2, NoneOutside DEF TypeOK
<1>4. \A s \in Sessions : \A j \in uploads[s] : kind'[j] = "file"
  BY DEF TypeOK
<1> QED BY <1>1, <1>3, <1>4

LEMMA OpenType ==
  ASSUME TypeOK, NEW s \in Sessions, op[s].path \in Paths, NEW append \in BOOLEAN,
         Open(s, append)
  PROVE  TypeOK'
<1> DEFINE path == op[s].path
<1>1. CASE OpenNew(s, path)
  <2>1. PICK i \in Inodes :
           /\ kind[i] = "free"
           /\ entry' = [entry EXCEPT ![path] = i]
           /\ kind' = [kind EXCEPT ![i] = "file"]
           /\ uploads' = [uploads EXCEPT ![s] = @ \cup {i}]
    BY <1>1 DEF OpenNew
  <2>2. /\ entry' \in [Paths -> Inodes \cup {NoFile}]
        /\ kind' \in [Inodes -> {"free", "file", "dir"}]
        /\ \A p, q \in Paths :
              entry'[p] # NoFile => kind'[entry'[p]] # "free"
                                    /\ (entry'[p] = entry'[q] => p = q)
        /\ \A t \in Sessions : \A j \in uploads[t] : kind'[j] = "file"
    BY <2>1, MadeType
  <2>3. /\ uploads' \in [Sessions -> SUBSET Inodes]
        /\ \A t \in Sessions : \A j \in uploads'[t] : kind'[j] = "file"
    BY <2>1, <2>2 DEF TypeOK
  <2>4. Done(s) /\ filled' = filled
    BY <1>1 DEF OpenNew
  <2> QED BY <2>2, <2>3, <2>4, DoneType DEF TypeOK, OpType
<1>2. CASE OpenExisting(s, path, append)
  <2>1. entry[path] \in Inodes /\ kind[entry[path]] = "file"
    BY <1>2 DEF OpenExisting, IsFile, TypeOK
  <2>2. filled' \in [Inodes -> BOOLEAN]
    BY <1>2, <2>1 DEF OpenExisting, TypeOK
  <2>3. /\ uploads' \in [Sessions -> SUBSET Inodes]
        /\ \A t \in Sessions : \A j \in uploads'[t] : kind'[j] = "file"
    BY <1>2, <2>1 DEF OpenExisting, TypeOK
  <2>4. Done(s) /\ entry' = entry /\ kind' = kind
    BY <1>2 DEF OpenExisting
  <2> QED BY <2>2, <2>3, <2>4, DoneType DEF TypeOK, OpType
<1>3. CASE Fails(s)
  BY <1>3, FailsType
<1> QED BY <1>1, <1>2, <1>3 DEF Open

\* An entry that is removed.
LEMMA RemovedType ==
  ASSUME TypeOK, NEW path \in Paths,
         entry' = [entry EXCEPT ![path] = NoFile], kind' = kind
  PROVE  /\ entry' \in [Paths -> Inodes \cup {NoFile}]
         /\ \A p, q \in Paths :
               entry'[p] # NoFile => kind'[entry'[p]] # "free"
                                     /\ (entry'[p] = entry'[q] => p = q)
BY DEF TypeOK

\* Each action keeps the types.
LEMMA TypeStep == IInv /\ [Next]_vars => TypeOK'
<1> SUFFICES ASSUME TypeOK, \A s \in Sessions : Knows(s), [Next]_vars
             PROVE  TypeOK'
  BY DEF IInv
<1>1. ASSUME NEW s \in Sessions, NEW path \in Paths,
             \/ STOR(s, path) \/ STOU(s, path) \/ APPE(s, path)
             \/ DELE(s, path) \/ RNTO(s, path)
      PROVE  TypeOK'
  BY <1>1, CheckedType DEF STOR, STOU, APPE, DELE, RNTO, Commands
<1>2. ASSUME NEW s \in Sessions, OpenSTOR(s) \/ OpenSTOU(s) \/ OpenAPPE(s)
      PROVE  TypeOK'
  <2>1. op[s].path \in Paths
    BY <1>2 DEF OpenSTOR, OpenSTOU, OpenAPPE, Knows
  <2> QED BY <1>2, <2>1, OpenType DEF OpenSTOR, OpenSTOU, OpenAPPE
<1>3. ASSUME NEW s \in Sessions, NEW i \in Inodes,
             WriteData(s, i) \/ EndDataReceiving(s, i)
      PROVE  TypeOK'
  <2>1. CASE WriteData(s, i)
    BY <2>1 DEF WriteData, TypeOK
  <2>2. CASE EndDataReceiving(s, i)
    BY <2>2 DEF EndDataReceiving, TypeOK
  <2> QED BY <1>3, <2>1, <2>2
<1>4. ASSUME NEW s \in Sessions, NEW path \in Paths, MKD(s, path)
      PROVE  TypeOK'
  <2>1. PICK i \in Inodes : /\ kind[i] = "free"
                            /\ entry' = [entry EXCEPT ![path] = i]
                            /\ kind' = [kind EXCEPT ![i] = "dir"]
    BY <1>4 DEF MKD
  <2> QED BY <1>4, <2>1, MadeType DEF MKD, TypeOK
<1>5. ASSUME NEW s \in Sessions, NEW path \in Paths, RMD(s, path)
      PROVE  TypeOK'
  BY <1>5, RemovedType DEF RMD, TypeOK
<1>6. ASSUME NEW s \in Sessions, Unlink(s) PROVE TypeOK'
  <2>1. CASE Fails(s)
    BY <2>1, FailsType
  <2>2. CASE /\ entry' = [entry EXCEPT ![op[s].path] = NoFile]
             /\ Done(s)
             /\ UNCHANGED <<kind, filled, uploads>>
    <3>1. op[s].path \in Paths
      BY <1>6 DEF Unlink, Knows
    <3> QED BY <2>2, <3>1, RemovedType, DoneType DEF TypeOK, OpType
  <2> QED BY <1>6, <2>1, <2>2 DEF Unlink
<1>7. ASSUME NEW s \in Sessions, NEW to \in Paths, CheckTarget(s, to)
      PROVE  TypeOK'
  <2> DEFINE next == [op[s] EXCEPT !.command = "rename", !.to = to,
                                   !.saw_to = entry[to]]
  <2>1. next \in OpType
    <3>1. op[s] \in OpType /\ entry[to] \in Inodes \cup {NoFile}
      BY DEF TypeOK, OpType
    <3>2. "rename" \in Commands
      BY DEF Commands
    <3> QED BY <3>1, <3>2 DEF OpType
  <2>2. op' \in [Sessions -> OpType]
    BY <1>7, <2>1, IdleType DEF CheckTarget, TypeOK, OpType
  <2> QED BY <1>7, <2>2 DEF CheckTarget, TypeOK, OpType
<1>8. ASSUME NEW s \in Sessions, RenameCall(s) PROVE TypeOK'
  <2> DEFINE from == op[s].path
             to   == op[s].to
  <2>1. CASE Fails(s)
    BY <2>1, FailsType
  <2>2. CASE /\ from # to /\ entry[from] # NoFile
             /\ entry' = [entry EXCEPT ![from] = NoFile, ![to] = entry[from]]
             /\ Done(s)
             /\ UNCHANGED <<kind, filled, uploads>>
    <3>1. from \in Paths /\ to \in Paths
      BY <1>8 DEF RenameCall, Knows
    <3>2. entry' \in [Paths -> Inodes \cup {NoFile}]
      BY <2>2, <3>1 DEF TypeOK
    <3>3. \A p, q \in Paths :
             entry'[p] # NoFile => kind'[entry'[p]] # "free"
                                   /\ (entry'[p] = entry'[q] => p = q)
      BY <2>2, <3>1 DEF TypeOK
    <3> QED BY <2>2, <3>2, <3>3, DoneType DEF TypeOK, OpType
  <2> QED BY <1>8, <2>1, <2>2 DEF RenameCall
<1>9. CASE UNCHANGED vars
  BY <1>9 DEF vars, TypeOK
<1> QED BY <1>1, <1>2, <1>3, <1>4, <1>5, <1>6, <1>7, <1>8, <1>9
        DEF Next, Upload, Removal, Renaming
-----------------------------------------------------------------------------
(* What the handlers know. *)

\* What a session knows stays so while its handler rests: the permissions of
\* users do not change, and neither does the kind of anything that exists.
LEMMA KnowsStays ==
  ASSUME TypeOK, NEW s \in Sessions, Knows(s), op'[s] = op[s],
         permissions' = permissions,
         \A i \in Inodes : kind[i] # "free" => kind'[i] = kind[i]
  PROVE  Knows(s)'
<1>1. op[s].saw \in Inodes \cup {NoFile}
  BY DEF TypeOK
<1> QED BY <1>1 DEF Knows, May, IsFile

LEMMA KnowsIdle ==
  ASSUME NEW s \in Sessions, op'[s] = Idle
  PROVE  Knows(s)'
BY DEF Knows, Idle

\* What its checks tell a handler that begins.
LEMMA KnowsChecked ==
  ASSUME TypeOK, NEW s \in Sessions, NEW path \in Paths,
         \/ STOR(s, path) \/ STOU(s, path) \/ APPE(s, path)
         \/ DELE(s, path) \/ RNTO(s, path)
  PROVE  Knows(s)'
<1>1. ASSUME NEW command, Checked(s, command, path)
      PROVE  /\ op'[s].command = command /\ op'[s].path = path
             /\ op'[s].saw = entry[path]
             /\ permissions' = permissions /\ kind' = kind
  BY <1>1 DEF Checked, TypeOK, Idle
<1>2. CASE STOR(s, path)
  BY <1>1, <1>2 DEF STOR, Knows, May
<1>3. CASE STOU(s, path)
  BY <1>1, <1>3 DEF STOU, Knows, May
<1>4. CASE APPE(s, path)
  BY <1>1, <1>4 DEF APPE, Knows, May, IsFile
<1>5. CASE DELE(s, path)
  BY <1>1, <1>5 DEF DELE, Knows, May
<1>6. CASE RNTO(s, path)
  BY <1>1, <1>6 DEF RNTO, checkIfPathIsRenamable, Knows, May, IsFile, TypeOK
<1> QED BY <1>2, <1>3, <1>4, <1>5, <1>6

\* The look at the target adds that there was nothing.
LEMMA KnowsTarget ==
  ASSUME TypeOK, NEW s \in Sessions, Knows(s), NEW to \in Paths,
         CheckTarget(s, to)
  PROVE  Knows(s)'
<1>1. CASE entry[to] # NoFile
  BY <1>1, KnowsIdle DEF CheckTarget, TypeOK
<1>2. CASE entry[to] = NoFile
  <2>1. /\ op'[s].command = "rename" /\ op'[s].path = op[s].path
        /\ op'[s].saw = op[s].saw /\ op'[s].to = to /\ op'[s].saw_to = NoFile
        /\ permissions' = permissions /\ kind' = kind
    BY <1>2 DEF CheckTarget, TypeOK
  <2>2. op[s].command = "RNTO"
    BY DEF CheckTarget
  <2> QED BY <2>1, <2>2 DEF Knows, May, IsFile
<1> QED BY <1>1, <1>2

\* The inode of a file or directory is made from one that was free.
LEMMA KindStays ==
  ASSUME TypeOK, [Next]_vars
  PROVE  /\ permissions' = permissions
         /\ \A i \in Inodes : kind[i] # "free" => kind'[i] = kind[i]
<1>1. ASSUME UNCHANGED <<permissions, kind>>
      PROVE  /\ permissions' = permissions
             /\ \A i \in Inodes : kind[i] # "free" => kind'[i] = kind[i]
  BY <1>1
<1>2. ASSUME NEW s \in Sessions, NEW path, OpenNew(s, path) \/ MKD(s, path)
      PROVE  /\ permissions' = permissions
             /\ \A i \in Inodes : kind[i] # "free" => kind'[i] = kind[i]
  BY <1>2 DEF OpenNew, MKD, Done, TypeOK
<1>3. ASSUME NEW s \in Sessions, NEW append, Open(s, append)
      PROVE  \/ UNCHANGED <<permissions, kind>>
             \/ OpenNew(s, op[s].path)
  BY <1>3 DEF Open, OpenExisting, Fails, Done
<1>4. ASSUME NEW s \in Sessions, Upload(s) PROVE
             \/ UNCHANGED <<permissions, kind>>
             \/ OpenNew(s, op[s].path)
  BY <1>3, <1>4 DEF Upload, STOR, STOU, APPE, Checked, OpenSTOR, OpenSTOU,
                    OpenAPPE, WriteData, EndDataReceiving
<1>5. ASSUME NEW s \in Sessions, Removal(s) \/ Renaming(s)
      PROVE  UNCHANGED <<permissions, kind>>
  BY <1>5 DEF Removal, DELE, RMD, Unlink, Renaming, RNTO, CheckTarget,
              RenameCall, Checked, Fails, Done
<1> QED BY <1>1, <1>2, <1>4, <1>5 DEF Next, vars

\* Who moves: one session in each step, with one of its handlers.
LEMMA OneMoves ==
  ASSUME TypeOK, Next
  PROVE  \E s \in Sessions :
            /\ \A t \in Sessions \ {s} : op'[t] = op[t]
            /\ \/ op'[s] = op[s]
               \/ op'[s] = Idle
               \/ \E path \in Paths :
                     \/ STOR(s, path) \/ STOU(s, path) \/ APPE(s, path)
                     \/ DELE(s, path) \/ RNTO(s, path) \/ CheckTarget(s, path)
<1>1. PICK s \in Sessions : \/ Upload(s) \/ Removal(s) \/ Renaming(s)
                            \/ \E path \in Paths : MKD(s, path)
  BY DEF Next
<1>2. \A t \in Sessions \ {s} : op'[t] = op[t]
  BY <1>1 DEF TypeOK, Upload, STOR, STOU, APPE, Checked, OpenSTOR, OpenSTOU,
      OpenAPPE, Open, OpenNew, OpenExisting, Fails, Done, WriteData,
      EndDataReceiving, Removal, DELE, RMD, Unlink, Renaming, RNTO,
      CheckTarget, RenameCall, MKD
<1>3. \/ op'[s] = op[s]
      \/ op'[s] = Idle
      \/ \E path \in Paths :
            \/ STOR(s, path) \/ STOU(s, path) \/ APPE(s, path)
            \/ DELE(s, path) \/ RNTO(s, path) \/ CheckTarget(s, path)
  BY <1>1 DEF TypeOK, Upload, OpenSTOR, OpenSTOU,
      OpenAPPE, Open, OpenNew, OpenExisting, Fails, Done, WriteData,
      EndDataReceiving, Removal, RMD, Unlink, Renaming, RenameCall, MKD
<1> QED BY <1>2, <1>3

LEMMA KnowsStep ==
  ASSUME IInv, [Next]_vars
  PROVE  \A s \in Sessions : Knows(s)'
<1> USE DEF IInv
<1>1. CASE UNCHANGED vars
  BY <1>1, KnowsStays DEF vars
<1>2. CASE Next
  <2>1. PICK s \in Sessions :
            /\ \A t \in Sessions \ {s} : op'[t] = op[t]
            /\ \/ op'[s] = op[s]
               \/ op'[s] = Idle
               \/ \E path \in Paths :
                     \/ STOR(s, path) \/ STOU(s, path) \/ APPE(s, path)
                     \/ DELE(s, path) \/ RNTO(s, path) \/ CheckTarget(s, path)
    BY <1>2, OneMoves
  <2>2. \A t \in Sessions \ {s} : Knows(t)'
    BY <2>1, KindStays, KnowsStays
  <2>3. Knows(s)'
    BY <2>1, KindStays, KnowsStays, KnowsIdle, KnowsChecked, KnowsTarget
  <2> QED BY <2>2, <2>3
<1> QED BY <1>1, <1>2

THEOREM Invariance == Spec => []IInv
<1>1. Init => IInv
  BY InitIInv
<1>2. IInv /\ [Next]_vars => IInv'
  BY TypeStep, KnowsStep DEF IInv
<1> QED BY <1>1, <1>2, PTL DEF Spec

\* The variables have their types, and no two paths lead to one file.
THEOREM TypeCorrect == Spec => []TypeOK
<1>1. IInv => TypeOK
  BY DEF IInv
<1> QED BY <1>1, Invariance, PTL

-----------------------------------------------------------------------------
(* The action properties. *)

\* The session whose handler moves is the one that acts; MKD and RMD, and the
\* data of uploads, move no handler.
LEMMA MoverActs ==
  ASSUME TypeOK, [Next]_vars, NEW s \in Sessions, Moves(s), op[s] # Idle
  PROVE  \/ OpenSTOR(s) \/ OpenSTOU(s) \/ OpenAPPE(s)
         \/ Unlink(s) \/ RenameCall(s) \/ \E to \in Paths : CheckTarget(s, to)
<1>1. Next
  BY DEF Moves, vars
<1>2. PICK t \in Sessions : \/ Upload(t) \/ Removal(t) \/ Renaming(t)
                            \/ \E path \in Paths : MKD(t, path)
  BY <1>1 DEF Next
<1>3. \A r \in Sessions \ {t} : op'[r] = op[r]
  BY <1>2 DEF TypeOK, Upload, STOR, STOU, APPE, Checked, OpenSTOR, OpenSTOU,
      OpenAPPE, Open, OpenNew, OpenExisting, Fails, Done, WriteData,
      EndDataReceiving, Removal, DELE, RMD, Unlink, Renaming, RNTO,
      CheckTarget, RenameCall, MKD
<1>4. t = s
  BY <1>3 DEF Moves
<1> QED BY <1>2, <1>4 DEF Moves, Upload, STOR, STOU, APPE, Checked, WriteData,
      EndDataReceiving, Removal, DELE, RMD, Renaming, RNTO, MKD

\* What an open costs: the data of the file it truncates.
LEMMA OpenCosts ==
  ASSUME TypeOK, NEW s \in Sessions, op[s].path \in Paths, NEW append \in BOOLEAN,
         Open(s, append), NEW i \in Inodes, Lost(i)
  PROVE  i = entry[op[s].path] /\ ~append
<1> DEFINE path == op[s].path
<1>1. PICK p \in Paths : entry[p] = i
  BY DEF Lost, Range, TypeOK
<1>2. ASSUME OpenNew(s, path) PROVE FALSE
  <2>1. entry'[p] = i /\ p \in DOMAIN entry'
    BY <1>1, <1>2, NoneOutside DEF OpenNew, TypeOK
  <2> QED BY <1>2, <2>1 DEF OpenNew, Lost, Range
<1>3. ASSUME Fails(s) PROVE FALSE
  BY <1>3 DEF Fails, Lost
<1>4. OpenExisting(s, path, append)
  BY <1>2, <1>3 DEF Open
<1>5. filled[i] /\ ~filled'[i]
  BY <1>4 DEF OpenExisting, Lost
<1> QED BY <1>4, <1>5 DEF OpenExisting, TypeOK

LEMMA UploadStep ==
  ASSUME IInv, [Next]_vars, NEW s \in Sessions, NEW i \in Inodes,
         Moves(s), op[s].command \in {"STOR", "STOU", "APPE"}, Lost(i)
  PROVE  \/ i # op[s].saw
         \/ op[s].command = "STOR" /\ May(s, "FileDelete")
<1> USE DEF IInv
<1>1. op[s] # Idle /\ op[s].path \in Paths /\ Knows(s)
  BY DEF Idle, Knows
<1>2. OpenSTOR(s) \/ OpenSTOU(s) \/ OpenAPPE(s)
  BY <1>1, MoverActs DEF Unlink, RenameCall, CheckTarget
<1>3. CASE OpenSTOR(s)
  BY <1>1, <1>3, NoneOutside DEF OpenSTOR, Knows
<1>4. CASE OpenSTOU(s)
  BY <1>1, <1>4, NoneOutside DEF OpenSTOU, Knows
<1>5. CASE OpenAPPE(s)
  <2>1. Open(s, op[s].saw # NoFile) /\ (op[s].saw # NoFile) \in BOOLEAN
    BY <1>5 DEF OpenAPPE
  <2>2. op[s].saw = NoFile
    BY <1>1, <2>1, OpenCosts
  <2> QED BY <2>2, NoneOutside
<1> QED BY <1>2, <1>3, <1>4, <1>5

\* An upload costs no file that its check saw, without the permission.
THEOREM UploadsKeep == Spec => UploadKeepsWhatItSaw
<1>1. IInv /\ [Next]_vars =>
        [\A s \in Sessions, i \in Inodes :
            Moves(s) /\ op[s].command \in {"STOR", "STOU", "APPE"} /\ Lost(i)
              => \/ i # op[s].saw
                 \/ op[s].command = "STOR" /\ May(s, "FileDelete")]_vars
  BY UploadStep
<1> QED BY <1>1, Invariance, PTL DEF Spec, UploadKeepsWhatItSaw

LEMMA RenameStep ==
  ASSUME IInv, [Next]_vars, NEW s \in Sessions, NEW i \in Inodes,
         Moves(s), op[s].command = "rename"
  PROVE  /\ Lost(i) => i # op[s].saw_to
         /\ entry[op[s].path] = i /\ entry'[op[s].path] # i
              => \/ i # op[s].saw
                 \/ May(s, IF IsFile(i) THEN "FileRename" ELSE "DirRename")
<1>1. Knows(s)
  BY DEF IInv
<1>2. i # op[s].saw_to
  BY <1>1, NoneOutside DEF Knows
<1>3. i = op[s].saw => May(s, IF IsFile(i) THEN "FileRename" ELSE "DirRename")
  BY <1>1 DEF Knows
<1> QED BY <1>2, <1>3

\* A renaming costs no file that it saw, and moves what it saw with the
\* permission for it.
THEOREM RenamingsKeep == Spec => RenameKeepsWhatItSaw
<1>1. IInv /\ [Next]_vars =>
        [\A s \in Sessions, i \in Inodes :
            Moves(s) /\ op[s].command = "rename"
              => /\ Lost(i) => i # op[s].saw_to
                 /\ entry[op[s].path] = i /\ entry'[op[s].path] # i
                      => \/ i # op[s].saw
                         \/ May(s, IF IsFile(i) THEN "FileRename" ELSE "DirRename")]_vars
  BY RenameStep
<1> QED BY <1>1, Invariance, PTL DEF Spec, RenameKeepsWhatItSaw

\* Only an open makes a file.
LEMMA NewFileIsOpened ==
  ASSUME TypeOK, [Next]_vars, NEW i \in Inodes, kind[i] = "free", kind'[i] = "file"
  PROVE  \E s \in Sessions : OpenSTOR(s) \/ OpenSTOU(s) \/ OpenAPPE(s)
<1>1. ASSUME kind' = kind PROVE FALSE
  BY <1>1
<1>2. ASSUME NEW s \in Sessions, NEW path \in Paths, MKD(s, path) PROVE FALSE
  BY <1>2 DEF MKD, TypeOK
<1>3. PICK s \in Sessions : Upload(s) \/ Removal(s) \/ Renaming(s)
  BY <1>1, <1>2 DEF Next, vars
<1> QED BY <1>1, <1>3 DEF Upload, STOR, STOU, APPE, Checked, WriteData,
      EndDataReceiving, Removal, DELE, RMD, Unlink, Renaming, RNTO,
      CheckTarget, RenameCall, Fails

LEMMA IdleIsNone == Idle.command = "none"
BY DEF Idle

LEMMA NewFileStep ==
  ASSUME IInv, [Next]_vars, NEW i \in Inodes, kind[i] = "free", kind'[i] = "file"
  PROVE  \E s \in Sessions :
            /\ Moves(s)
            /\ \/ May(s, "FileWrite")
               \/ op[s].command = "APPE" /\ op[s].saw # NoFile
<1> USE DEF IInv
<1>1. PICK s \in Sessions : OpenSTOR(s) \/ OpenSTOU(s) \/ OpenAPPE(s)
  BY NewFileIsOpened
<1>2. op'[s] = Idle
  BY <1>1 DEF TypeOK, OpenSTOR, OpenSTOU, OpenAPPE, Open, OpenNew,
      OpenExisting, Fails, Done
<1>3. op[s].command # "none"
  BY <1>1 DEF OpenSTOR, OpenSTOU, OpenAPPE
<1>4. Moves(s)
  BY <1>2, <1>3, Zenon, IdleIsNone DEF Moves
<1> QED BY <1>1, <1>4 DEF Knows, OpenSTOR, OpenSTOU, OpenAPPE

\* No file is made without the permission to write.
THEOREM NewFilesPermitted == Spec => NewFileNeedsWrite
<1>1. IInv /\ [Next]_vars =>
        [\A i \in Inodes :
            kind[i] = "free" /\ kind'[i] = "file"
              => \E s \in Sessions :
                    /\ Moves(s)
                    /\ \/ May(s, "FileWrite")
                       \/ op[s].command = "APPE" /\ op[s].saw # NoFile]_vars
  BY NewFileStep
<1> QED BY <1>1, Invariance, PTL DEF Spec, NewFileNeedsWrite

-----------------------------------------------------------------------------
(* Undisturbed, the commands implement the abstract store. *)

LEMMA OpenPermitted ==
  ASSUME IInv, NEW s \in Sessions, OpenSTOR(s) \/ OpenSTOU(s) \/ OpenAPPE(s)
  PROVE  \/ UNCHANGED Store!store
         \/ Store!Change(s)
         \/ Moves(s) /\ Disturbed(s)
<1> USE DEF IInv
<1> DEFINE path == op[s].path
<1>1. Knows(s) /\ path \in Paths /\ path # NoPath
  BY NoneOutside DEF Knows, OpenSTOR, OpenSTOU, OpenAPPE
<1>2. PICK append \in BOOLEAN :
         /\ Open(s, append)
         /\ append <=> op[s].command = "APPE" /\ op[s].saw # NoFile
  BY DEF OpenSTOR, OpenSTOU, OpenAPPE
<1>3. CASE Fails(s)
  BY <1>3 DEF Fails, Done, Store!store
<1>4. ASSUME ~Fails(s) PROVE op'[s] = Idle /\ permissions' = permissions
  BY <1>2 DEF TypeOK, Open, OpenNew, OpenExisting, Fails, Done
<1>5. ASSUME ~Fails(s), entry[path] # op[s].saw PROVE Moves(s) /\ Disturbed(s)
  BY <1>1, <1>4, <1>5 DEF Moves, Disturbed, Idle, OpenSTOR, OpenSTOU, OpenAPPE
<1>6. CASE OpenNew(s, path) /\ entry[path] = op[s].saw
  <2>1. May(s, "FileWrite")
    BY <1>1, <1>6 DEF OpenNew, Knows, OpenSTOR, OpenSTOU, OpenAPPE
  <2>2. \E i \in Inodes : Store!Create(s, path, i)
    BY <1>6, <2>1 DEF OpenNew, Store!Create, Store!Made, Store!Receiving,
                      Store!May, May
  <2> QED BY <1>1, <1>6, <2>2 DEF Store!Change, OpenNew, Done
<1>7. CASE OpenExisting(s, path, append) /\ entry[path] = op[s].saw
  <2>1. Store!At(path, "file") /\ op[s].saw # NoFile
    BY <1>7 DEF OpenExisting, IsFile, Store!At
  <2>2. CASE append
    <3>1. May(s, "FileAppend")
      BY <1>1, <1>2, <2>2 DEF Knows
    <3>2. Store!Extend(s, path)
      BY <1>7, <2>1, <2>2, <3>1 DEF OpenExisting, Store!Extend,
            Store!Receiving, Store!May, May
    <3> QED BY <1>1, <1>7, <3>2 DEF Store!Change, OpenExisting, Done
  <2>3. CASE ~append
    <3>1. May(s, "FileWrite") /\ May(s, "FileDelete")
      BY <1>1, <1>2, <2>1, <2>3 DEF Knows, OpenSTOR, OpenSTOU, OpenAPPE
    <3>2. Store!Overwrite(s, path)
      BY <1>7, <2>1, <2>3, <3>1 DEF OpenExisting, Store!Overwrite,
            Store!Receiving, Store!May, May
    <3> QED BY <1>1, <1>7, <3>2 DEF Store!Change, OpenExisting, Done
  <2> QED BY <2>2, <2>3
<1> QED BY <1>2, <1>3, <1>5, <1>6, <1>7 DEF Open

LEMMA UnlinkPermitted ==
  ASSUME IInv, NEW s \in Sessions, Unlink(s)
  PROVE  UNCHANGED Store!store \/ Store!Change(s)
<1> DEFINE path == op[s].path
<1>1. path \in Paths /\ May(s, "FileDelete")
  BY DEF IInv, Knows, Unlink
<1>2. CASE Fails(s)
  BY <1>2 DEF Fails, Done, Store!store
<1>3. CASE /\ IsFile(entry[path])
           /\ entry' = [entry EXCEPT ![path] = NoFile]
           /\ Done(s) /\ UNCHANGED <<kind, filled, uploads>>
  <2>1. Store!Delete(s, path)
    BY <1>1, <1>3 DEF Store!Delete, Store!At, Store!May, May, IsFile
  <2> QED BY <1>1, <1>3, <2>1 DEF Store!Change, Done
<1> QED BY <1>2, <1>3 DEF Unlink

LEMMA RenamePermitted ==
  ASSUME IInv, NEW s \in Sessions, RenameCall(s)
  PROVE  \/ UNCHANGED Store!store
         \/ Store!Change(s)
         \/ Moves(s) /\ Disturbed(s)
<1> DEFINE from == op[s].path
           to   == op[s].to
<1>1. /\ from \in Paths /\ from # NoPath /\ to \in Paths /\ to # NoPath
      /\ Knows(s) /\ TypeOK
  BY NoneOutside DEF IInv, Knows, RenameCall
<1>2. CASE Fails(s)
  BY <1>2 DEF Fails, Done, Store!store
<1>3. CASE /\ entry' = [entry EXCEPT ![from] = NoFile, ![to] = entry[from]]
           /\ Done(s) /\ UNCHANGED <<kind, filled, uploads>>
  <2>1. CASE entry[from] = op[s].saw /\ entry[to] = op[s].saw_to
    <3>1. entry[to] = NoFile /\ entry[from] # NoFile
          /\ May(s, IF IsFile(entry[from]) THEN "FileRename" ELSE "DirRename")
      BY <1>1, <2>1 DEF Knows, RenameCall
    <3>2. \/ Store!At(from, "file") /\ Store!May(s, "FileRename")
          \/ Store!At(from, "dir") /\ Store!May(s, "DirRename")
      <4>1. kind[entry[from]] \in {"file", "dir"}
        BY <1>1, <3>1 DEF TypeOK
      <4> QED BY <3>1, <4>1 DEF Store!At, Store!May, May, IsFile
    <3>3. Store!Rename(s, from, to)
      BY <1>3, <3>1, <3>2 DEF Store!Rename
    <3> QED BY <1>1, <1>3, <3>3 DEF Store!Change, Done
  <2>2. CASE ~(entry[from] = op[s].saw /\ entry[to] = op[s].saw_to)
    <3>1. op'[s] = Idle
      BY <1>1, <1>3 DEF Done, TypeOK
    <3> QED BY <1>1, <2>2, <3>1 DEF Moves, Disturbed, Idle, RenameCall
  <2> QED BY <2>1, <2>2
<1> QED BY <1>2, <1>3 DEF RenameCall

\* The commands of one system call, and the data of uploads.
LEMMA OneCallPermitted ==
  ASSUME IInv, NEW s \in Sessions,
         \/ \E path \in Paths : MKD(s, path) \/ RMD(s, path)
         \/ \E i \in Inodes : WriteData(s, i) \/ EndDataReceiving(s, i)
  PROVE  Store!Change(s)
<1>1. ASSUME NEW path \in Paths, MKD(s, path) PROVE Store!Change(s)
  <2>1. \E i \in Inodes : Store!CreateDirectory(s, path, i)
    BY <1>1 DEF MKD, Store!CreateDirectory, Store!Made, Store!May, May
  <2> QED BY <1>1, <2>1 DEF Store!Change, MKD
<1>2. ASSUME NEW path \in Paths, RMD(s, path) PROVE Store!Change(s)
  <2>1. kind[entry[path]] = "dir"
    BY <1>2 DEF RMD, IInv, TypeOK, IsFile
  <2>2. Store!Delete(s, path)
    BY <1>2, <2>1 DEF RMD, Store!Delete, Store!At, Store!May, May
  <2> QED BY <1>2, <2>2 DEF Store!Change, RMD
<1>3. ASSUME NEW i \in Inodes, WriteData(s, i) PROVE Store!Change(s)
  <2>1. Store!Receive(s, i)
    BY <1>3 DEF WriteData, Store!Receive
  <2> QED BY <1>3, <2>1 DEF Store!Change, WriteData
<1>4. ASSUME NEW i \in Inodes, EndDataReceiving(s, i) PROVE Store!Change(s)
  <2>1. Store!Finish(s, i)
    BY <1>4 DEF EndDataReceiving, Store!Finish
  <2> QED BY <1>4, <2>1 DEF Store!Change, EndDataReceiving
<1> QED BY <1>1, <1>2, <1>3, <1>4

LEMMA PermittedStep ==
  ASSUME IInv, [Next]_vars
  PROVE  [\E s \in Sessions : Store!Change(s) \/ (Moves(s) /\ Disturbed(s))]_(Store!store)
<1>1. CASE UNCHANGED vars
  BY <1>1 DEF vars, Store!store
<1>2. ASSUME NEW s \in Sessions, NEW path \in Paths,
             \/ STOR(s, path) \/ STOU(s, path) \/ APPE(s, path)
             \/ DELE(s, path) \/ RNTO(s, path) \/ CheckTarget(s, path)
      PROVE  UNCHANGED Store!store
  BY <1>2 DEF STOR, STOU, APPE, DELE, RNTO, CheckTarget, Checked, Store!store
<1>3. CASE Next
  <2>1. PICK s \in Sessions : \/ Upload(s) \/ Removal(s) \/ Renaming(s)
                              \/ \E path \in Paths : MKD(s, path)
    BY <1>3 DEF Next
  <2>2. \/ UNCHANGED Store!store
        \/ Store!Change(s)
        \/ Moves(s) /\ Disturbed(s)
    BY <1>2, <2>1, OpenPermitted, UnlinkPermitted, RenamePermitted,
       OneCallPermitted DEF Upload, Removal, Renaming
  <2> QED BY <2>2
<1> QED BY <1>1, <1>3

\* Undisturbed commands do, in one step, what the permissions promise.
THEOREM UndisturbedPermitted == Spec => Permitted
<1>1. IInv /\ [Next]_vars =>
        [\E s \in Sessions : Store!Change(s) \/ (Moves(s) /\ Disturbed(s))]_(Store!store)
  BY PermittedStep
<1> QED BY <1>1, Invariance, PTL DEF Spec, Permitted
=============================================================================
