---------------------------- MODULE ReadableFiles ----------------------------
(***************************************************************************)
(* The cache of mapped files (unix/file_man.cpp), which the downloads of   *)
(* all sessions share, over a file system that uploads (WriteableFile),    *)
(* DELE and RNTO change meanwhile.                                         *)
(*                                                                         *)
(* get() runs as a whole under `guard`.  The end of an object does not:    *)
(* whoever drops the last reference runs the destructor, which unmaps      *)
(* first and takes `guard` only to erase the object's path from `files`.   *)
(***************************************************************************)
EXTENDS Naturals

CONSTANTS Paths,      \* local paths of files
          Downloads,  \* RETR commands that may run at the same time
          Uploads,    \* STOR, STOU and APPE commands that may
          MaxInodes,  \* bound: files created
          MaxObjects, \* bound: objects created by get
          MaxLength   \* bound: length of a file, in chunks

ASSUME FilesAssumption == /\ MaxInodes \in Nat
                          /\ MaxObjects \in Nat
                          /\ MaxLength \in Nat

Inodes  == 1 .. MaxInodes
Objects == 1 .. MaxObjects

VARIABLES
  disk,    \* the inode at a path (0: no file)
  inodes,  \* how many inodes were created
  length,  \* the length of an inode
  upload,  \* the inode a WriteableFile is open on (0: none)
  files,   \* the weak pointers: an object, dead or alive, or 0
  made,    \* how many objects were made
  object,  \* path_, size_ and the mapped inode of an object
  life,    \* "none", "live", "expired" (no reference), "unmapped", "gone"
  holds    \* the object a download refers to (0: none)

diskVars  == <<disk, inodes, length, upload>>
cacheVars == <<files, made, object, life, holds>>
vars == <<diskVars, cacheVars>>

Kept == [path : Paths, inode : Inodes, size : 0 .. MaxLength]

TypeOK ==
  /\ disk \in [Paths -> Inodes \cup {0}]
  /\ inodes \in 0 .. MaxInodes
  /\ length \in [Inodes -> 0 .. MaxLength]
  /\ upload \in [Uploads -> Inodes \cup {0}]
  /\ files \in [Paths -> Objects \cup {0}]
  /\ made \in 0 .. MaxObjects
  /\ object \in [1 .. made -> Kept]
  /\ life \in [Objects -> {"none", "live", "expired", "unmapped", "gone"}]
  /\ holds \in [Downloads -> 0 .. made]

Init ==
  /\ disk = [p \in Paths |-> 0]
  /\ inodes = 0
  /\ length = [i \in Inodes |-> 0]
  /\ upload = [u \in Uploads |-> 0]
  /\ files = [p \in Paths |-> 0]
  /\ made = 0
  /\ object = [o \in {} |-> 0]
  /\ life = [o \in Objects |-> "none"]
  /\ holds = [d \in Downloads |-> 0]

-----------------------------------------------------------------------------
(***************************************************************************)
(* The file system, as the other commands use it.  An upload opens the     *)
(* file at a path, truncating it unless it appends, or creates it; it then *)
(* writes to that inode, whatever becomes of the path.                     *)
(***************************************************************************)
OpenExisting(u, p) ==
  /\ upload[u] = 0 /\ disk[p] # 0
  /\ upload' = [upload EXCEPT ![u] = disk[p]]
  /\ \E append \in BOOLEAN :
       length' = IF append THEN length ELSE [length EXCEPT ![disk[p]] = 0]
  /\ UNCHANGED <<disk, inodes, cacheVars>>

OpenNew(u, p) ==
  /\ upload[u] = 0 /\ disk[p] = 0
  /\ inodes < MaxInodes
  /\ inodes' = inodes + 1
  /\ disk' = [disk EXCEPT ![p] = inodes']
  /\ upload' = [upload EXCEPT ![u] = inodes']
  /\ UNCHANGED <<length, cacheVars>>

WriteFile(u) ==
  /\ upload[u] # 0
  /\ length[upload[u]] < MaxLength
  /\ length' = [length EXCEPT ![upload[u]] = @ + 1]
  /\ UNCHANGED <<disk, inodes, upload, cacheVars>>

CloseFile(u) ==
  /\ upload[u] # 0
  /\ upload' = [upload EXCEPT ![u] = 0]
  /\ UNCHANGED <<disk, inodes, length, cacheVars>>

DeleteFile(p) ==
  /\ disk[p] # 0
  /\ disk' = [disk EXCEPT ![p] = 0]
  /\ UNCHANGED <<inodes, length, upload, cacheVars>>

\* RNTO.  Its check found the path free, but a file that was made there since
\* is replaced.
RenameFile(p, q) ==
  /\ disk[p] # 0 /\ p # q
  /\ disk' = [disk EXCEPT ![p] = 0, ![q] = disk[p]]
  /\ UNCHANGED <<inodes, length, upload, cacheVars>>

-----------------------------------------------------------------------------
(***************************************************************************)
(* ReadableFile::get for a download of p.  A weak pointer is followed if   *)
(* its object still has a reference; else the file is opened and mapped,   *)
(* which may fail.                                                         *)
(***************************************************************************)
\* Faulty variant: the entry is used without lock().
CachedUnlocked(p) == files[p] # 0

Cached(p) == files[p] # 0 /\ life[files[p]] = "live"

GetCached(d, p) ==
  /\ holds[d] = 0
  /\ Cached(p)
  /\ holds' = [holds EXCEPT ![d] = files[p]]
  /\ UNCHANGED <<diskVars, files, made, object, life>>

\* Faulty variant: the entry is made before the file is opened.
GetMappedEarly(d, p) ==
  /\ holds[d] = 0
  /\ ~Cached(p)
  /\ made < MaxObjects
  /\ made' = made + 1
  /\ object' = [o \in 1 .. made' |->
                  IF o = made' THEN [path |-> p, inode |-> disk[p],
                                     size |-> IF disk[p] = 0 THEN 0
                                              ELSE length[disk[p]]]
                  ELSE object[o]]
  /\ life' = [life EXCEPT ![made'] = "live"]
  /\ files' = [files EXCEPT ![p] = made']
  /\ holds' = [holds EXCEPT ![d] = made']
  /\ UNCHANGED diskVars

GetMapped(d, p) ==
  /\ holds[d] = 0
  /\ ~Cached(p)
  /\ disk[p] # 0
  /\ made < MaxObjects
  /\ made' = made + 1
  /\ object' = [o \in 1 .. made' |->
                  IF o = made' THEN [path |-> p, inode |-> disk[p],
                                     size |-> length[disk[p]]]
                  ELSE object[o]]
  /\ life' = [life EXCEPT ![made'] = "live"]
  /\ files' = [files EXCEPT ![p] = made']
  /\ holds' = [holds EXCEPT ![d] = made']
  /\ UNCHANGED diskVars

\* The download drops its pointer; the last one to do so destroys the object.
Release(d) ==
  /\ holds[d] # 0
  /\ holds' = [holds EXCEPT ![d] = 0]
  /\ life' = IF \E e \in Downloads \ {d} : holds[e] = holds[d]
             THEN life
             ELSE [life EXCEPT ![holds[d]] = "expired"]
  /\ UNCHANGED <<diskVars, files, made, object>>

\* ~ReadableFile: munmap (of an empty file there is no mapping), ...
Unmap(o) ==
  /\ life[o] = "expired"
  /\ life' = [life EXCEPT ![o] = "unmapped"]
  /\ UNCHANGED <<diskVars, files, made, object, holds>>

\* Faulty variant: the entry stays.
EraseNothing(o) ==
  /\ life[o] = "unmapped"
  /\ life' = [life EXCEPT ![o] = "gone"]
  /\ UNCHANGED <<diskVars, files, made, object, holds>>

\* ... then, under guard, the entry of its path, whosever it is.
Erase(o) ==
  /\ life[o] = "unmapped"
  /\ life' = [life EXCEPT ![o] = "gone"]
  /\ files' = [files EXCEPT ![object[o].path] = 0]
  /\ UNCHANGED <<diskVars, made, object, holds>>

OtherCommands ==
  \/ \E u \in Uploads, p \in Paths : OpenExisting(u, p) \/ OpenNew(u, p)
  \/ \E u \in Uploads : WriteFile(u) \/ CloseFile(u)
  \/ \E p \in Paths : DeleteFile(p)
  \/ \E p, q \in Paths : RenameFile(p, q)

Destructors == \E o \in Objects : Unmap(o) \/ Erase(o)

Next ==
  \/ OtherCommands
  \/ \E d \in Downloads, p \in Paths : GetCached(d, p) \/ GetMapped(d, p)
  \/ \E d \in Downloads : Release(d)
  \/ Destructors

Spec == Init /\ [][Next]_vars

-----------------------------------------------------------------------------
(***************************************************************************)
(* Properties.                                                             *)
(***************************************************************************)

(***************************************************************************)
(* A download never reads a mapping after munmap: whatever is erased,      *)
(* replaced and looked up meanwhile, the object a download refers to has   *)
(* not begun to be destroyed.                                              *)
(***************************************************************************)
HeldLives == \A d \in Downloads : holds[d] # 0 => life[holds[d]] = "live"

(***************************************************************************)
(* The cache keeps no entry for ever: one whose object has no reference is *)
(* still to be erased by that object's destructor, although destructors    *)
(* erase the entries of other objects too.                                 *)
(***************************************************************************)
EntriesEnd ==
  \A p \in Paths : files[p] # 0 =>
    /\ life[files[p]] \in {"live", "expired", "unmapped"}
    /\ object[files[p]].path = p

\* The object is the file that is at the path, in its full length.
Current(o) ==
  /\ object[o].inode = disk[object[o].path]
  /\ object[o].size = length[object[o].inode]

Gets(d) == holds[d] = 0 /\ holds'[d] # 0

(***************************************************************************)
(* A download that starts while no other download of its path is under way *)
(* is given the file as it is: nothing older is left in the cache.         *)
(***************************************************************************)
FreshWhenAlone ==
  [][\A d \in Downloads :
       (Gets(d) /\ \A e \in Downloads \ {d} :
          holds[e] # 0 => object[holds[e]].path # object'[holds'[d]].path)
       => Current(holds[d])']_vars

(***************************************************************************)
(* get "Retrieves the file at the specified path." (unix/file_man.h:29):   *)
(* the one there is, while no upload is changing it.                       *)
(***************************************************************************)
Fresh ==
  [][\A d \in Downloads :
       Gets(d) /\ (\A u \in Uploads : upload[u] = 0) => Current(holds[d])']_vars
==============================================================================
