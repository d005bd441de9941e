------------------------ MODULE ReadableFiles_proofs ------------------------
(***************************************************************************)
(* Proofs about ReadableFiles, for any paths, downloads and uploads and    *)
(* any number of files and objects.                                        *)
(*                                                                         *)
(* An object lives exactly as long as a download refers to it, and an      *)
(* entry of the cache is about an object of its own path that is not gone. *)
(***************************************************************************)
EXTENDS ReadableFiles, TLAPS

\* Objects are made in order, and the live ones are those referred to.
Referred ==
  /\ \A o \in Objects : life[o] # "none" => o <= made
  /\ \A o \in Objects : life[o] = "live" => \E d \in Downloads : holds[d] = o

IInv == TypeOK /\ HeldLives /\ Referred /\ EntriesEnd

\* The actions of a download.
GetStep     == \E d \in Downloads, p \in Paths : GetCached(d, p) \/ GetMapped(d, p)
ReleaseStep == \E d \in Downloads : Release(d)

-----------------------------------------------------------------------------
LEMMA InitInv == Init => IInv
<1> SUFFICES ASSUME Init PROVE IInv
  OBVIOUS
<1>1. TypeOK
  <2>1. 0 \in 0 .. MaxInodes /\ 0 \in 0 .. MaxObjects /\ 0 \in 0 .. MaxLength
    BY FilesAssumption
  <2>2. object \in [1 .. made -> Kept]
    BY DEF Init
  <2>3. holds \in [Downloads -> 0 .. made]
    BY DEF Init
  <2> QED
    BY <2>1, <2>2, <2>3 DEF Init, TypeOK
<1>2. HeldLives /\ Referred /\ EntriesEnd
  BY DEF Init, HeldLives, Referred, EntriesEnd
<1> QED
  BY <1>1, <1>2 DEF IInv

LEMMA StepTypes == IInv /\ [Next]_vars => TypeOK'
<1> SUFFICES ASSUME IInv, [Next]_vars PROVE TypeOK'
  OBVIOUS
<1> USE FilesAssumption DEF IInv, TypeOK, Inodes, Objects
<1>1. CASE OtherCommands
  <2>1. ASSUME NEW u \in Uploads, NEW p \in Paths, OpenExisting(u, p)
        PROVE  TypeOK'
    BY <2>1 DEF OpenExisting, cacheVars
  <2>2. ASSUME NEW u \in Uploads, NEW p \in Paths, OpenNew(u, p)
        PROVE  TypeOK'
    BY <2>2 DEF OpenNew, cacheVars
  <2>3. ASSUME NEW u \in Uploads, WriteFile(u)
        PROVE  TypeOK'
    BY <2>3 DEF WriteFile, cacheVars
  <2>4. ASSUME NEW u \in Uploads, CloseFile(u)
        PROVE  TypeOK'
    BY <2>4 DEF CloseFile, cacheVars
  <2>5. ASSUME NEW p \in Paths, DeleteFile(p)
        PROVE  TypeOK'
    BY <2>5 DEF DeleteFile, cacheVars
  <2>6. ASSUME NEW p \in Paths, NEW q \in Paths, RenameFile(p, q)
        PROVE  TypeOK'
    BY <2>6 DEF RenameFile, cacheVars
  <2> QED
    BY <1>1, <2>1, <2>2, <2>3, <2>4, <2>5, <2>6 DEF OtherCommands
<1>2. ASSUME NEW d \in Downloads, NEW p \in Paths, GetCached(d, p)
      PROVE  TypeOK'
  <2>1. files[p] \in 0 .. made
    BY <1>2 DEF GetCached, Cached, Referred
  <2> QED
    BY <1>2, <2>1 DEF GetCached, diskVars
<1>3. ASSUME NEW d \in Downloads, NEW p \in Paths, GetMapped(d, p)
      PROVE  TypeOK'
  <2>1. made' \in Objects /\ made' = made + 1
    BY <1>3 DEF GetMapped
  <2>2. [path |-> p, inode |-> disk[p], size |-> length[disk[p]]] \in Kept
    BY <1>3 DEF GetMapped, Kept
  <2>3. object' \in [1 .. made' -> Kept]
    BY <1>3, <2>1, <2>2 DEF GetMapped
  <2>4. holds' \in [Downloads -> 0 .. made']
    BY <1>3, <2>1 DEF GetMapped
  <2> QED
    BY <1>3, <2>1, <2>3, <2>4 DEF GetMapped, diskVars
<1>4. CASE ReleaseStep
  BY <1>4 DEF ReleaseStep, Release, diskVars
<1>5. CASE Destructors
  BY <1>5 DEF Destructors, Unmap, Erase, diskVars
<1>6. CASE UNCHANGED vars
  BY <1>6 DEF vars, diskVars, cacheVars
<1> QED
  BY <1>1, <1>2, <1>3, <1>4, <1>5, <1>6 DEF Next, ReleaseStep

-----------------------------------------------------------------------------
(***************************************************************************)
(* Who refers to an object, and which entries are left.                    *)
(***************************************************************************)
LEMMA StepReferences == IInv /\ [Next]_vars => (HeldLives /\ Referred)'
<1> SUFFICES ASSUME IInv, [Next]_vars PROVE (HeldLives /\ Referred)'
  OBVIOUS
<1> USE FilesAssumption DEF IInv, TypeOK, Objects, HeldLives, Referred
<1>1. CASE OtherCommands \/ UNCHANGED vars
  <2>1. UNCHANGED <<made, life, holds>>
    BY <1>1 DEF OtherCommands, OpenExisting, OpenNew, WriteFile, CloseFile,
                DeleteFile, RenameFile, vars, cacheVars
  <2> QED
    BY <2>1
<1>2. ASSUME NEW d \in Downloads, NEW p \in Paths, GetCached(d, p)
      PROVE  (HeldLives /\ Referred)'
  BY <1>2 DEF GetCached, Cached
<1>3. ASSUME NEW d \in Downloads, NEW p \in Paths, GetMapped(d, p)
      PROVE  (HeldLives /\ Referred)'
  BY <1>3 DEF GetMapped
<1>4. ASSUME NEW d \in Downloads, Release(d)
      PROVE  (HeldLives /\ Referred)'
  <2>1. CASE \E e \in Downloads \ {d} : holds[e] = holds[d]
    BY <1>4, <2>1 DEF Release
  <2>2. CASE ~ \E e \in Downloads \ {d} : holds[e] = holds[d]
    BY <1>4, <2>2 DEF Release
  <2> QED
    BY <2>1, <2>2
<1>5. ASSUME NEW o \in Objects, Unmap(o) \/ Erase(o)
      PROVE  (HeldLives /\ Referred)'
  <2>1. /\ life[o] # "live" /\ life[o] # "none" /\ life'[o] # "live"
        /\ \A x \in Objects \ {o} : life'[x] = life[x]
        /\ UNCHANGED <<made, holds>>
    BY <1>5 DEF Unmap, Erase
  <2>2. HeldLives'
    <3>1. \A d \in Downloads : holds[d] # 0 => holds[d] \in Objects \ {o}
      BY <2>1
    <3> QED
      BY <2>1, <3>1
  <2>3. Referred'
    BY <2>1
  <2> QED
    BY <2>2, <2>3
<1> QED
  BY <1>1, <1>2, <1>3, <1>4, <1>5 DEF Next, Destructors

LEMMA StepEntries == IInv /\ [Next]_vars => EntriesEnd'
<1> SUFFICES ASSUME IInv, [Next]_vars PROVE EntriesEnd'
  OBVIOUS
<1> USE FilesAssumption DEF IInv, TypeOK, Objects, EntriesEnd
<1>1. CASE OtherCommands \/ UNCHANGED vars
  <2>1. UNCHANGED <<files, object, life>>
    BY <1>1 DEF OtherCommands, OpenExisting, OpenNew, WriteFile, CloseFile,
                DeleteFile, RenameFile, vars, cacheVars
  <2> QED
    BY <2>1
<1>2. ASSUME NEW d \in Downloads, NEW p \in Paths, GetCached(d, p)
      PROVE  EntriesEnd'
  BY <1>2 DEF GetCached
<1>3. ASSUME NEW d \in Downloads, NEW p \in Paths, GetMapped(d, p)
      PROVE  EntriesEnd'
  <2>1. ASSUME NEW q \in Paths, files[q] # 0
        PROVE  files[q] \in 1 .. made
    <3>1. files[q] \in Objects
      BY <2>1
    <3>2. life[files[q]] # "none"
      BY <2>1
    <3> QED
      BY <3>1, <3>2 DEF Referred
  <2>2. \A q \in Paths \ {p} : files'[q] = files[q]
    BY <1>3 DEF GetMapped
  <2>3. \A o \in 1 .. made : object'[o] = object[o] /\ life'[o] = life[o]
    BY <1>3 DEF GetMapped
  <2>4. files'[p] = made' /\ object'[made'].path = p /\ life'[made'] = "live"
    BY <1>3 DEF GetMapped
  <2>5. ASSUME NEW q \in Paths \ {p}, files[q] # 0
        PROVE  /\ life'[files[q]] \in {"live", "expired", "unmapped"}
               /\ object'[files[q]].path = q
    <3>1. files[q] \in 1 .. made
      BY <2>1, <2>5
    <3> QED
      BY <2>3, <2>5, <3>1
  <2> HIDE DEF TypeOK, Objects
  <2> QED
    BY <2>2, <2>4, <2>5
<1>4. ASSUME NEW d \in Downloads, Release(d)
      PROVE  EntriesEnd'
  <2>1. \A o \in Objects : life'[o] \in {life[o], "expired"}
    BY <1>4 DEF Release
  <2>2. UNCHANGED <<files, object>>
    BY <1>4 DEF Release
  <2> QED
    BY <2>1, <2>2
<1>5. ASSUME NEW o \in Objects, Unmap(o)
      PROVE  EntriesEnd'
  BY <1>5 DEF Unmap
<1>6. ASSUME NEW o \in Objects, Erase(o)
      PROVE  EntriesEnd'
  BY <1>6 DEF Erase
<1> QED
  BY <1>1, <1>2, <1>3, <1>4, <1>5, <1>6 DEF Next, Destructors

LEMMA Invariant == Spec => []IInv
<1>1. IInv /\ [Next]_vars => IInv'
  BY StepTypes, StepReferences, StepEntries DEF IInv
<1> QED
  BY InitInv, <1>1, PTL DEF Spec

-----------------------------------------------------------------------------
(***************************************************************************)
(* The variables keep their types.                                         *)
(***************************************************************************)
THEOREM TypeCorrect == Spec => []TypeOK
BY Invariant, PTL DEF IInv

(***************************************************************************)
(* No download ever refers to an object whose destructor has begun.        *)
(***************************************************************************)
THEOREM NoUseAfterUnmap == Spec => []HeldLives
BY Invariant, PTL DEF IInv

(***************************************************************************)
(* Every entry of the cache is about an object that is alive or has still  *)
(* to erase it.                                                            *)
(***************************************************************************)
THEOREM NoEntryLeft == Spec => []EntriesEnd
BY Invariant, PTL DEF IInv

(***************************************************************************)
(* A download that starts while no other of its path is under way is given *)
(* the file as it is.                                                      *)
(***************************************************************************)
THEOREM AloneIsFresh == Spec => FreshWhenAlone
<1> DEFINE Alone(d) == \A e \in Downloads \ {d} :
                         holds[e] # 0 =>
                           object[holds[e]].path # object'[holds'[d]].path
<1>1. IInv /\ [Next]_vars
        => [\A d \in Downloads : Gets(d) /\ Alone(d) => Current(holds[d])']_vars
  <2> SUFFICES ASSUME IInv, Next, NEW d \in Downloads, Gets(d), Alone(d)
               PROVE  Current(holds[d])'
    BY DEF vars
  <2> USE FilesAssumption DEF IInv, TypeOK, Objects, Gets
  <2>1. PICK e \in Downloads, p \in Paths : GetCached(e, p) \/ GetMapped(e, p)
    BY DEF Next, OtherCommands, OpenExisting, OpenNew, WriteFile, CloseFile,
           DeleteFile, RenameFile, cacheVars, Release, Destructors, Unmap, Erase
  <2>2. e = d
    BY <2>1 DEF GetCached, GetMapped
  <2>3. CASE GetCached(d, p)
    <3>1. holds'[d] = files[p] /\ object' = object /\ object[files[p]].path = p
      BY <2>3 DEF GetCached, Cached, EntriesEnd
    <3>2. PICK f \in Downloads : holds[f] = files[p]
      BY <2>3 DEF GetCached, Cached, Referred
    <3>3. f # d /\ holds[f] # 0
      BY <2>3, <3>2 DEF GetCached, Cached
    <3> QED
      BY <3>1, <3>2, <3>3
  <2>4. CASE GetMapped(d, p)
    BY <2>4 DEF GetMapped, Current, diskVars
  <2> QED
    BY <2>1, <2>2, <2>3, <2>4
<1> QED
  BY Invariant, <1>1, PTL DEF Spec, FreshWhenAlone
=============================================================================
