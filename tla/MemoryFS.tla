------------------------------ MODULE MemoryFS ------------------------------
(***************************************************************************)
(* The in-memory file system: a map from file names to versioned bytes and *)
(* a revision counter, guarded by one mutex.  Every operation takes the    *)
(* mutex once, so that each is a single step for the rest of the system:   *)
(* the operators below are the state functions and the actions those steps *)
(* are built from.  Directories exist as soon as they are named (ensureDir *)
(* creates them on demand), so they hold no state of their own.            *)
(***************************************************************************)
EXTENDS Objects

VARIABLES
  files,   \* the file of each key
  rev      \* the revision counter

fsVars == <<files, rev>>

NewMemoryFS ==
  /\ files = [k \in Keys |-> ErrNotExist]
  /\ rev = 1

Exists(k) == files[k] # ErrNotExist

Read(k) == files[k]

(* Faulty variants of the checks that Write makes: versions are not compared,
   and a missing file is always created. *)
LastOneWins(k, obj, storageVersion) ==
  IF ~Exists(k)
  THEN IF storageVersion # NoVersion THEN "ErrNotExist" ELSE "written"
  ELSE IF files[k].data = obj THEN "unchanged"
  ELSE "written"

ZombieWrite(k, obj, storageVersion) ==
  IF ~Exists(k) THEN "written"
  ELSE IF files[k].version # storageVersion THEN "VersionError"
  ELSE IF files[k].data = obj THEN "unchanged"
  ELSE "written"

(* What Write returns: the write of obj, made by a caller that read version
   storageVersion (0: it expects no file). *)
WriteResult(k, obj, storageVersion) ==
  IF ~Exists(k)
  THEN IF storageVersion # NoVersion THEN "ErrNotExist" ELSE "written"
  ELSE IF files[k].version # storageVersion THEN "VersionError"
  ELSE IF files[k].data = obj THEN "unchanged"
  ELSE "written"

(* A faulty variant: the new version is not handed back to the caller. *)
VersionKept(k, obj, storageVersion) == storageVersion

(* The version the caller's object carries after a successful Write. *)
WriteVersion(k, obj, storageVersion) ==
  IF WriteResult(k, obj, storageVersion) = "written" THEN rev + 1 ELSE storageVersion

Write(k, obj, storageVersion) ==
  IF WriteResult(k, obj, storageVersion) = "written"
  THEN /\ rev' = rev + 1
       /\ files' = [files EXCEPT ![k] = [version |-> rev + 1, data |-> obj]]
  ELSE UNCHANGED fsVars

(* Remove takes no version, and leaves the revision counter alone. *)
Remove(k) ==
  /\ files' = [files EXCEPT ![k] = ErrNotExist]
  /\ UNCHANGED rev

(* The files under a directory, read in one critical section. *)
VisitDir(dir) ==
  {[key |-> k, obj |-> files[k]] : k \in {k \in dir : Exists(k)}}
=============================================================================
