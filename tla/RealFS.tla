------------------------------- MODULE RealFS -------------------------------
(***************************************************************************)
(* The file system on disk: JSON files, each with the resourceVersion it   *)
(* was written with, a revision counter in memory and one mutex.  Write    *)
(* truncates the file and fills it again, under the mutex: a crash or an   *)
(* error of the operating system may come in between, and leaves the file  *)
(* empty or with a part of the object.  VisitDir keeps the mutex while it  *)
(* calls its visitor.  Everything else is one critical section.            *)
(***************************************************************************)
EXTENDS Objects

CONSTANTS
  Requests,     \* the requests, one goroutine each
  Namespaces,   \* the directory of a namespace: the set of its files
  Torn,         \* a file with a part of an object, which no decoder takes
  Zero,         \* the fields of an object that nothing was decoded into
  Nil           \* nobody

VARIABLES
  disk,   \* the file of each key
  dirs,   \* the directories that exist
  rev,    \* the revision counter
  mu      \* who holds the mutex between two steps

fsVars == <<disk, dirs, rev, mu>>

DiskFile == versionedData \cup {ErrNotExist, Torn}

(* An empty file, as decode reads it: it is no JSON, so the codec gives it to its
   YAML decoder, for which it is null and sets no field of the new object. *)
Empty == [version |-> NoVersion, data |-> FromClient(Zero)]

(* A file of which a Write has left nothing, or a part. *)
CutOff(k) == disk[k] \in {Empty, Torn}

(* The counter starts afresh with every server; the disk is as it was left. *)
NewRealFS == rev = 1 /\ mu = Nil

(* The mutex can be taken, for one step or more. *)
Unlocked == mu = Nil

Exists(k) == disk[k] # ErrNotExist

Readable(k) == disk[k] \notin {ErrNotExist, Torn}

Remove(k) ==
  /\ Unlocked
  /\ rev' = rev + 1
  /\ disk' = [disk EXCEPT ![k] = ErrNotExist]
  /\ UNCHANGED <<dirs, mu>>

(* Write fails before it has opened the file, to encode the object or because the
   operating system refuses; or Remove is refused. *)
Refused ==
  /\ Unlocked
  /\ rev' = rev + 1
  /\ UNCHANGED <<disk, dirs, mu>>

EnsureDir(k) == dirs' = dirs \cup {n \in Namespaces : k \in n}

(* A faulty variant: a Write over an existing file makes no new revision. *)
WriteTruncateInPlace(r, k) ==
  /\ Unlocked
  /\ mu' = r
  /\ rev' = IF Exists(k) THEN rev ELSE rev + 1
  /\ disk' = [disk EXCEPT ![k] = Empty]
  /\ UNCHANGED dirs

(* Write compares nothing: the last one wins. *)
WriteTruncate(r, k) ==
  /\ Unlocked
  /\ mu' = r
  /\ rev' = rev + 1
  /\ disk' = [disk EXCEPT ![k] = Empty]
  /\ UNCHANGED dirs

(* The first bytes of the object are in the file. *)
WritePart(r, k) ==
  /\ mu = r
  /\ disk[k] = Empty
  /\ disk' = [disk EXCEPT ![k] = Torn]
  /\ UNCHANGED <<dirs, rev, mu>>

WriteFill(r, k, obj) ==
  /\ mu = r
  /\ mu' = Nil
  /\ disk' = [disk EXCEPT ![k] = [version |-> rev, data |-> obj]]
  /\ UNCHANGED <<dirs, rev>>

(* A faulty variant: Write returns the error without unlocking the mutex. *)
WriteStopLocked(r) ==
  /\ mu = r
  /\ UNCHANGED <<disk, dirs, rev, mu>>

(* WriteFile fails half-way, and leaves the file as it is. *)
WriteStop(r) ==
  /\ mu = r
  /\ mu' = Nil
  /\ UNCHANGED <<disk, dirs, rev>>

(* The walk of VisitDir: it fails if the directory is missing or a file in it
   does not decode. *)
WalkFails(dir) == dir \notin dirs \/ \E k \in dir : disk[k] = Torn
=============================================================================
