------------------------------ MODULE Objects ------------------------------
(***************************************************************************)
(* API objects as the storage layer handles them, and the pure functions   *)
(* that an update runs on them: UpdatedObject, PrepareForUpdate of the two *)
(* strategies, BeforeUpdate and the metadata validation.                   *)
(*                                                                         *)
(* An object keeps what the storage layer tells apart: its UID, its spec   *)
(* (everything a main-resource update may change, labels included), its    *)
(* status, its finalizers and whether its deletion timestamp is set.  The  *)
(* resourceVersion is kept beside the object, as MemoryFS stores it beside *)
(* the serialised bytes.                                                   *)
(***************************************************************************)
EXTENDS Naturals

CONSTANTS
  Keys,         \* file names, one per object name (and namespace)
  Specs,        \* values of the fields a main-resource update may change
  Statuses,     \* values of the status
  Finalizers,   \* names of finalizers
  ErrNotExist   \* what a read of a missing file returns

(* A UID of zero stands for the empty UID of an object sent by a client. *)
NoUID == 0

(* A resourceVersion of zero stands for the empty string. *)
NoVersion == 0

Object == [uid : Nat, spec : Specs, status : Statuses,
           finalizers : SUBSET Finalizers, deleting : BOOLEAN]

(* What a client writes in the body of a request. *)
Draft == [spec : Specs, status : Statuses, finalizers : SUBSET Finalizers]

(* An object with its resourceVersion: a file of MemoryFS, or the decoded
   copy of it that a handler holds. *)
versionedData == [version : Nat, data : Object]

ASSUME ErrNotExistAssumption == ErrNotExist \notin versionedData

(* A file of the store: its contents, or nothing. *)
File == versionedData \cup {ErrNotExist}

getResourceVersion(obj) == IF obj = ErrNotExist THEN NoVersion ELSE obj.version

-----------------------------------------------------------------------------
(* Creation: the request handler has wiped the system fields, so that a new
   object is never being deleted, and Create fills in a fresh UID. *)
FillObjectMetaSystemFields(draft, uid) ==
  [uid |-> uid, spec |-> draft.spec, status |-> draft.status,
   finalizers |-> draft.finalizers, deleting |-> FALSE]

-----------------------------------------------------------------------------
(* An update request.  A PUT (put = TRUE) replaces every field and carries
   the resourceVersion its client read.  A PATCH replaces the fields it names
   in the object being updated, whose resourceVersion it keeps unless the
   patch sets one; a server-side apply also asks for the object to be created
   if it is missing (force).  "sub" is the resource the request is sent to:
   the object itself, or its status subresource. *)
Fields == {"spec", "status", "finalizers"}

Subresources == {"main", "status"}

Change == [put : BOOLEAN, force : BOOLEAN, fields : SUBSET Fields, draft : Draft,
           sub : Subresources]

(* The object of a client that has no UID and no deletion timestamp. *)
FromClient(draft) == FillObjectMetaSystemFields(draft, NoUID)

Patched(change, obj) ==
  [obj EXCEPT
     !.spec       = IF "spec" \in change.fields THEN change.draft.spec ELSE @,
     !.status     = IF "status" \in change.fields THEN change.draft.status ELSE @,
     !.finalizers = IF "finalizers" \in change.fields
                    THEN change.draft.finalizers ELSE @]

(* UpdatedObjectInfo.UpdatedObject: the object the request asks for, given the
   stored one. *)
UpdatedObject(change, version, input) ==
  IF change.put \/ input = ErrNotExist
  THEN [version |-> version, data |-> FromClient(change.draft)]
  ELSE [version |-> IF version = NoVersion THEN input.version ELSE version,
        data    |-> Patched(change, input.data)]

(* A faulty variant of DefaultStrategy: the main resource overwrites the status. *)
DefaultPrepareNothing(obj, old) == obj

(* DefaultStrategy.PrepareForUpdate keeps the stored status. *)
DefaultPrepareForUpdate(obj, old) == [obj EXCEPT !.status = old.status]

(* StatusSubResourceStrategy.PrepareForUpdate copies the new status into the
   stored object and takes all the rest from it. *)
StatusPrepareForUpdate(obj, old) == [old EXCEPT !.status = obj.status]

(* The strategy of the resource that the request is sent to. *)
PrepareForUpdate(sub, obj, old) ==
  IF sub = "status"
  THEN StatusPrepareForUpdate(obj, old)
  ELSE DefaultPrepareForUpdate(obj, old)

BeforeUpdate(sub, obj, old) ==
  [PrepareForUpdate(sub, obj, old) EXCEPT
     !.uid      = IF @ = NoUID THEN old.uid ELSE @,
     !.deleting = old.deleting \/ @]

(* A faulty variant: finalizers may be added to an object being deleted. *)
ValidateWithoutFinalizers(new, old) ==
  /\ new.uid = old.uid
  /\ new.deleting = old.deleting

(* The part of the validation that looks at the stored object. *)
ValidateObjectMetaAccessorUpdate(new, old) ==
  /\ old.deleting => new.finalizers \subseteq old.finalizers
  /\ new.uid = old.uid
  /\ new.deleting = old.deleting

(* Two-phase deletion has nothing left to wait for. *)
Drained(obj) == obj.deleting /\ obj.finalizers = {}
=============================================================================
