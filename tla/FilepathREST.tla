---------------------------- MODULE FilepathREST ----------------------------
(***************************************************************************)
(* The REST handlers of filepathREST over MemoryFS.  Each request runs in  *)
(* a goroutine of its own.  A step of a request is one critical section of *)
(* the file system together with the local computation around it, so that  *)
(* requests interleave exactly where the code releases the mutex.  The     *)
(* last step of a successful write is the call of notifyWatchers.          *)
(*                                                                         *)
(* Main resource and status subresource are two filepathREST values that   *)
(* share the file system; the "sub" of a change says which one is called.  *)
(***************************************************************************)
EXTENDS MemoryFS

CONSTANTS
  Requests,      \* the requests, one goroutine each
  Drafts,        \* bodies of Create requests
  Changes,       \* contents of Update requests
  Dirs,          \* directories that DeleteCollection is called on
  Selectors,     \* label selectors: the set of specs that each one matches
  maxAttempts,   \* attempts of guaranteedUpdate
  Nil            \* a local variable that is not set

ASSUME RESTAssumption ==
  /\ Drafts \subseteq Draft
  /\ Changes \subseteq Change
  /\ Dirs \subseteq SUBSET Keys
  /\ Selectors \subseteq SUBSET Specs
  /\ maxAttempts \in Nat \ {0}
  /\ Nil \notin versionedData

VARIABLES
  uids,      \* the last UID given out
  pc,        \* where each request is; its reply when it has been answered
  arg,       \* arguments of a Create, Update or Delete
  out,       \* the object a request is about to write, remove or announce
  tries,     \* failed attempts of guaranteedUpdate
  todo,      \* the files DeleteCollection has yet to visit
  events,    \* every event passed to notifyWatchers
  history,   \* history variable: the writes MemoryFS accepted
  removals,  \* history variable: the files that were removed
  reported,  \* the items returned by DeleteCollection
  born       \* history variable: the revision when a request started

reqVars == <<pc, arg, out, tries, todo>>
ghosts == <<history, removals>>
vars == <<files, rev, uids, reqVars, events, ghosts, reported, born>>

(* The arguments of a request, and the version an Update names. *)
Arg == [key : Keys, change : Change \cup {Nil}, version : Nat]

Added == "Added"
Modified == "Modified"
Deleted == "Deleted"

EventTypes == {Added, Modified, Deleted}

Replies == {"ok", "NotFound", "AlreadyExists", "Conflict", "Invalid", "ErrNotExist",
            "NotObject", "InternalError", "ContextErr"}

PCs == {"idle", "createWrite", "updateTry", "updateWrite", "updateRemove",
        "deleteWrite", "deleteRemove", "visit"} \cup EventTypes \cup Replies

Init ==
  /\ NewMemoryFS
  /\ uids = NoUID
  /\ pc = [r \in Requests |-> "idle"]
  /\ arg = [r \in Requests |-> Nil]
  /\ out = [r \in Requests |-> Nil]
  /\ tries = [r \in Requests |-> 0]
  /\ todo = [r \in Requests |-> {}]
  /\ events = {}
  /\ history = {}
  /\ removals = {}
  /\ reported = {}
  /\ born = [r \in Requests |-> 0]

-----------------------------------------------------------------------------
(* How a request moves on. *)

(* It answers, and its local variables are gone. *)
Return(r, reply) ==
  /\ pc' = [pc EXCEPT ![r] = reply]
  /\ arg' = [arg EXCEPT ![r] = Nil]
  /\ out' = [out EXCEPT ![r] = Nil]
  /\ tries' = [tries EXCEPT ![r] = 0]
  /\ todo' = [todo EXCEPT ![r] = {}]

(* It goes on at label with arguments a and object o, after n failed attempts. *)
Goto(r, label, a, o, n) ==
  /\ pc' = [pc EXCEPT ![r] = label]
  /\ arg' = [arg EXCEPT ![r] = a]
  /\ out' = [out EXCEPT ![r] = o]
  /\ tries' = [tries EXCEPT ![r] = n]
  /\ UNCHANGED todo

Start(r) ==
  /\ pc[r] = "idle"
  /\ born' = [born EXCEPT ![r] = rev]

(* fs.Write of the object in hand.  An accepted write is recorded, with the
   version it replaced, the version its client named and what issued it. *)
OutResult(r) == WriteResult(arg[r].key, out[r].data, out[r].version)

Accepted(r) == OutResult(r) \in {"written", "unchanged"}

WriteOut(r, via) ==
  LET k == arg[r].key
      o == out[r]
  IN  /\ Write(k, o.data, o.version)
      /\ history' = IF OutResult(r) = "written"
                    THEN history \cup
                           {[key |-> k, base |-> o.version, version |-> rev + 1,
                             data |-> o.data, sent |-> arg[r].version, via |-> via]}
                    ELSE history
      /\ UNCHANGED <<uids, events, removals, reported, born>>

(* After an accepted write the object in hand carries its new version. *)
Proceed(r, label) ==
  LET o == out[r]
  IN  Goto(r, label, arg[r],
           [version |-> WriteVersion(arg[r].key, o.data, o.version), data |-> o.data],
           tries[r])

(* fs.Remove of a file that exists, recorded with the object that the caller
   takes it to be. *)
RemoveFile(k, claimed, via) ==
  /\ Remove(k)
  /\ removals' = removals \cup
                    {[key |-> k, obj |-> files[k], claimed |-> claimed, via |-> via]}

(* fs.Remove of the object in hand, by Update or Delete: it is announced as
   deleted, unless the file was already gone. *)
RemoveOut(r, via) ==
  LET k == arg[r].key
  IN  /\ \/ /\ Exists(k)
            /\ RemoveFile(k, out[r], via)
            /\ Goto(r, Deleted, arg[r], out[r], tries[r])
         \/ /\ ~Exists(k)
            /\ Return(r, "NotFound")
            /\ UNCHANGED <<fsVars, removals>>
      /\ UNCHANGED <<uids, events, history, reported, born>>

-----------------------------------------------------------------------------
(* Create. *)

(* Up to the check that the file does not exist. *)
Create(r, k, draft) ==
  /\ Start(r)
  /\ uids' = uids + 1
  /\ \/ /\ Exists(k)
        /\ Return(r, "AlreadyExists")
     \/ /\ ~Exists(k)
        /\ Goto(r, "createWrite", [key |-> k, change |-> Nil, version |-> NoVersion],
                [version |-> NoVersion,
                 data |-> FillObjectMetaSystemFields(draft, uids + 1)], 0)
  /\ UNCHANGED <<fsVars, events, ghosts, reported>>

CreateWrite(r) ==
  /\ pc[r] = "createWrite"
  /\ WriteOut(r, "create")
  /\ \/ Accepted(r) /\ Proceed(r, Added)
     \/ OutResult(r) = "VersionError" /\ Return(r, "Conflict")

-----------------------------------------------------------------------------
(* Update: the loop of guaranteedUpdate around the closure of Update. *)

(* One attempt up to its Write: Get, then the closure on what it returned. *)
TryUpdate(r, a, n) ==
  LET input  == Read(a.key)
      asked  == UpdatedObject(a.change, a.version, input)
      output == BeforeUpdate(a.change.sub, asked.data, input.data)
  IN  \/ /\ input = ErrNotExist
         /\ ~a.change.force
         /\ Return(r, "NotFound")
      \/ /\ input # ErrNotExist \/ a.change.force
         /\ asked.version # getResourceVersion(input)
         /\ Return(r, "Conflict")
      \/ /\ input = ErrNotExist
         /\ a.change.force
         /\ asked.version = getResourceVersion(input)
         \* BeforeUpdate fails on the metadata of a nil object
         /\ Return(r, "NotObject")
      \/ /\ input # ErrNotExist
         /\ asked.version = getResourceVersion(input)
         /\ ~ValidateObjectMetaAccessorUpdate(output, input.data)
         /\ Return(r, "Invalid")
      \/ /\ input # ErrNotExist
         /\ asked.version = getResourceVersion(input)
         /\ ValidateObjectMetaAccessorUpdate(output, input.data)
         /\ Goto(r, "updateWrite", a, [version |-> input.version, data |-> output], n)

Update(r, k, change, version) ==
  /\ Start(r)
  /\ TryUpdate(r, [key |-> k, change |-> change, version |-> version], 0)
  /\ UNCHANGED <<fsVars, uids, events, ghosts, reported>>

UpdateRetry(r) ==
  /\ pc[r] = "updateTry"
  /\ TryUpdate(r, arg[r], tries[r])
  /\ UNCHANGED <<fsVars, uids, events, ghosts, reported, born>>

(* isDelete: the final update of a two-phase delete goes on to remove the
   object, any other is announced.  The faulty variants forget the removal, and
   do not wait for the last finalizer. *)
AfterUpdateAlways(r) == Modified

AfterUpdateEager(r) == IF out[r].data.deleting THEN "updateRemove" ELSE Modified

AfterUpdate(r) == IF Drained(out[r].data) THEN "updateRemove" ELSE Modified

(* The loop has an attempt left; the faulty variant stops one short. *)
OneAttemptShort(r) == tries[r] + 2 < maxAttempts

AttemptLeft(r) == tries[r] + 1 < maxAttempts

UpdateWrite(r) ==
  /\ pc[r] = "updateWrite"
  /\ WriteOut(r, arg[r].change.sub)
  /\ \/ Accepted(r) /\ Proceed(r, AfterUpdate(r))
     \/ OutResult(r) = "ErrNotExist" /\ Return(r, "NotFound")
     \/ /\ OutResult(r) = "VersionError"
        /\ \/ AttemptLeft(r) /\ Goto(r, "updateTry", arg[r], Nil, tries[r] + 1)
           \/ ~AttemptLeft(r) /\ Return(r, "InternalError")

UpdateRemove(r) ==
  /\ pc[r] = "updateRemove"
  /\ RemoveOut(r, "update")

-----------------------------------------------------------------------------
(* Delete: Get, then either the deletion timestamp is written (finalizers are
   left) or the file is removed. *)
Delete(r, k) ==
  LET oldObj == Read(k)
      a == [key |-> k, change |-> Nil, version |-> NoVersion]
  IN  /\ Start(r)
      /\ \/ /\ oldObj = ErrNotExist
            /\ Return(r, "NotFound")
         \/ /\ oldObj # ErrNotExist
            /\ oldObj.data.finalizers # {}
            /\ Goto(r, "deleteWrite", a, [oldObj EXCEPT !.data.deleting = TRUE], 0)
         \/ /\ oldObj # ErrNotExist
            /\ oldObj.data.finalizers = {}
            /\ Goto(r, "deleteRemove", a, oldObj, 0)
      /\ UNCHANGED <<fsVars, uids, events, ghosts, reported>>

(* A faulty variant: the deletion timestamp is written and nobody is told. *)
DeleteWriteSilent(r) ==
  /\ pc[r] = "deleteWrite"
  /\ WriteOut(r, "delete")
  /\ \/ Accepted(r) /\ Return(r, "ok")
     \/ OutResult(r) = "VersionError" /\ Return(r, "Conflict")
     \/ OutResult(r) = "ErrNotExist" /\ Return(r, "ErrNotExist")

DeleteWrite(r) ==
  /\ pc[r] = "deleteWrite"
  /\ WriteOut(r, "delete")
  /\ \/ Accepted(r) /\ Proceed(r, Modified)
     \/ OutResult(r) = "VersionError" /\ Return(r, "Conflict")
     \/ OutResult(r) = "ErrNotExist" /\ Return(r, "ErrNotExist")

DeleteRemove(r) ==
  /\ pc[r] = "deleteRemove"
  /\ RemoveOut(r, "delete")

-----------------------------------------------------------------------------
(* DeleteCollection: VisitDir takes its snapshot, then visits the files that
   match one by one without the mutex.  The result of Remove is dropped, the
   file is listed in the reply either way and no event is sent. *)
DeleteCollection(r, dir, selector) ==
  /\ Start(r)
  /\ pc' = [pc EXCEPT ![r] = "visit"]
  /\ todo' = [todo EXCEPT ![r] = {i \in VisitDir(dir) : i.obj.data.spec \in selector}]
  /\ UNCHANGED <<fsVars, uids, arg, out, tries, events, ghosts, reported>>

(* A faulty variant: a file that has changed since is left, but listed. *)
VisitUnchanged(r) ==
  /\ pc[r] = "visit"
  /\ \E i \in todo[r] :
       /\ \/ files[i.key] = i.obj /\ RemoveFile(i.key, i.obj, "collection")
          \/ files[i.key] # i.obj /\ UNCHANGED <<fsVars, removals>>
       /\ todo' = [todo EXCEPT ![r] = @ \ {i}]
       /\ reported' = reported \cup {i}
  /\ UNCHANGED <<uids, pc, arg, out, tries, events, history, born>>

Visit(r) ==
  /\ pc[r] = "visit"
  /\ \E i \in todo[r] :
       /\ \/ Exists(i.key) /\ RemoveFile(i.key, i.obj, "collection")
          \/ ~Exists(i.key) /\ UNCHANGED <<fsVars, removals>>
       /\ todo' = [todo EXCEPT ![r] = @ \ {i}]
       /\ reported' = reported \cup {i}
  /\ UNCHANGED <<uids, pc, arg, out, tries, events, history, born>>

VisitDone(r) ==
  /\ pc[r] = "visit"
  /\ todo[r] = {}
  /\ Return(r, "ok")
  /\ UNCHANGED <<fsVars, uids, events, ghosts, reported, born>>

-----------------------------------------------------------------------------
(* notifyWatchers, the last step of every write but DeleteCollection's. *)
Notify(r) ==
  /\ pc[r] \in EventTypes
  /\ events' = events \cup {[type |-> pc[r], key |-> arg[r].key, obj |-> out[r]]}
  /\ Return(r, "ok")
  /\ UNCHANGED <<fsVars, uids, ghosts, reported, born>>

(* A request is turned down before it changes anything: by the strategy's
   validation or an admission plugin, or because its context is done when an
   attempt of guaranteedUpdate begins. *)
Refuse(r) ==
  /\ pc[r] \in {"idle", "updateTry"}
  /\ \E reply \in {"Invalid", "ContextErr"} : Return(r, reply)
  /\ UNCHANGED <<fsVars, uids, events, ghosts, reported, born>>

(* Every request has been answered: the server waits for more. *)
Answered ==
  /\ \A r \in Requests : pc[r] \in Replies
  /\ UNCHANGED vars

RequestStep(r) ==
  \/ \E k \in Keys, d \in Drafts : Create(r, k, d)
  \/ CreateWrite(r)
  \/ \E k \in Keys, c \in Changes, v \in 0..rev : Update(r, k, c, v)
  \/ UpdateRetry(r)
  \/ UpdateWrite(r)
  \/ UpdateRemove(r)
  \/ \E k \in Keys : Delete(r, k)
  \/ DeleteWrite(r)
  \/ DeleteRemove(r)
  \/ \E dir \in Dirs, sel \in Selectors : DeleteCollection(r, dir, sel)
  \/ Visit(r)
  \/ VisitDone(r)
  \/ Notify(r)
  \/ Refuse(r)

Next == (\E r \in Requests : RequestStep(r)) \/ Answered

Spec == Init /\ [][Next]_vars

-----------------------------------------------------------------------------
(* Types. *)

WriteRecord == [key : Keys, base : Nat, version : Nat, data : Object, sent : Nat,
                via : {"create", "delete"} \cup Subresources]

Item == [key : Keys, obj : versionedData]

Removal == [key : Keys, obj : versionedData, claimed : versionedData,
            via : {"update", "delete", "collection"}]

Event == [type : EventTypes, key : Keys, obj : versionedData]

(* Every variable has its type. *)
TypeOK ==
  /\ files \in [Keys -> File]
  /\ rev \in Nat
  /\ uids \in Nat
  /\ pc \in [Requests -> PCs]
  /\ arg \in [Requests -> Arg \cup {Nil}]
  /\ out \in [Requests -> versionedData \cup {Nil}]
  /\ tries \in [Requests -> Nat]
  /\ todo \in [Requests -> SUBSET Item]
  /\ events \subseteq Event
  /\ history \subseteq WriteRecord
  /\ removals \subseteq Removal
  /\ reported \subseteq Item
  /\ born \in [Requests -> Nat]

-----------------------------------------------------------------------------
(* Safety. *)

(* Only one update per input resourceVersion is ever accepted by the server:
   two accepted writes never replace the same version, and an update that
   names the version it was computed from replaces exactly that version.
   This is what MemoryFS.Write's comparison of versions and the comparison
   with the request's version in Update are for. *)
OneUpdatePerVersion ==
  /\ \A v, w \in history : v.base = w.base /\ v.base # NoVersion => v = w
  /\ \A w \in history : w.sent # NoVersion => w.sent = w.base

(* The state a version names: there are never two different objects with the
   same resourceVersion, whether in the store, in an event, or in the list of
   accepted writes.  Write hands the new version back to its caller before the
   caller announces the object. *)
Names(k, o, w) == w.key = k /\ w.version = o.version /\ w.data = o.data

VersionNamesState ==
  /\ \A v, w \in history : v.version = w.version => v = w
  /\ \A k \in Keys : Exists(k) => \E w \in history : Names(k, files[k], w)
  /\ \A e \in events : \E w \in history : Names(e.key, e.obj, w)

(* No zombie update: an object that has been removed never comes back, even if
   an update read it before the removal and writes it afterwards. *)
Removed(uid) == \E m \in removals : m.obj.data.uid = uid

NoZombie == \A k \in Keys : Exists(k) => ~Removed(files[k].data.uid)

(* A Create that was accepted is not overwritten by another Create that passed
   the Exists check too: its object is in the store until it is removed. *)
CreatedObjectsSurvive ==
  \A w \in history : w.via = "create" =>
    \/ Exists(w.key) /\ files[w.key].data.uid = w.data.uid
    \/ Removed(w.data.uid)

(* An update of the main resource leaves the status as it was in the version
   it replaces, an update of the status subresource leaves all the rest, and
   Delete changes neither: the two filepathREST values that share a file do
   not undo each other's writes, however they interleave. *)
SubresourceIsolation ==
  \A w \in history : w.via # "create" =>
    \E b \in history :
      /\ b.version = w.base
      /\ b.key = w.key
      /\ w.via # "status" => w.data.status = b.data.status
      /\ w.via # "main" => w.data.spec = b.data.spec /\ w.data.finalizers = b.data.finalizers

(* Deletion timestamps cannot be unset: a write never clears the timestamp of
   the version it replaces, it adds no finalizer to an object that has one, and
   it keeps the object's UID. *)
DeletionIsFinal ==
  \A w, b \in history : b.version = w.base =>
    /\ w.data.uid = b.data.uid
    /\ b.data.deleting => w.data.deleting /\ w.data.finalizers \subseteq b.data.finalizers

(* The object is finally deleted once no more finalizers remain: an object
   that is being deleted and has no finalizer is never left behind, some
   update is on its way to remove it. *)
DrainedIsBeingRemoved ==
  \A k \in Keys : Exists(k) /\ Drained(files[k].data) =>
    \E r \in Requests : pc[r] = "updateRemove" /\ arg[r].key = k

(* No write is silent: the state of every object in the store has been passed
   to notifyWatchers as Added or Modified, or the request that wrote it is
   about to do so (or to remove the object). *)
LiveStateAnnounced ==
  \A k \in Keys : Exists(k) =>
    \/ \E e \in events : e.type \in {Added, Modified} /\ e.key = k /\ e.obj = files[k]
    \/ \E r \in Requests : /\ pc[r] \in {Added, Modified, "updateRemove"}
                           /\ arg[r].key = k
                           /\ out[r] = files[k]

(* guaranteedUpdate gives up only when others made progress: when it answers
   InternalError, at least maxAttempts writes were accepted since the request
   started. *)
GivesUpOnlyUnderContention ==
  \A r \in Requests : pc[r] = "InternalError" => rev >= born[r] + maxAttempts

-----------------------------------------------------------------------------
(* The inductive invariant behind these properties, in named parts. *)

(* o, written by via, is a legal successor of the object b. *)
Succeeds(via, b, o) ==
  /\ via # "status" => o.status = b.status
  /\ via # "main" => o.spec = b.spec /\ o.finalizers = b.finalizers
  /\ o.uid = b.uid
  /\ b.deleting => o.deleting /\ o.finalizers \subseteq b.finalizers

(* Labels at which a request has an object in hand. *)
Holding == {"createWrite", "updateWrite", "updateRemove", "deleteWrite", "deleteRemove"}
             \cup EventTypes

(* Local variables are set where the code uses them. *)
LocalsSet ==
  \A r \in Requests :
    /\ pc[r] \in Holding \cup {"updateTry"} => arg[r] \in Arg
    /\ pc[r] \in Holding => out[r] \in versionedData
    /\ pc[r] \in {"updateTry", "updateWrite"} => arg[r].change \in Change

(* Versions are given out in increasing order, once each; a UID belongs to one
   key. *)
HistoryOrdered ==
  /\ \A w \in history : w.base < w.version /\ w.version <= rev /\ w.data.uid <= uids
  /\ \A v, w \in history : v.version = w.version => v = w
  /\ \A v, w \in history : v.data.uid = w.data.uid => v.key = w.key

(* Every accepted write but a Create's replaces the version of a legal
   predecessor. *)
HistoryLegal ==
  \A w \in history :
    IF w.via = "create" THEN w.base = NoVersion
    ELSE \E b \in history : /\ b.version = w.base
                            /\ b.key = w.key
                            /\ Succeeds(w.via, b.data, w.data)

(* A file is the last accepted write of its key: nothing has replaced it. *)
FilesCurrent ==
  \A k \in Keys : Exists(k) =>
    /\ \E w \in history : Names(k, files[k], w)
    /\ \A w \in history : w.base # files[k].version

(* A Create holds an object with a UID of its own. *)
CreateFresh ==
  \A r \in Requests : pc[r] = "createWrite" =>
    /\ out[r].version = NoVersion
    /\ arg[r].version = NoVersion
    /\ ~out[r].data.deleting
    /\ out[r].data.uid <= uids
    /\ \A w \in history : w.data.uid # out[r].data.uid
    /\ \A q \in Requests :
         pc[q] = "createWrite" /\ out[q].data.uid = out[r].data.uid => q = r

(* An Update or a Delete holds a legal successor of the version it read. *)
Based(r, via) ==
  \E b \in history : /\ b.key = arg[r].key
                     /\ b.version = out[r].version
                     /\ Succeeds(via, b.data, out[r].data)

WritersBased ==
  \A r \in Requests :
    /\ pc[r] = "updateWrite" =>
         /\ Based(r, arg[r].change.sub)
         /\ arg[r].version # NoVersion => arg[r].version = out[r].version
    /\ pc[r] = "deleteWrite" =>
         /\ Based(r, "delete")
         /\ arg[r].version = NoVersion
         /\ out[r].data.finalizers # {}

(* Everything that is announced or removed was written in that version. *)
CopiesNamed ==
  /\ \A r \in Requests : pc[r] \in {"updateRemove", "deleteRemove"} \cup EventTypes =>
       \E w \in history : Names(arg[r].key, out[r], w)
  /\ \A e \in events : \E w \in history : Names(e.key, e.obj, w)
  /\ \A m \in removals : \E w \in history : Names(m.key, m.obj, w)

(* Every failed attempt of an update is paid for by a write of another. *)
RetriesPaid ==
  \A r \in Requests :
    /\ pc[r] \in {"updateTry", "updateWrite"} => rev >= born[r] + tries[r]
    /\ pc[r] = "updateWrite" /\ Exists(arg[r].key)
         /\ files[arg[r].key].version # out[r].version => rev > born[r] + tries[r]

(* The store and its requests are in a state from which every property above
   is kept.  TLC checks it, and StoreRefinement_proofs proves that it holds. *)
IInv ==
  /\ TypeOK
  /\ LocalsSet
  /\ HistoryOrdered
  /\ HistoryLegal
  /\ FilesCurrent
  /\ CreateFresh
  /\ WritersBased
  /\ CopiesNamed
  /\ RetriesPaid
  /\ OneUpdatePerVersion
  /\ NoZombie
  /\ CreatedObjectsSurvive
  /\ DrainedIsBeingRemoved
  /\ LiveStateAnnounced
  /\ GivesUpOnlyUnderContention

-----------------------------------------------------------------------------
(* What comments and tests say of the handlers, and the code does not keep. *)

(* "the entity is finally deleted once no more finalizers remain": no request
   removes an object that still has finalizers.  Delete decides on the object
   it read and removes the file without comparing versions. *)
FinalizersHonoured ==
  \A m \in removals : m.via # "collection" => m.obj.data.finalizers = {}

(* "we allow this update to go through and then delete it": the final update
   of a two-phase delete removes the object it wrote and announces. *)
UpdateRemovesItsOwnWrite ==
  \A m \in removals : m.via = "update" => m.obj = m.claimed

(* "selects all resources ... and deletes them. ... On success, returns a list
   of deleted objects": an object that DeleteCollection removes is one that it
   lists. *)
RemovedObjectsAreListed ==
  \A m \in removals : m.via = "collection" =>
    \E i \in reported : i.key = m.key /\ i.obj.data.uid = m.obj.data.uid

(* "some objects allow create-on-update semantics, so NotFound is not
   terminal": an update that may create its object does not fail for want of
   a stored one. *)
CreateOnUpdate == \A r \in Requests : pc[r] # "NotObject"
=============================================================================
