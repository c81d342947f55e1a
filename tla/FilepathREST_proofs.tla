------------------------- MODULE FilepathREST_proofs ------------------------
(***************************************************************************)
(* Type correctness of FilepathREST; the invariant of its store (versions, *)
(* the files they name and the requests that hold them), which every step  *)
(* keeps; and that an object lives once, from its Create to its removal.   *)
(* All for any number of requests, keys and values.                        *)
(***************************************************************************)
EXTENDS FilepathREST, TLAPS

TypeInv == TypeOK /\ LocalsSet

-----------------------------------------------------------------------------
(* Lemmas about the operators. *)

(* A new object is an object. *)
LEMMA FillType ==
  ASSUME NEW d \in Draft, NEW u \in Nat
  PROVE  /\ FillObjectMetaSystemFields(d, u) \in Object
         /\ ~FillObjectMetaSystemFields(d, u).deleting
         /\ FillObjectMetaSystemFields(d, u).uid = u
  BY Zenon DEF Draft, Object, FillObjectMetaSystemFields

(* UpdatedObject and BeforeUpdate return objects. *)
LEMMA UpdatedObjectType ==
  ASSUME NEW c \in Change, NEW v \in Nat, NEW input \in versionedData
  PROVE  UpdatedObject(c, v, input) \in versionedData
<1>1. c.draft \in Draft
  BY Zenon DEF Change
<1>2. FromClient(c.draft) \in Object
  BY Zenon, <1>1, FillType DEF FromClient, NoUID
<1>3. Patched(c, input.data) \in Object
  BY Zenon, <1>1 DEF Patched, Draft, Object, versionedData
<1>4. QED
  BY Zenon, <1>2, <1>3 DEF UpdatedObject, versionedData

LEMMA BeforeUpdateType ==
  ASSUME NEW sub \in Subresources, NEW obj \in Object, NEW old \in Object
  PROVE  BeforeUpdate(sub, obj, old) \in Object
<1>1. PrepareForUpdate(sub, obj, old) \in Object
  BY Zenon DEF PrepareForUpdate, StatusPrepareForUpdate, DefaultPrepareForUpdate, Object
<1>2. QED
  BY Zenon, <1>1 DEF BeforeUpdate, Object

(* Return and Goto keep the types and the locals of a request. *)
LEMMA ReturnType ==
  ASSUME TypeInv, NEW r \in Requests, NEW reply \in Replies, Return(r, reply)
  PROVE  /\ pc' \in [Requests -> PCs]
         /\ arg' \in [Requests -> Arg \cup {Nil}]
         /\ out' \in [Requests -> versionedData \cup {Nil}]
         /\ tries' \in [Requests -> Nat]
         /\ todo' \in [Requests -> SUBSET Item]
         /\ LocalsSet'
<1>1. reply \in PCs /\ reply \notin Holding \cup {"updateTry"}
  BY Zenon DEF PCs, Replies, Holding, EventTypes, Added, Modified, Deleted
<1>2. /\ pc' \in [Requests -> PCs]
      /\ arg' \in [Requests -> Arg \cup {Nil}]
      /\ out' \in [Requests -> versionedData \cup {Nil}]
      /\ tries' \in [Requests -> Nat]
      /\ todo' \in [Requests -> SUBSET Item]
  BY Zenon, <1>1 DEF TypeInv, TypeOK, Return
<1>3. LocalsSet'
  <2> SUFFICES ASSUME NEW q \in Requests
               PROVE  /\ pc'[q] \in Holding \cup {"updateTry"} => arg'[q] \in Arg
                      /\ pc'[q] \in Holding => out'[q] \in versionedData
                      /\ pc'[q] \in {"updateTry", "updateWrite"}
                           => arg'[q].change \in Change
    BY Zenon DEF LocalsSet
  <2>1. CASE q = r
    BY Zenon, <1>1, <2>1 DEF TypeInv, TypeOK, Return, Holding
  <2>2. CASE q # r
    BY Zenon, <2>2 DEF TypeInv, TypeOK, LocalsSet, Return
  <2>3. QED
    BY Zenon, <2>1, <2>2
<1>4. QED
  BY Zenon, <1>2, <1>3

LEMMA GotoType ==
  ASSUME TypeInv, NEW r \in Requests, NEW label \in Holding \cup {"updateTry"},
         NEW a \in Arg, NEW o \in versionedData \cup {Nil}, NEW n \in Nat,
         label \in Holding => o \in versionedData,
         label \in {"updateTry", "updateWrite"} => a.change \in Change,
         Goto(r, label, a, o, n)
  PROVE  /\ pc' \in [Requests -> PCs]
         /\ arg' \in [Requests -> Arg \cup {Nil}]
         /\ out' \in [Requests -> versionedData \cup {Nil}]
         /\ tries' \in [Requests -> Nat]
         /\ todo' \in [Requests -> SUBSET Item]
         /\ LocalsSet'
<1>1. label \in PCs
  BY Zenon DEF PCs, Holding
<1>2. /\ pc' \in [Requests -> PCs]
      /\ arg' \in [Requests -> Arg \cup {Nil}]
      /\ out' \in [Requests -> versionedData \cup {Nil}]
      /\ tries' \in [Requests -> Nat]
      /\ todo' \in [Requests -> SUBSET Item]
  BY Zenon, <1>1 DEF TypeInv, TypeOK, Goto
<1>3. LocalsSet'
  <2> SUFFICES ASSUME NEW q \in Requests
               PROVE  /\ pc'[q] \in Holding \cup {"updateTry"} => arg'[q] \in Arg
                      /\ pc'[q] \in Holding => out'[q] \in versionedData
                      /\ pc'[q] \in {"updateTry", "updateWrite"}
                           => arg'[q].change \in Change
    BY Zenon DEF LocalsSet
  <2>1. CASE q = r
    BY Zenon, <2>1 DEF TypeInv, TypeOK, Goto
  <2>2. CASE q # r
    BY Zenon, <2>2 DEF TypeInv, TypeOK, LocalsSet, Goto
  <2>3. QED
    BY Zenon, <2>1, <2>2
<1>4. QED
  BY Zenon, <1>2, <1>3

(* What fs.Write does to the store and to the record of writes: it is refused,
   changes nothing, or replaces the version it names. *)
LEMMA WriteEffect ==
  ASSUME TypeInv, NEW r \in Requests, pc[r] \in Holding, NEW via, WriteOut(r, via)
  PROVE  /\ arg[r] \in Arg /\ out[r] \in versionedData
         /\ UNCHANGED <<uids, events, removals, reported, born>>
         /\ \/ /\ OutResult(r) # "written"
               /\ UNCHANGED <<files, rev, history>>
            \/ /\ OutResult(r) = "written"
               /\ rev' = rev + 1
               /\ files' = [files EXCEPT ![arg[r].key] =
                              [version |-> rev + 1, data |-> out[r].data]]
               /\ history' = history \cup
                    {[key |-> arg[r].key, base |-> out[r].version,
                      version |-> rev + 1, data |-> out[r].data,
                      sent |-> arg[r].version, via |-> via]}
               /\ IF Exists(arg[r].key)
                  THEN files[arg[r].key].version = out[r].version
                  ELSE out[r].version = NoVersion
<1>1. arg[r] \in Arg /\ out[r] \in versionedData
  BY Zenon DEF TypeInv, LocalsSet
<1>2. UNCHANGED <<uids, events, removals, reported, born>>
  BY Zenon DEF WriteOut
<1>3. CASE OutResult(r) = "written"
  BY Zenon, <1>1, <1>2, <1>3 DEF WriteOut, Write, OutResult, WriteResult
<1>4. CASE OutResult(r) # "written"
  BY Zenon, <1>1, <1>2, <1>4 DEF WriteOut, Write, OutResult, fsVars
<1>5. QED
  BY Zenon, <1>3, <1>4

LEMMA WriteOutType ==
  ASSUME TypeInv, NEW r \in Requests, pc[r] \in Holding,
         NEW via \in {"create", "delete"} \cup Subresources, WriteOut(r, via)
  PROVE  /\ files' \in [Keys -> File]
         /\ rev' \in Nat
         /\ uids' \in Nat
         /\ events' \subseteq Event
         /\ history' \subseteq WriteRecord
         /\ removals' \subseteq Removal
         /\ reported' \subseteq Item
         /\ born' \in [Requests -> Nat]
<1>1. arg[r] \in Arg /\ out[r] \in versionedData
  BY Zenon, WriteEffect
<1>2. CASE UNCHANGED <<files, rev, history>>
  BY Zenon, <1>2, WriteEffect DEF TypeInv, TypeOK
<1>3. CASE /\ rev' = rev + 1
           /\ files' = [files EXCEPT ![arg[r].key] =
                          [version |-> rev + 1, data |-> out[r].data]]
           /\ history' = history \cup
                {[key |-> arg[r].key, base |-> out[r].version,
                  version |-> rev + 1, data |-> out[r].data,
                  sent |-> arg[r].version, via |-> via]}
  <2>1. [version |-> rev + 1, data |-> out[r].data] \in File
    BY <1>1 DEF File, versionedData, TypeInv, TypeOK
  <2>2. [key |-> arg[r].key, base |-> out[r].version,
         version |-> rev + 1, data |-> out[r].data,
         sent |-> arg[r].version, via |-> via] \in WriteRecord
    BY <1>1 DEF WriteRecord, Arg, versionedData, TypeInv, TypeOK
  <2>3. files' \in [Keys -> File] /\ rev' \in Nat
    BY <1>1, <1>3, <2>1 DEF Arg, TypeInv, TypeOK
  <2>4. history' \subseteq WriteRecord
    BY Zenon, <1>3, <2>2 DEF TypeInv, TypeOK
  <2>5. QED
    BY Zenon, <2>3, <2>4, WriteEffect DEF TypeInv, TypeOK
<1>4. QED
  BY Zenon, <1>2, <1>3, WriteEffect

(* After an accepted write the request holds an object with a version. *)
LEMMA ProceedType ==
  ASSUME TypeInv, NEW r \in Requests, pc[r] \in Holding,
         NEW label \in {"updateRemove"} \cup EventTypes, Proceed(r, label)
  PROVE  /\ pc' \in [Requests -> PCs]
         /\ arg' \in [Requests -> Arg \cup {Nil}]
         /\ out' \in [Requests -> versionedData \cup {Nil}]
         /\ tries' \in [Requests -> Nat]
         /\ todo' \in [Requests -> SUBSET Item]
         /\ LocalsSet'
<1> DEFINE o == [version |-> WriteVersion(arg[r].key, out[r].data, out[r].version),
                 data |-> out[r].data]
<1>1. arg[r] \in Arg /\ out[r] \in versionedData
  BY Zenon DEF TypeInv, LocalsSet
<1>2. o \in versionedData
  BY <1>1 DEF WriteVersion, versionedData, TypeInv, TypeOK
<1>3. tries[r] \in Nat
  BY Zenon DEF TypeInv, TypeOK
<1>4. label \in Holding /\ label \notin {"updateTry", "updateWrite"}
  BY Zenon DEF Holding, EventTypes, Added, Modified, Deleted
<1>5. Goto(r, label, arg[r], o, tries[r])
  BY Zenon DEF Proceed
<1>6. QED
  BY Zenon, <1>1, <1>2, <1>3, <1>4, <1>5, GotoType

(* TryUpdate leaves a request answered or with an object to write. *)
LEMMA TryUpdateType ==
  ASSUME TypeInv, NEW r \in Requests, NEW a \in Arg, a.change \in Change,
         NEW n \in Nat, TryUpdate(r, a, n)
  PROVE  /\ pc' \in [Requests -> PCs]
         /\ arg' \in [Requests -> Arg \cup {Nil}]
         /\ out' \in [Requests -> versionedData \cup {Nil}]
         /\ tries' \in [Requests -> Nat]
         /\ todo' \in [Requests -> SUBSET Item]
         /\ LocalsSet'
<1> DEFINE input  == Read(a.key)
           asked  == UpdatedObject(a.change, a.version, input)
           output == BeforeUpdate(a.change.sub, asked.data, input.data)
<1>1. CASE \E reply \in Replies : Return(r, reply)
  BY Zenon, <1>1, ReturnType
<1>2. CASE /\ input # ErrNotExist
           /\ Goto(r, "updateWrite", a, [version |-> input.version, data |-> output], n)
  <2>1. input \in versionedData
    BY Zenon, <1>2 DEF Read, Arg, TypeInv, TypeOK, File
  <2>2. asked \in versionedData
    BY Zenon, <2>1, UpdatedObjectType DEF Arg
  <2>3. output \in Object
    BY Zenon, <2>1, <2>2, BeforeUpdateType DEF versionedData, Change
  <2>4. [version |-> input.version, data |-> output] \in versionedData
    BY Zenon, <2>1, <2>3 DEF versionedData
  <2>5. QED
    BY Zenon, <1>2, <2>4, GotoType DEF Holding
<1>3. QED
  BY Zenon, <1>1, <1>2 DEF TryUpdate, Replies, getResourceVersion

(* Removing a file keeps the types, whoever asks for it. *)
LEMMA RemoveFileType ==
  ASSUME TypeInv, NEW k \in Keys, Exists(k), NEW o \in versionedData,
         NEW via \in {"update", "delete", "collection"}, RemoveFile(k, o, via)
  PROVE  files' \in [Keys -> File] /\ rev' \in Nat /\ removals' \subseteq Removal
<1>1. files[k] \in versionedData
  BY Zenon DEF Exists, File, TypeInv, TypeOK
<1>2. [key |-> k, obj |-> files[k], claimed |-> o, via |-> via] \in Removal
  BY Zenon, <1>1 DEF Removal
<1>3. files' \in [Keys -> File] /\ rev' \in Nat
  BY Zenon DEF RemoveFile, Remove, File, TypeInv, TypeOK
<1>4. removals' \subseteq Removal
  BY Zenon, <1>2 DEF RemoveFile, TypeInv, TypeOK
<1>5. QED
  BY Zenon, <1>3, <1>4

LEMMA RemoveOutType ==
  ASSUME TypeInv, NEW r \in Requests, pc[r] \in Holding,
         NEW via \in {"update", "delete", "collection"}, RemoveOut(r, via)
  PROVE  TypeInv'
<1>1. arg[r] \in Arg /\ out[r] \in versionedData /\ tries[r] \in Nat
  BY Zenon DEF TypeInv, TypeOK, LocalsSet
<1>2. UNCHANGED <<uids, events, history, reported, born>>
  BY Zenon DEF RemoveOut
<1>3. CASE /\ Exists(arg[r].key)
           /\ RemoveFile(arg[r].key, out[r], via)
           /\ Goto(r, Deleted, arg[r], out[r], tries[r])
  <2>1. files' \in [Keys -> File] /\ rev' \in Nat /\ removals' \subseteq Removal
    BY Zenon, <1>1, <1>3, RemoveFileType DEF Arg
  <2>2. Deleted \in Holding /\ Deleted \notin {"updateTry", "updateWrite"}
    BY Zenon DEF Holding, EventTypes, Deleted
  <2>3. QED
    BY Zenon, <1>1, <1>2, <1>3, <2>1, <2>2, GotoType DEF TypeInv, TypeOK
<1>4. CASE Return(r, "NotFound") /\ UNCHANGED <<fsVars, removals>>
  <2>1. "NotFound" \in Replies
    BY Zenon DEF Replies
  <2>2. QED
    BY Zenon, <1>2, <1>4, <2>1, ReturnType DEF TypeInv, TypeOK, fsVars
<1>5. QED
  BY Zenon, <1>3, <1>4 DEF RemoveOut

(* The file system, the ghosts and the UIDs are untouched by the steps that
   only read: their type is kept. *)
LEMMA ReadOnlyType ==
  ASSUME TypeInv, UNCHANGED <<files, rev, events, history, removals, reported>>,
         uids' \in Nat, born' \in [Requests -> Nat],
         pc' \in [Requests -> PCs],
         arg' \in [Requests -> Arg \cup {Nil}],
         out' \in [Requests -> versionedData \cup {Nil}],
         tries' \in [Requests -> Nat],
         todo' \in [Requests -> SUBSET Item],
         LocalsSet'
  PROVE  TypeInv'
  BY Zenon DEF TypeInv, TypeOK

LEMMA StartType ==
  ASSUME TypeInv, NEW r \in Requests, Start(r)
  PROVE  born' \in [Requests -> Nat]
  BY Zenon DEF TypeInv, TypeOK, Start

(* A snapshot of a directory holds items. *)
LEMMA VisitDirType ==
  ASSUME files \in [Keys -> File], NEW dir \in SUBSET Keys
  PROVE  VisitDir(dir) \subseteq Item
  BY DEF VisitDir, Exists, Item, File

LEMMA TypeInit == Init => TypeInv
<1> SUFFICES ASSUME Init PROVE TypeInv
  BY Zenon
<1>1. "idle" \in PCs /\ "idle" \notin Holding \cup {"updateTry"}
  BY Zenon DEF PCs, Holding, EventTypes, Added, Modified, Deleted
<1>2. TypeOK
  BY Zenon, <1>1 DEF Init, NewMemoryFS, TypeOK, File, NoUID
<1>3. LocalsSet
  BY Zenon, <1>1 DEF Init, LocalsSet, Holding
<1>4. QED
  BY Zenon, <1>2, <1>3 DEF TypeInv

LEMMA TypeNext == TypeInv /\ [Next]_vars => TypeInv'
<1> SUFFICES ASSUME TypeInv, [Next]_vars PROVE TypeInv'
  BY Zenon
<1> USE RESTAssumption
<1>1. ASSUME NEW r \in Requests, NEW k \in Keys, NEW d \in Drafts, Create(r, k, d)
      PROVE  TypeInv'
  <2> DEFINE a == [key |-> k, change |-> Nil, version |-> NoVersion]
             o == [version |-> NoVersion,
                   data |-> FillObjectMetaSystemFields(d, uids + 1)]
  <2>1. uids' \in Nat /\ uids + 1 \in Nat /\ born' \in [Requests -> Nat]
    BY <1>1, StartType DEF Create, TypeInv, TypeOK
  <2>2. UNCHANGED <<files, rev, events, history, removals, reported>>
    BY Zenon, <1>1 DEF Create, fsVars, ghosts
  <2>3. CASE Return(r, "AlreadyExists")
    <3>1. "AlreadyExists" \in Replies
      BY Zenon DEF Replies
    <3>2. QED
      BY Zenon, <2>1, <2>2, <2>3, <3>1, ReturnType, ReadOnlyType
  <2>4. CASE Goto(r, "createWrite", a, o, 0)
    <3>1. a \in Arg
      BY Zenon DEF Arg, NoVersion
    <3>2. d \in Draft
      BY Zenon
    <3>3. o \in versionedData
      BY Zenon, <2>1, <3>2, FillType DEF versionedData, NoVersion
    <3>4. "createWrite" \in Holding
      BY Zenon DEF Holding
    <3>5. QED
      BY Zenon, <2>1, <2>2, <2>4, <3>1, <3>3, <3>4, GotoType, ReadOnlyType
  <2>5. QED
    BY Zenon, <1>1, <2>3, <2>4 DEF Create
<1>2. ASSUME NEW r \in Requests, CreateWrite(r)
      PROVE  TypeInv'
  <2>1. pc[r] \in Holding /\ WriteOut(r, "create")
    BY Zenon, <1>2 DEF CreateWrite, Holding
  <2>2. Proceed(r, Added) \/ Return(r, "Conflict")
    BY Zenon, <1>2 DEF CreateWrite
  <2>3. Added \in EventTypes /\ "Conflict" \in Replies
    BY Zenon DEF EventTypes, Replies
  <2>4. QED
    BY Zenon, <2>1, <2>2, <2>3, WriteOutType, ProceedType, ReturnType DEF TypeInv, TypeOK
<1>3. ASSUME NEW r \in Requests, NEW k \in Keys, NEW c \in Changes, NEW v \in 0..rev,
             Update(r, k, c, v)
      PROVE  TypeInv'
  <2> DEFINE a == [key |-> k, change |-> c, version |-> v]
  <2>1. a \in Arg /\ a.change \in Change
    BY DEF Arg
  <2>2. UNCHANGED <<files, rev, events, history, removals, reported, uids>>
    BY Zenon, <1>3 DEF Update, fsVars, ghosts
  <2>3. Start(r) /\ TryUpdate(r, a, 0)
    BY Zenon, <1>3 DEF Update
  <2>4. uids' \in Nat /\ born' \in [Requests -> Nat]
    BY Zenon, <2>2, <2>3, StartType DEF TypeInv, TypeOK
  <2>5. QED
    BY Zenon, <2>1, <2>2, <2>3, <2>4, TryUpdateType, ReadOnlyType
<1>4. ASSUME NEW r \in Requests, UpdateRetry(r)
      PROVE  TypeInv'
  <2>1. arg[r] \in Arg /\ arg[r].change \in Change /\ tries[r] \in Nat
    BY Zenon, <1>4 DEF UpdateRetry, TypeInv, TypeOK, LocalsSet
  <2>2. UNCHANGED <<files, rev, events, history, removals, reported, uids, born>>
    BY Zenon, <1>4 DEF UpdateRetry, fsVars, ghosts
  <2>3. uids' \in Nat /\ born' \in [Requests -> Nat]
    BY Zenon, <2>2 DEF TypeInv, TypeOK
  <2>4. TryUpdate(r, arg[r], tries[r])
    BY Zenon, <1>4 DEF UpdateRetry
  <2>5. QED
    BY Zenon, <2>1, <2>2, <2>3, <2>4, TryUpdateType, ReadOnlyType
<1>5. ASSUME NEW r \in Requests, UpdateWrite(r)
      PROVE  TypeInv'
  <2>1. pc[r] \in Holding /\ pc[r] = "updateWrite" /\ WriteOut(r, arg[r].change.sub)
    BY Zenon, <1>5 DEF UpdateWrite, Holding
  <2>2. /\ arg[r] \in Arg /\ arg[r].change \in Change /\ tries[r] \in Nat
        /\ arg[r].change.sub \in Subresources
    BY Zenon, <2>1 DEF TypeInv, TypeOK, LocalsSet, Change
  <2>3. \/ \E label \in {"updateRemove"} \cup EventTypes : Proceed(r, label)
        \/ \E reply \in Replies : Return(r, reply)
        \/ Goto(r, "updateTry", arg[r], Nil, tries[r] + 1)
    BY Zenon, <1>5 DEF UpdateWrite, AfterUpdate, EventTypes, Replies
  <2>4. tries[r] + 1 \in Nat /\ "updateTry" \notin Holding
    BY <2>2 DEF Holding, EventTypes, Added, Modified, Deleted
  <2>5. /\ pc' \in [Requests -> PCs]
        /\ arg' \in [Requests -> Arg \cup {Nil}]
        /\ out' \in [Requests -> versionedData \cup {Nil}]
        /\ tries' \in [Requests -> Nat]
        /\ todo' \in [Requests -> SUBSET Item]
        /\ LocalsSet'
    BY Zenon, <2>1, <2>2, <2>3, <2>4, ProceedType, ReturnType, GotoType
  <2>6. QED
    BY Zenon, <2>1, <2>2, <2>5, WriteOutType DEF TypeInv, TypeOK
<1>6. ASSUME NEW r \in Requests, UpdateRemove(r)
      PROVE  TypeInv'
  <2>1. pc[r] \in Holding /\ RemoveOut(r, "update")
    BY Zenon, <1>6 DEF UpdateRemove, Holding
  <2>2. QED
    BY Zenon, <2>1, RemoveOutType
<1>7. ASSUME NEW r \in Requests, NEW k \in Keys, Delete(r, k)
      PROVE  TypeInv'
  <2> DEFINE a == [key |-> k, change |-> Nil, version |-> NoVersion]
             o == [files[k] EXCEPT !.data.deleting = TRUE]
  <2>1. UNCHANGED <<files, rev, events, history, removals, reported, uids>>
    BY Zenon, <1>7 DEF Delete, fsVars, ghosts
  <2>2. uids' \in Nat /\ born' \in [Requests -> Nat]
    BY Zenon, <1>7, <2>1, StartType DEF Delete, TypeInv, TypeOK
  <2>3. a \in Arg /\ {"deleteWrite", "deleteRemove"} \subseteq Holding
    BY Zenon DEF Arg, NoVersion, Holding
  <2>4. \/ Return(r, "NotFound")
        \/ /\ files[k] # ErrNotExist
           /\ \/ Goto(r, "deleteWrite", a, o, 0)
              \/ Goto(r, "deleteRemove", a, files[k], 0)
    BY Zenon, <1>7 DEF Delete, Read
  <2>5. CASE Return(r, "NotFound")
    <3>1. "NotFound" \in Replies
      BY Zenon DEF Replies
    <3>2. QED
      BY Zenon, <2>1, <2>2, <2>5, <3>1, ReturnType, ReadOnlyType
  <2>6. CASE /\ files[k] # ErrNotExist
             /\ \/ Goto(r, "deleteWrite", a, o, 0)
                \/ Goto(r, "deleteRemove", a, files[k], 0)
    <3>1. files[k] \in versionedData
      BY Zenon, <2>6 DEF TypeInv, TypeOK, File
    <3>2. o \in versionedData
      BY Zenon, <3>1 DEF versionedData, Object
    <3>3. /\ pc' \in [Requests -> PCs]
          /\ arg' \in [Requests -> Arg \cup {Nil}]
          /\ out' \in [Requests -> versionedData \cup {Nil}]
          /\ tries' \in [Requests -> Nat]
          /\ todo' \in [Requests -> SUBSET Item]
          /\ LocalsSet'
      BY Zenon, <2>3, <2>6, <3>1, <3>2, GotoType
    <3>4. QED
      BY Zenon, <2>1, <2>2, <3>3, ReadOnlyType
  <2>7. QED
    BY Zenon, <2>4, <2>5, <2>6
<1>8. ASSUME NEW r \in Requests, DeleteWrite(r)
      PROVE  TypeInv'
  <2>1. pc[r] \in Holding /\ WriteOut(r, "delete")
    BY Zenon, <1>8 DEF DeleteWrite, Holding
  <2>2. Proceed(r, Modified) \/ \E reply \in Replies : Return(r, reply)
    BY Zenon, <1>8 DEF DeleteWrite, Replies
  <2>3. Modified \in EventTypes
    BY Zenon DEF EventTypes
  <2>4. QED
    BY Zenon, <2>1, <2>2, <2>3, WriteOutType, ProceedType, ReturnType DEF TypeInv, TypeOK
<1>9. ASSUME NEW r \in Requests, DeleteRemove(r)
      PROVE  TypeInv'
  <2>1. pc[r] \in Holding /\ RemoveOut(r, "delete")
    BY Zenon, <1>9 DEF DeleteRemove, Holding
  <2>2. QED
    BY Zenon, <2>1, RemoveOutType
<1>10. ASSUME NEW r \in Requests, NEW dir \in Dirs, NEW sel \in Selectors,
              DeleteCollection(r, dir, sel)
       PROVE  TypeInv'
  <2>1. UNCHANGED <<files, rev, events, history, removals, reported, uids>>
    BY Zenon, <1>10 DEF DeleteCollection, fsVars, ghosts
  <2>2. uids' \in Nat /\ born' \in [Requests -> Nat]
    BY Zenon, <1>10, <2>1, StartType DEF DeleteCollection, TypeInv, TypeOK
  <2>3. VisitDir(dir) \subseteq Item
    BY Zenon, VisitDirType DEF TypeInv, TypeOK
  <2>4. todo' \in [Requests -> SUBSET Item]
    BY Zenon, <1>10, <2>3 DEF DeleteCollection, TypeInv, TypeOK
  <2>5. "visit" \in PCs /\ "visit" \notin Holding \cup {"updateTry"}
    BY Zenon DEF PCs, Holding, EventTypes, Added, Modified, Deleted
  <2>6. pc' \in [Requests -> PCs] /\ UNCHANGED <<arg, out, tries>>
    BY Zenon, <1>10, <2>5 DEF DeleteCollection, TypeInv, TypeOK
  <2>7. LocalsSet'
    BY Zenon, <1>10, <2>5, <2>6 DEF DeleteCollection, LocalsSet, TypeInv, TypeOK, Holding
  <2>8. QED
    BY Zenon, <2>1, <2>2, <2>4, <2>6, <2>7, ReadOnlyType DEF TypeInv, TypeOK
<1>11. ASSUME NEW r \in Requests, Visit(r)
       PROVE  TypeInv'
  <2>1. PICK i \in todo[r] :
          /\ \/ Exists(i.key) /\ RemoveFile(i.key, i.obj, "collection")
             \/ ~Exists(i.key) /\ UNCHANGED <<fsVars, removals>>
          /\ todo' = [todo EXCEPT ![r] = @ \ {i}]
          /\ reported' = reported \cup {i}
    BY Zenon, <1>11 DEF Visit
  <2>2. UNCHANGED <<uids, pc, arg, out, tries, events, history, born>>
    BY Zenon, <1>11 DEF Visit
  <2>3. i \in Item
    BY Zenon DEF TypeInv, TypeOK
  <2>4. files' \in [Keys -> File] /\ rev' \in Nat /\ removals' \subseteq Removal
    BY Zenon, <2>1, <2>3, RemoveFileType DEF Item, TypeInv, TypeOK, fsVars
  <2>5. todo' \in [Requests -> SUBSET Item] /\ reported' \subseteq Item
    BY Zenon, <2>1, <2>3 DEF TypeInv, TypeOK
  <2>6. LocalsSet'
    BY Zenon, <2>2 DEF LocalsSet, TypeInv
  <2>7. QED
    BY Zenon, <2>2, <2>4, <2>5, <2>6 DEF TypeInv, TypeOK
<1>12. ASSUME NEW r \in Requests, VisitDone(r)
       PROVE  TypeInv'
  <2>1. UNCHANGED <<files, rev, events, history, removals, reported, uids, born>>
    BY Zenon, <1>12 DEF VisitDone, fsVars, ghosts
  <2>2. Return(r, "ok") /\ "ok" \in Replies
    BY Zenon, <1>12 DEF VisitDone, Replies
  <2>3. QED
    BY Zenon, <2>1, <2>2, ReturnType, ReadOnlyType DEF TypeInv, TypeOK
<1>13. ASSUME NEW r \in Requests, Notify(r)
       PROVE  TypeInv'
  <2>1. UNCHANGED <<files, rev, history, removals, reported, uids, born>>
    BY Zenon, <1>13 DEF Notify, fsVars, ghosts
  <2>2. Return(r, "ok") /\ "ok" \in Replies
    BY Zenon, <1>13 DEF Notify, Replies
  <2>3. [type |-> pc[r], key |-> arg[r].key, obj |-> out[r]] \in Event
    BY Zenon, <1>13 DEF Notify, TypeInv, LocalsSet, Holding, Event, Arg
  <2>4. events' \subseteq Event
    BY Zenon, <1>13, <2>3 DEF Notify, TypeInv, TypeOK
  <2>5. QED
    BY Zenon, <2>1, <2>2, <2>4, ReturnType DEF TypeInv, TypeOK
<1>14. ASSUME NEW r \in Requests, Refuse(r)
       PROVE  TypeInv'
  <2>1. UNCHANGED <<files, rev, events, history, removals, reported, uids, born>>
    BY Zenon, <1>14 DEF Refuse, fsVars, ghosts
  <2>2. \E reply \in Replies : Return(r, reply)
    BY Zenon, <1>14 DEF Refuse, Replies
  <2>3. QED
    BY Zenon, <2>1, <2>2, ReturnType, ReadOnlyType DEF TypeInv, TypeOK
<1>15. CASE UNCHANGED vars
  BY Zenon, <1>15 DEF vars, reqVars, ghosts, TypeInv, TypeOK, LocalsSet
<1>16. QED
  BY Zenon, <1>1, <1>2, <1>3, <1>4, <1>5, <1>6, <1>7, <1>8, <1>9, <1>10, <1>11, <1>12,
     <1>13, <1>14, <1>15 DEF Next, RequestStep, Answered

(* Every variable keeps its type and every handler finds its local variables
   set, in any number of requests. *)
THEOREM TypeCorrect == Spec => [](TypeOK /\ LocalsSet)
<1>1. Spec => []TypeInv
  BY TypeInit, TypeNext, PTL DEF Spec
<1>2. QED
  BY <1>1, PTL DEF TypeInv

-----------------------------------------------------------------------------
(* What a step does to the locals of requests. *)

(* A step of r leaves those of the others alone. *)
OthersSame(r) ==
  \A q \in Requests : q # r =>
    pc'[q] = pc[q] /\ arg'[q] = arg[q] /\ out'[q] = out[q] /\ tries'[q] = tries[q]

LEMMA ReturnEffect ==
  ASSUME TypeInv, NEW r \in Requests, NEW reply, Return(r, reply)
  PROVE  /\ pc'[r] = reply /\ arg'[r] = Nil /\ out'[r] = Nil /\ tries'[r] = 0
         /\ OthersSame(r)
  BY Zenon DEF TypeInv, TypeOK, Return, OthersSame

LEMMA GotoEffect ==
  ASSUME TypeInv, NEW r \in Requests, NEW label, NEW a, NEW o, NEW n,
         Goto(r, label, a, o, n)
  PROVE  /\ pc'[r] = label /\ arg'[r] = a /\ out'[r] = o /\ tries'[r] = n
         /\ OthersSame(r)
  BY Zenon DEF TypeInv, TypeOK, Goto, OthersSame

-----------------------------------------------------------------------------
(* The objects that handlers compute are legal successors of what they read. *)

LEMMA UpdateSucceeds ==
  ASSUME NEW sub \in Subresources, NEW obj \in Object, NEW old \in Object,
         ValidateObjectMetaAccessorUpdate(BeforeUpdate(sub, obj, old), old)
  PROVE  Succeeds(sub, old, BeforeUpdate(sub, obj, old))
<1> DEFINE p == PrepareForUpdate(sub, obj, old)
           o == BeforeUpdate(sub, obj, old)
<1>1. p \in Object
  BY Zenon DEF PrepareForUpdate, StatusPrepareForUpdate, DefaultPrepareForUpdate, Object
<1>2. o \in Object /\ o.spec = p.spec /\ o.status = p.status
        /\ o.finalizers = p.finalizers
  BY Zenon, <1>1 DEF BeforeUpdate, Object
<1>3. sub = "status" => p.spec = old.spec /\ p.finalizers = old.finalizers
  BY Zenon DEF PrepareForUpdate, StatusPrepareForUpdate, DefaultPrepareForUpdate, Object
<1>4. sub # "status" => p.status = old.status
  BY Zenon DEF PrepareForUpdate, StatusPrepareForUpdate, DefaultPrepareForUpdate, Object
<1>5. sub # "main" => sub = "status"
  BY Zenon DEF Subresources
<1>6. o.uid = old.uid /\ (old.deleting => o.deleting /\ o.finalizers \subseteq old.finalizers)
  BY Zenon DEF ValidateObjectMetaAccessorUpdate
<1>7. QED
  BY Zenon, <1>2, <1>3, <1>4, <1>5, <1>6 DEF Succeeds

LEMMA DeleteSucceeds ==
  ASSUME NEW f \in versionedData
  PROVE  LET o == [f EXCEPT !.data.deleting = TRUE]
         IN  /\ o.version = f.version
             /\ o.data.finalizers = f.data.finalizers
             /\ Succeeds("delete", f.data, o.data)
  BY Zenon DEF versionedData, Object, Succeeds

-----------------------------------------------------------------------------
(* The store: versions, the files they name and the requests that hold them. *)

StoreInv ==
  /\ HistoryOrdered
  /\ HistoryLegal
  /\ FilesCurrent
  /\ CreateFresh
  /\ WritersBased
  /\ CopiesNamed
  /\ OneUpdatePerVersion

(* What issued the write of a request, as the record of the write names it. *)
Writing == {"createWrite", "updateWrite", "deleteWrite"}

WriterVia(r) ==
  IF pc[r] = "createWrite" THEN "create"
  ELSE IF pc[r] = "deleteWrite" THEN "delete"
  ELSE arg[r].change.sub

LEMMA WriterViaType ==
  ASSUME TypeInv, NEW r \in Requests, pc[r] \in Writing
  PROVE  /\ WriterVia(r) \in {"create", "delete"} \cup Subresources
         /\ WriterVia(r) = "create" <=> pc[r] = "createWrite"
  BY Zenon DEF TypeInv, LocalsSet, Writing, WriterVia, Change, Subresources

(* A file's version names it in the record of writes, and is not zero. *)
LEMMA FileNamed ==
  ASSUME TypeInv, StoreInv, NEW k \in Keys, Exists(k)
  PROVE  /\ files[k] \in versionedData
         /\ \E w \in history : Names(k, files[k], w)
         /\ files[k].version # NoVersion
         /\ files[k].version <= rev
<1>1. files[k] \in versionedData
  BY Zenon DEF Exists, TypeInv, TypeOK, File
<1>2. PICK w \in history : Names(k, files[k], w)
  BY Zenon DEF StoreInv, FilesCurrent
<1>3. w \in WriteRecord
  BY Zenon DEF TypeInv, TypeOK
<1>4. w.base < w.version /\ w.version <= rev
  BY Zenon DEF StoreInv, HistoryOrdered
<1>5. w.version # 0
  BY <1>3, <1>4 DEF WriteRecord
<1>6. QED
  BY Zenon, <1>1, <1>2, <1>4, <1>5 DEF Names, NoVersion

(* A write that is carried out is a Create of a new object where there is no
   file, or replaces the version that it was computed from. *)
LEMMA WriteBase ==
  ASSUME TypeInv, StoreInv, NEW r \in Requests, pc[r] \in Writing,
         WriteOut(r, WriterVia(r)), OutResult(r) = "written"
  PROVE  LET k == arg[r].key
             o == out[r]
         IN  \/ /\ pc[r] = "createWrite"
                /\ ~Exists(k)
                /\ o.version = NoVersion
                /\ arg[r].version = NoVersion
                /\ ~o.data.deleting
                /\ \A w \in history : w.data.uid # o.data.uid
             \/ /\ pc[r] # "createWrite"
                /\ Exists(k)
                /\ o.version = files[k].version
                /\ arg[r].version # NoVersion => arg[r].version = o.version
                /\ Succeeds(WriterVia(r), files[k].data, o.data)
<1> DEFINE k == arg[r].key
           o == out[r]
<1>1. pc[r] \in Holding
  BY Zenon DEF Writing, Holding
<1>2. /\ arg[r] \in Arg /\ k \in Keys /\ o \in versionedData
      /\ IF Exists(k) THEN files[k].version = o.version ELSE o.version = NoVersion
  BY Zenon, <1>1, WriteEffect DEF Arg
<1>3. CASE pc[r] = "createWrite"
  <2>1. /\ o.version = NoVersion
        /\ arg[r].version = NoVersion
        /\ ~o.data.deleting
        /\ \A w \in history : w.data.uid # o.data.uid
    BY Zenon, <1>3 DEF StoreInv, CreateFresh
  <2>2. ~Exists(k)
    BY Zenon, <1>2, <2>1, FileNamed
  <2>3. QED
    BY Zenon, <1>3, <2>1, <2>2
<1>4. CASE pc[r] # "createWrite"
  <2>1. PICK b \in history : /\ b.key = k
                             /\ b.version = o.version
                             /\ Succeeds(WriterVia(r), b.data, o.data)
    BY Zenon, <1>4 DEF StoreInv, WritersBased, Based, Writing, WriterVia
  <2>2. arg[r].version # NoVersion => arg[r].version = o.version
    BY Zenon, <1>4 DEF StoreInv, WritersBased, Writing
  <2>3. b.version # 0
    BY DEF StoreInv, HistoryOrdered, TypeInv, TypeOK, WriteRecord
  <2>4. Exists(k) /\ files[k].version = o.version
    BY Zenon, <1>2, <2>1, <2>3 DEF NoVersion
  <2>5. PICK w \in history : Names(k, files[k], w)
    BY Zenon, <1>2, <2>4, FileNamed
  <2>6. w = b
    BY <2>1, <2>4, <2>5 DEF Names, StoreInv, HistoryOrdered
  <2>7. files[k].data = b.data
    BY Zenon, <2>5, <2>6 DEF Names
  <2>8. QED
    BY Zenon, <1>4, <2>1, <2>2, <2>4, <2>7
<1>5. QED
  BY Zenon, <1>3, <1>4

(* A write that is carried out adds one record, and changes one file. *)
LEMMA WriteRecorded ==
  ASSUME TypeInv, NEW r \in Requests, pc[r] \in Holding, NEW via,
         WriteOut(r, via), OutResult(r) = "written"
  PROVE  /\ \E n : /\ history' = history \cup {n}
                   /\ n.key = arg[r].key /\ n.base = out[r].version
                   /\ n.version = rev + 1 /\ n.data = out[r].data
                   /\ n.sent = arg[r].version /\ n.via = via
         /\ rev' = rev + 1
         /\ files'[arg[r].key].version = rev + 1
         /\ files'[arg[r].key].data = out[r].data
         /\ \A j \in Keys : j # arg[r].key => files'[j] = files[j]
<1> DEFINE n == [key |-> arg[r].key, base |-> out[r].version, version |-> rev + 1,
                 data |-> out[r].data, sent |-> arg[r].version, via |-> via]
<1>1. /\ arg[r].key \in Keys
      /\ rev' = rev + 1
      /\ files' = [files EXCEPT ![arg[r].key] =
                     [version |-> rev + 1, data |-> out[r].data]]
      /\ history' = history \cup {n}
  BY Zenon, WriteEffect DEF Arg
<1>2. /\ files'[arg[r].key].version = rev + 1
      /\ files'[arg[r].key].data = out[r].data
      /\ \A j \in Keys : j # arg[r].key => files'[j] = files[j]
  BY Zenon, <1>1 DEF TypeInv, TypeOK
<1>3. /\ n.key = arg[r].key /\ n.base = out[r].version /\ n.version = rev + 1
      /\ n.data = out[r].data /\ n.sent = arg[r].version /\ n.via = via
  BY Zenon
<1> HIDE DEF n
<1>4. QED
  BY Zenon, <1>1, <1>2, <1>3

(* A write keeps the store in order: versions are unique and increasing, each
   is replaced at most once, and every file is the last write of its key. *)
LEMMA WriteStore ==
  ASSUME TypeInv, StoreInv, NEW r \in Requests, pc[r] \in Writing,
         WriteOut(r, WriterVia(r))
  PROVE  /\ HistoryOrdered' /\ HistoryLegal' /\ FilesCurrent' /\ OneUpdatePerVersion'
         /\ history \subseteq history'
         /\ \A w \in history' : w \in history \/ w.data.uid = out[r].data.uid
<1> DEFINE k == arg[r].key
           o == out[r]
<1>1. pc[r] \in Holding
  BY Zenon DEF Writing, Holding
<1>2. arg[r] \in Arg /\ k \in Keys /\ o \in versionedData /\ uids' = uids
  BY Zenon, <1>1, WriteEffect DEF Arg
<1>3. CASE UNCHANGED <<files, rev, history>>
  BY ZenonT(40), <1>2, <1>3 DEF StoreInv, HistoryOrdered, HistoryLegal, FilesCurrent, Names, Exists,
       OneUpdatePerVersion
<1>4. CASE OutResult(r) = "written"
  <2>1. PICK n :
          /\ history' = history \cup {n}
          /\ n.key = k /\ n.base = o.version /\ n.version = rev + 1 /\ n.data = o.data
          /\ n.sent = arg[r].version /\ n.via = WriterVia(r)
    BY <1>1, <1>4, WriteRecorded
  <2>2. /\ rev' = rev + 1
        /\ files'[k].version = rev + 1 /\ files'[k].data = o.data
        /\ \A j \in Keys : j # k => files'[j] = files[j]
    BY Zenon, <1>1, <1>4, WriteRecorded
  <2>3. rev \in Nat /\ uids \in Nat /\ o.version \in Nat /\ history \subseteq WriteRecord
    BY Zenon, <1>2 DEF TypeInv, TypeOK, versionedData
  <2>4. \A w \in history : /\ w.base \in Nat /\ w.version \in Nat /\ w.data.uid \in Nat
                           /\ w.base < w.version /\ w.version <= rev
    BY Zenon, <2>3 DEF WriteRecord, Object, StoreInv, HistoryOrdered
  <2>5. o.version <= rev
    <3>1. o.version = NoVersion \/ (Exists(k) /\ o.version = files[k].version)
      BY Zenon, <1>4, WriteBase
    <3>2. Exists(k) => files[k].version <= rev
      BY Zenon, <1>2, FileNamed
    <3>3. QED
      BY <2>3, <3>1, <3>2 DEF NoVersion
  <2>6. \/ /\ pc[r] = "createWrite" /\ o.version = NoVersion /\ n.via = "create"
           /\ \A w \in history : w.data.uid # o.data.uid
           /\ o.data.uid <= uids
           /\ n.sent = NoVersion
        \/ /\ n.via # "create"
           /\ Exists(k) /\ o.version = files[k].version
           /\ n.sent # NoVersion => n.sent = o.version
           /\ \E b \in history : /\ Names(k, files[k], b)
                                 /\ b.version = o.version
                                 /\ Succeeds(n.via, b.data, o.data)
    <3>1. CASE pc[r] = "createWrite"
      <4>1. o.data.uid <= uids
        BY Zenon, <3>1 DEF StoreInv, CreateFresh
      <4>2. QED
        BY Zenon, <1>4, <2>1, <3>1, <4>1, WriteBase, WriterViaType
    <3>2. CASE pc[r] # "createWrite"
      <4>1. /\ Exists(k)
            /\ o.version = files[k].version
            /\ arg[r].version # NoVersion => arg[r].version = o.version
            /\ Succeeds(WriterVia(r), files[k].data, o.data)
        BY Zenon, <1>4, <3>2, WriteBase
      <4>2. PICK b \in history : Names(k, files[k], b)
        BY Zenon, <1>2, <4>1, FileNamed
      <4>3. b.version = o.version /\ Succeeds(n.via, b.data, o.data)
        BY Zenon, <2>1, <4>1, <4>2 DEF Names
      <4>4. n.via # "create"
        BY Zenon, <2>1, <3>2, WriterViaType
      <4>5. QED
        BY ZenonT(40), <2>1, <4>1, <4>2, <4>3, <4>4
    <3>3. QED
      BY Zenon, <3>1, <3>2
  <2>7. HistoryOrdered'
    <3>1. n.base < n.version /\ n.version <= rev' /\ n.data.uid <= uids'
      <4>1. n.data.uid <= uids
        BY Zenon, <2>1, <2>6 DEF Names, StoreInv, HistoryOrdered, Succeeds
      <4>2. QED
        BY <1>2, <2>1, <2>2, <2>3, <2>5, <4>1
    <3>2. \A w \in history : w.base < w.version /\ w.version <= rev' /\ w.data.uid <= uids'
      BY <1>2, <2>2, <2>3, <2>4 DEF StoreInv, HistoryOrdered
    <3>3. \A w \in history : w.version # n.version
      BY <2>1, <2>3, <2>4
    <3>4. ASSUME NEW w \in history, w.data.uid = n.data.uid
          PROVE  w.key = n.key
      <4>1. PICK b \in history : b.key = k /\ b.data.uid = o.data.uid
        BY Zenon, <2>1, <2>6, <3>4 DEF Names, Succeeds
      <4>2. w.key = b.key
        BY SMT, <2>1, <3>4, <4>1 DEF StoreInv, HistoryOrdered
      <4>3. QED
        BY Zenon, <2>1, <4>1, <4>2
    <3>5. \A v, w \in history : /\ v.version = w.version => v = w
                                /\ v.data.uid = w.data.uid => v.key = w.key
      BY Zenon DEF StoreInv, HistoryOrdered
    <3>6. QED
      BY <2>1, <3>1, <3>2, <3>3, <3>4, <3>5 DEF HistoryOrdered
  <2>8. HistoryLegal'
    <3>1. \A w \in history :
            IF w.via = "create" THEN w.base = NoVersion
            ELSE \E b \in history' : /\ b.version = w.base
                                     /\ b.key = w.key
                                     /\ Succeeds(w.via, b.data, w.data)
      BY Zenon, <2>1 DEF StoreInv, HistoryLegal
    <3>2. IF n.via = "create" THEN n.base = NoVersion
          ELSE \E b \in history' : /\ b.version = n.base
                                   /\ b.key = n.key
                                   /\ Succeeds(n.via, b.data, n.data)
      BY Zenon, <2>1, <2>6 DEF Names
    <3>3. QED
      BY ZenonT(40), <2>1, <3>1, <3>2 DEF HistoryLegal
  <2>9. FilesCurrent'
    <3> SUFFICES ASSUME NEW j \in Keys, Exists(j)'
                 PROVE  /\ \E w \in history' : Names(j, files'[j], w)
                        /\ \A w \in history' : w.base # files'[j].version
      BY Zenon DEF FilesCurrent, Names
    <3>1. CASE j = k
      <4>1. files'[j].version = rev + 1 /\ files'[j].data = o.data
        BY Zenon, <2>2, <3>1
      <4>2. Names(j, files'[j], n)
        BY Zenon, <2>1, <3>1, <4>1 DEF Names
      <4>3. \A w \in history' : w.base # rev + 1
        BY <2>1, <2>3, <2>4, <2>5
      <4>4. QED
        BY Zenon, <2>1, <4>1, <4>2, <4>3
    <3>2. CASE j # k
      <4>1. files'[j] = files[j] /\ Exists(j)
        BY Zenon, <2>2, <3>2 DEF Exists
      <4>2. PICK w \in history : Names(j, files[j], w) /\ files[j].version # NoVersion
        BY Zenon, <4>1, FileNamed
      <4>3. o.version # files[j].version
        <5>1. CASE o.version = NoVersion
          BY Zenon, <4>2, <5>1
        <5>2. CASE \E b \in history : b.key = k /\ b.version = o.version
          BY Zenon, <3>2, <4>2, <5>2 DEF Names, StoreInv, HistoryOrdered
        <5>3. QED
          BY Zenon, <2>6, <5>1, <5>2 DEF Names
      <4>4. \A u \in history : u.base # files[j].version
        BY Zenon, <4>1 DEF StoreInv, FilesCurrent
      <4>5. QED
        BY Zenon, <2>1, <4>1, <4>2, <4>3, <4>4
    <3>3. QED
      BY Zenon, <3>1, <3>2
  <2>10. OneUpdatePerVersion'
    <3>1. \A w \in history : n.base # NoVersion => w.base # n.base
      BY Zenon, <1>2, <2>1, <2>6 DEF StoreInv, FilesCurrent
    <3>2. n.sent # NoVersion => n.sent = n.base
      BY Zenon, <2>1, <2>6
    <3>3. QED
      BY <2>1, <3>1, <3>2 DEF StoreInv, OneUpdatePerVersion
  <2>11. \A w \in history' : w \in history \/ w.data.uid = o.data.uid
    BY Zenon, <2>1
  <2>12. QED
    BY Zenon, <2>1, <2>7, <2>8, <2>9, <2>10, <2>11
<1>5. QED
  BY Zenon, <1>1, <1>3, <1>4, WriteEffect

(* The object that a request holds after an accepted write, and the file with
   the same contents. *)
Written(r) ==
  [version |-> WriteVersion(arg[r].key, out[r].data, out[r].version),
   data    |-> out[r].data]

LEMMA AcceptedWritten ==
  ASSUME TypeInv, NEW r \in Requests, pc[r] \in Writing,
         WriteOut(r, WriterVia(r)), Accepted(r)
  PROVE  files'[arg[r].key] = Written(r) /\ files'[arg[r].key] # ErrNotExist
<1> DEFINE k == arg[r].key
           o == out[r]
<1>1. pc[r] \in Holding
  BY Zenon DEF Writing, Holding
<1>2. arg[r] \in Arg /\ k \in Keys /\ o \in versionedData
  BY Zenon, <1>1, WriteEffect DEF Arg
<1>3. Written(r) \in versionedData
  BY <1>2 DEF Written, WriteVersion, versionedData, TypeInv, TypeOK
<1>4. CASE OutResult(r) = "written"
  <2>1. Written(r) = [version |-> rev + 1, data |-> o.data]
    BY Zenon, <1>4 DEF Written, WriteVersion, OutResult
  <2>2. QED
    BY Zenon, <1>1, <1>2, <1>3, <1>4, <2>1, WriteEffect, ErrNotExistAssumption DEF TypeInv, TypeOK
<1>5. CASE OutResult(r) = "unchanged"
  <2>1. Exists(k) /\ files[k].version = o.version /\ files[k].data = o.data
    BY Zenon, <1>5 DEF OutResult, WriteResult
  <2>2. files[k] \in versionedData
    BY Zenon, <1>2, <2>1 DEF Exists, TypeInv, TypeOK, File
  <2>3. Written(r) = [version |-> o.version, data |-> o.data]
    BY Zenon, <1>5 DEF Written, WriteVersion, OutResult
  <2>4. files[k] = Written(r)
    BY Zenon, <2>1, <2>2, <2>3 DEF versionedData
  <2>5. files' = files
    BY Zenon, <1>1, <1>5, WriteEffect
  <2>6. QED
    BY Zenon, <2>1, <2>4, <2>5 DEF Exists
<1>6. QED
  BY Zenon, <1>4, <1>5 DEF Accepted

(* Where a request is after its Write: it gave up or retries, or holds what it
   wrote. *)
WriteAnswered(r) ==
  \/ pc'[r] \in Replies \cup {"updateTry"}
  \/ /\ Accepted(r)
     /\ pc'[r] \in {"updateRemove"} \cup EventTypes
     /\ arg'[r] = arg[r]
     /\ out'[r] = Written(r)

(* The whole of a writing step: the write, and where the request goes next. *)
LEMMA WriteStep ==
  ASSUME TypeInv, StoreInv, NEW r \in Requests, pc[r] \in Writing,
         WriteOut(r, WriterVia(r)),
         OthersSame(r), WriteAnswered(r)
  PROVE  StoreInv'
<1>1. pc[r] \in Holding
  BY Zenon DEF Writing, Holding
<1>2. arg[r] \in Arg /\ arg[r].key \in Keys /\ UNCHANGED <<uids, events, removals>>
  BY Zenon, <1>1, WriteEffect DEF Arg
<1>3. /\ HistoryOrdered' /\ HistoryLegal' /\ FilesCurrent' /\ OneUpdatePerVersion'
      /\ history \subseteq history'
      /\ \A w \in history' : w \in history \/ w.data.uid = out[r].data.uid
  BY Zenon, WriteStore
<1>4. pc'[r] \notin Writing
  BY Zenon DEF Writing, WriteAnswered, Replies, EventTypes, Added, Modified, Deleted
<1>5. CreateFresh'
  <2> SUFFICES ASSUME NEW q \in Requests, pc'[q] = "createWrite"
               PROVE  /\ out'[q].version = NoVersion
                      /\ arg'[q].version = NoVersion
                      /\ ~out'[q].data.deleting
                      /\ out'[q].data.uid <= uids'
                      /\ \A w \in history' : w.data.uid # out'[q].data.uid
                      /\ \A p \in Requests :
                           pc'[p] = "createWrite" /\ out'[p].data.uid = out'[q].data.uid
                             => p = q
    BY Zenon DEF CreateFresh
  <2>1. q # r /\ pc[q] = "createWrite" /\ arg'[q] = arg[q] /\ out'[q] = out[q]
    BY Zenon, <1>4 DEF Writing, OthersSame
  <2>2. out[r].data.uid # out[q].data.uid
    <3>1. CASE pc[r] = "createWrite"
      BY Zenon, <2>1, <3>1 DEF StoreInv, CreateFresh
    <3>2. CASE pc[r] # "createWrite"
      <4>1. \E b \in history : Succeeds(WriterVia(r), b.data, out[r].data)
        BY Zenon, <3>2 DEF StoreInv, WritersBased, Based, Writing, WriterVia
      <4>2. QED
        BY <2>1, <4>1 DEF Succeeds, StoreInv, CreateFresh
    <3>3. QED
      BY Zenon, <3>1, <3>2
  <2>3. \A w \in history' : w.data.uid # out[q].data.uid
    BY Zenon, <1>3, <2>1, <2>2 DEF StoreInv, CreateFresh
  <2>4. \A p \in Requests : pc'[p] = "createWrite" => pc[p] = "createWrite" /\ out'[p] = out[p]
    BY Zenon, <1>4 DEF Writing, OthersSame
  <2>5. QED
    BY <1>2, <2>1, <2>3, <2>4 DEF StoreInv, CreateFresh
<1>6. WritersBased'
  <2> SUFFICES ASSUME NEW q \in Requests, pc'[q] \in {"updateWrite", "deleteWrite"}
               PROVE  /\ pc'[q] = "updateWrite" =>
                           /\ Based(q, arg[q].change.sub)'
                           /\ arg'[q].version # NoVersion
                                => arg'[q].version = out'[q].version
                      /\ pc'[q] = "deleteWrite" =>
                           /\ Based(q, "delete")'
                           /\ arg'[q].version = NoVersion
                           /\ out'[q].data.finalizers # {}
    BY Zenon DEF WritersBased
  <2>1. q # r /\ pc'[q] = pc[q] /\ arg'[q] = arg[q] /\ out'[q] = out[q]
    BY Zenon, <1>4 DEF Writing, OthersSame
  <2>2. QED
    BY ZenonT(40), <1>3, <2>1 DEF StoreInv, WritersBased, Based
<1>7. CopiesNamed'
  <2>1. ASSUME NEW q \in Requests,
               pc'[q] \in {"updateRemove", "deleteRemove"} \cup EventTypes
        PROVE  \E w \in history' : Names(arg'[q].key, out'[q], w)
    <3>1. CASE q # r
      BY Zenon, <1>3, <2>1, <3>1 DEF StoreInv, CopiesNamed, OthersSame
    <3>2. CASE q = r
      <4>1. Accepted(r) /\ arg'[r] = arg[r] /\ out'[r] = Written(r)
        BY Zenon, <2>1, <3>2 DEF WriteAnswered, Replies, EventTypes, Added, Modified, Deleted
      <4>2. Exists(arg[r].key)' /\ files'[arg[r].key] = out'[r]
        BY Zenon, <4>1, AcceptedWritten DEF Exists
      <4>3. QED
        BY <1>2, <1>3, <3>2, <4>1, <4>2 DEF FilesCurrent, Names
    <3>3. QED
      BY Zenon, <3>1, <3>2
  <2>2. QED
    BY Zenon, <1>2, <1>3, <2>1 DEF StoreInv, CopiesNamed, Names
<1>8. QED
  BY Zenon, <1>3, <1>5, <1>6, <1>7 DEF StoreInv

(* Every other step: no version is given out, files may go away, and what a
   request holds, removes or announces is a copy of a recorded write. *)
StoreKept ==
  /\ UNCHANGED <<rev, history>>
  /\ uids' \in {uids, uids + 1}
  /\ \A k \in Keys : files'[k] \in {files[k], ErrNotExist}

NewOnesNamed ==
  /\ \A m \in removals' : m \in removals \/ \E w \in history : Names(m.key, m.obj, w)
  /\ \A e \in events' : e \in events \/ \E w \in history : Names(e.key, e.obj, w)

(* Where r may be after such a step, with what in hand. *)
HoldsNew(r) ==
  /\ pc'[r] = "createWrite"
  /\ out'[r].version = NoVersion /\ arg'[r].version = NoVersion
  /\ ~out'[r].data.deleting
  /\ out'[r].data.uid = uids + 1 /\ uids' = uids + 1

HoldsUpdate(r) ==
  /\ pc'[r] = "updateWrite"
  /\ Based(r, arg[r].change.sub)'
  /\ arg'[r].version # NoVersion => arg'[r].version = out'[r].version

HoldsDelete(r) ==
  /\ pc'[r] = "deleteWrite"
  /\ Based(r, "delete")'
  /\ arg'[r].version = NoVersion
  /\ out'[r].data.finalizers # {}

HoldsCopy(r) ==
  /\ pc'[r] \in {"deleteRemove"} \cup EventTypes
  /\ \E w \in history : Names(arg'[r].key, out'[r], w)

HoldsNothing(r) == pc'[r] \in Replies \cup {"updateTry", "visit"}

HoldsLegal(r) ==
  HoldsNothing(r) \/ HoldsNew(r) \/ HoldsUpdate(r) \/ HoldsDelete(r) \/ HoldsCopy(r)

(* A step of a request that gives out no version, names what it announces or
   removes and takes only legal successors in hand keeps the invariant of the store. *)
LEMMA KeepStep ==
  ASSUME TypeInv, StoreInv, NEW r \in Requests, StoreKept, NewOnesNamed, OthersSame(r),
         HoldsLegal(r)
  PROVE  StoreInv'
<1>0. /\ pc'[r] = "createWrite" => HoldsNew(r)
      /\ pc'[r] = "updateWrite" => HoldsUpdate(r)
      /\ pc'[r] = "deleteWrite" => HoldsDelete(r)
      /\ pc'[r] \in {"updateRemove", "deleteRemove"} \cup EventTypes => HoldsCopy(r)
  BY Zenon DEF HoldsLegal, HoldsNothing, HoldsNew, HoldsUpdate, HoldsDelete, HoldsCopy,
         Replies, EventTypes, Added, Modified, Deleted
<1>1. uids \in Nat /\ uids <= uids' /\ history \subseteq WriteRecord
  BY DEF TypeInv, TypeOK, StoreKept
<1>2. HistoryOrdered'
  BY <1>1 DEF StoreInv, StoreKept, HistoryOrdered, WriteRecord, Object
<1>3. HistoryLegal' /\ OneUpdatePerVersion'
  BY Zenon DEF StoreInv, StoreKept, HistoryLegal, OneUpdatePerVersion
<1>4. FilesCurrent'
  BY DEF StoreInv, StoreKept, FilesCurrent, Exists, Names
<1>5. CreateFresh'
  <2> DEFINE Creating(q) == pc[q] = "createWrite"
  <2>1. \A q \in Requests : q # r /\ Creating(q)' =>
          /\ Creating(q) /\ arg'[q] = arg[q] /\ out'[q] = out[q]
          /\ out[q].version = NoVersion /\ arg[q].version = NoVersion
          /\ ~out[q].data.deleting
          /\ out[q].data.uid \in Nat /\ out[q].data.uid <= uids
          /\ \A w \in history : w.data.uid # out[q].data.uid
    BY Zenon DEF StoreInv, CreateFresh, OthersSame, TypeInv, LocalsSet, Holding, versionedData,
           Object
  <2>2. Creating(r)' =>
          /\ out'[r].version = NoVersion /\ arg'[r].version = NoVersion
          /\ ~out'[r].data.deleting
          /\ out'[r].data.uid = uids + 1 /\ uids' = uids + 1
    BY Zenon, <1>0 DEF HoldsNew
  <2>3. \A w \in history : w.data.uid \in Nat /\ w.data.uid <= uids
    BY Zenon, <1>1 DEF StoreInv, HistoryOrdered, WriteRecord, Object
  <2>4. \A p, q \in Requests :
          p # r /\ q # r /\ Creating(p) /\ Creating(q)
            /\ out[p].data.uid = out[q].data.uid => p = q
    BY Zenon DEF StoreInv, CreateFresh
  <2>5. ASSUME NEW q \in Requests, Creating(q)'
        PROVE  /\ out'[q].version = NoVersion
               /\ arg'[q].version = NoVersion
               /\ ~out'[q].data.deleting
               /\ out'[q].data.uid <= uids'
               /\ \A w \in history' : w.data.uid # out'[q].data.uid
    <3>1. CASE q = r
      BY <1>1, <2>2, <2>3, <2>5, <3>1 DEF StoreKept
    <3>2. CASE q # r
      BY <1>1, <2>1, <2>5, <3>2 DEF StoreKept
    <3>3. QED
      BY Zenon, <3>1, <3>2
  <2>6. ASSUME NEW p \in Requests, NEW q \in Requests, Creating(p)', Creating(q)',
               out'[p].data.uid = out'[q].data.uid
        PROVE  p = q
    <3>1. CASE p # r /\ q # r
      BY Zenon, <2>1, <2>4, <2>6, <3>1
    <3>2. CASE p = r /\ q # r
      BY <1>1, <2>1, <2>2, <2>6, <3>2
    <3>3. CASE p # r /\ q = r
      BY <1>1, <2>1, <2>2, <2>6, <3>3
    <3>4. QED
      BY Zenon, <3>1, <3>2, <3>3
  <2>7. QED
    BY Zenon, <2>5, <2>6 DEF CreateFresh
<1>6. WritersBased'
  <2> SUFFICES ASSUME NEW q \in Requests
               PROVE  /\ pc'[q] = "updateWrite" =>
                           /\ Based(q, arg[q].change.sub)'
                           /\ arg'[q].version # NoVersion
                                => arg'[q].version = out'[q].version
                      /\ pc'[q] = "deleteWrite" =>
                           /\ Based(q, "delete")'
                           /\ arg'[q].version = NoVersion
                           /\ out'[q].data.finalizers # {}
    BY Zenon DEF WritersBased
  <2>1. CASE q = r
    BY Zenon, <1>0, <2>1 DEF HoldsUpdate, HoldsDelete
  <2>2. CASE q # r
    BY ZenonT(40), <2>2 DEF StoreInv, StoreKept, OthersSame, WritersBased, Based
  <2>3. QED
    BY Zenon, <2>1, <2>2
<1>7. CopiesNamed'
  <2>1. ASSUME NEW q \in Requests,
               pc'[q] \in {"updateRemove", "deleteRemove"} \cup EventTypes
        PROVE  \E w \in history : Names(arg'[q].key, out'[q], w)
    <3>1. CASE q = r
      BY Zenon, <1>0, <2>1, <3>1 DEF HoldsCopy
    <3>2. CASE q # r
      BY Zenon, <2>1, <3>2 DEF StoreInv, OthersSame, CopiesNamed
    <3>3. QED
      BY Zenon, <3>1, <3>2
  <2>2. QED
    BY Zenon, <2>1 DEF StoreInv, StoreKept, NewOnesNamed, CopiesNamed, Names
<1>8. QED
  BY Zenon, <1>2, <1>3, <1>4, <1>5, <1>6, <1>7 DEF StoreInv

(* A step that touches no file and announces nothing. *)
LEMMA NothingStored ==
  ASSUME UNCHANGED <<files, rev, history, events, removals>>, uids' \in {uids, uids + 1}
  PROVE  StoreKept /\ NewOnesNamed
BY Zenon DEF StoreKept, NewOnesNamed

(* A request that answers keeps the invariant. *)
LEMMA ReturnKeeps ==
  ASSUME TypeInv, StoreInv, NEW r \in Requests, NEW reply \in Replies, Return(r, reply),
         StoreKept, NewOnesNamed
  PROVE  StoreInv'
<1>1. OthersSame(r) /\ HoldsLegal(r)
  BY Zenon, ReturnEffect DEF HoldsLegal, HoldsNothing
<1>2. QED
  BY Zenon, <1>1, KeepStep


(* An attempt of guaranteedUpdate answers, or holds a legal successor of the
   file as it is now. *)
LEMMA TryUpdateEffect ==
  ASSUME TypeInv, StoreInv, NEW r \in Requests, NEW a \in Arg, a.change \in Change,
         NEW n \in Nat, TryUpdate(r, a, n), UNCHANGED history
  PROVE  /\ OthersSame(r)
         /\ \/ pc'[r] \in Replies /\ pc'[r] # "InternalError"
            \/ /\ pc'[r] = "updateWrite" /\ arg'[r] = a /\ tries'[r] = n
               /\ Exists(a.key) /\ out'[r].version = files[a.key].version
               /\ Based(r, arg[r].change.sub)'
               /\ arg'[r].version # NoVersion => arg'[r].version = out'[r].version
<1> DEFINE input  == Read(a.key)
           asked  == UpdatedObject(a.change, a.version, input)
           output == BeforeUpdate(a.change.sub, asked.data, input.data)
           o      == [version |-> input.version, data |-> output]
<1>1. CASE \E reply \in Replies \ {"InternalError"} : Return(r, reply)
  BY Zenon, <1>1, ReturnEffect
<1>2. CASE /\ input # ErrNotExist
           /\ asked.version = input.version
           /\ ValidateObjectMetaAccessorUpdate(output, input.data)
           /\ Goto(r, "updateWrite", a, o, n)
  <2>1. a.key \in Keys /\ Exists(a.key) /\ input \in versionedData
    BY Zenon, <1>2, FileNamed DEF Read, Exists, Arg
  <2>2. asked \in versionedData
    BY Zenon, <2>1, UpdatedObjectType DEF Arg
  <2>3. Succeeds(a.change.sub, input.data, output)
    BY Zenon, <1>2, <2>1, <2>2, UpdateSucceeds DEF versionedData, Change
  <2>4. PICK b \in history : Names(a.key, input, b)
    BY Zenon, <2>1, FileNamed DEF Read
  <2>5. a.version # NoVersion => asked.version = a.version
    BY Zenon DEF UpdatedObject
  <2>6. /\ pc'[r] = "updateWrite" /\ arg'[r] = a /\ out'[r] = o /\ tries'[r] = n
        /\ OthersSame(r)
    BY Zenon, <1>2, GotoEffect
  <2>7. Based(r, arg[r].change.sub)'
    BY <2>3, <2>4, <2>6 DEF Based, Names
  <2>8. QED
    BY <1>2, <2>1, <2>5, <2>6, <2>7 DEF Read
<1>3. QED
  BY Zenon, <1>1, <1>2 DEF TryUpdate, Replies, getResourceVersion

(* fs.Remove takes away at most one file, and records a state that was written. *)
LEMMA RemoveFileEffect ==
  ASSUME TypeInv, StoreInv, NEW k \in Keys, Exists(k), NEW o, NEW via,
         RemoveFile(k, o, via)
  PROVE  /\ UNCHANGED rev
         /\ files'[k] = ErrNotExist
         /\ \A j \in Keys : j # k => files'[j] = files[j]
         /\ \E m \in removals' : m.key = k /\ m.obj = files[k]
         /\ removals \subseteq removals'
         /\ \A m \in removals' :
              \/ m \in removals
              \/ /\ m.key = k /\ m.obj = files[k]
                 /\ \E w \in history : Names(m.key, m.obj, w)
<1>1. /\ UNCHANGED rev
      /\ files' = [files EXCEPT ![k] = ErrNotExist]
      /\ removals' = removals \cup {[key |-> k, obj |-> files[k], claimed |-> o, via |-> via]}
  BY Zenon DEF RemoveFile, Remove
<1>2. \E w \in history : Names(k, files[k], w)
  BY Zenon, FileNamed
<1>3. files'[k] = ErrNotExist /\ \A j \in Keys : j # k => files'[j] = files[j]
  BY Zenon, <1>1 DEF TypeInv, TypeOK
<1> DEFINE n == [key |-> k, obj |-> files[k], claimed |-> o, via |-> via]
<1>4. n \in removals' /\ n.key = k /\ n.obj = files[k]
  BY Zenon, <1>1
<1>5. \A m \in removals' : m \in removals \/ (m.key = k /\ m.obj = files[k])
  BY <1>1
<1>6. QED
  BY Zenon, <1>1, <1>2, <1>3, <1>4, <1>5

LEMMA RemoveOutEffect ==
  ASSUME TypeInv, StoreInv, NEW r \in Requests, pc[r] \in Holding, NEW via,
         RemoveOut(r, via)
  PROVE  /\ UNCHANGED <<rev, uids, events, history, born>>
         /\ arg[r] \in Arg /\ arg[r].key \in Keys
         /\ files'[arg[r].key] = ErrNotExist
         /\ \A j \in Keys : j # arg[r].key => files'[j] = files[j]
         /\ Exists(arg[r].key) =>
              \E m \in removals' : m.key = arg[r].key /\ m.obj = files[arg[r].key]
         /\ removals \subseteq removals'
         /\ \A m \in removals' :
              \/ m \in removals
              \/ /\ Exists(arg[r].key) /\ m.key = arg[r].key /\ m.obj = files[arg[r].key]
                 /\ \E w \in history : Names(m.key, m.obj, w)
         /\ OthersSame(r)
         /\ \/ pc'[r] = "NotFound"
            \/ pc'[r] = Deleted /\ arg'[r] = arg[r] /\ out'[r] = out[r]
<1> DEFINE k == arg[r].key
<1>1. arg[r] \in Arg /\ k \in Keys /\ UNCHANGED <<uids, events, history, born>>
  BY Zenon DEF TypeInv, LocalsSet, Arg, RemoveOut
<1>2. CASE Exists(k) /\ RemoveFile(k, out[r], via) /\ Goto(r, Deleted, arg[r], out[r], tries[r])
  <2>1. /\ UNCHANGED rev
        /\ files'[k] = ErrNotExist
        /\ \A j \in Keys : j # k => files'[j] = files[j]
        /\ \E m \in removals' : m.key = k /\ m.obj = files[k]
        /\ removals \subseteq removals'
        /\ \A m \in removals' :
             \/ m \in removals
             \/ /\ m.key = k /\ m.obj = files[k]
                /\ \E w \in history : Names(m.key, m.obj, w)
    BY Zenon, <1>1, <1>2, RemoveFileEffect
  <2>2. /\ pc'[r] = Deleted /\ arg'[r] = arg[r] /\ out'[r] = out[r]
        /\ OthersSame(r)
    BY Zenon, <1>2, GotoEffect
  <2>3. QED
    BY Zenon, <1>1, <1>2, <2>1, <2>2
<1>3. CASE ~Exists(k) /\ Return(r, "NotFound") /\ UNCHANGED <<fsVars, removals>>
  BY Zenon, <1>1, <1>3, ReturnEffect DEF fsVars, Exists
<1>4. QED
  BY Zenon, <1>2, <1>3 DEF RemoveOut

LEMMA StoreInit == Init => StoreInv
<1> SUFFICES ASSUME Init PROVE StoreInv
  BY Zenon
<1>1. history = {} /\ events = {} /\ removals = {} /\ \A k \in Keys : ~Exists(k)
  BY Zenon DEF Init, NewMemoryFS, Exists
<1>2. \A r \in Requests : pc[r] = "idle"
  BY Zenon DEF Init
<1>3. HistoryOrdered /\ HistoryLegal /\ FilesCurrent /\ OneUpdatePerVersion
  BY Zenon, <1>1 DEF HistoryOrdered, HistoryLegal, FilesCurrent, OneUpdatePerVersion
<1>4. CreateFresh /\ WritersBased /\ CopiesNamed
  BY Zenon, <1>1, <1>2 DEF CreateFresh, WritersBased, CopiesNamed, EventTypes, Added, Modified,
       Deleted
<1>5. QED
  BY Zenon, <1>3, <1>4 DEF StoreInv

LEMMA StoreNext == TypeInv /\ StoreInv /\ [Next]_vars => StoreInv'
<1> SUFFICES ASSUME TypeInv, StoreInv, [Next]_vars PROVE StoreInv'
  BY Zenon
<1> USE RESTAssumption
<1>1. ASSUME NEW r \in Requests, NEW k \in Keys, NEW d \in Drafts, Create(r, k, d)
      PROVE  StoreInv'
  <2> DEFINE a == [key |-> k, change |-> Nil, version |-> NoVersion]
             o == [version |-> NoVersion,
                   data |-> FillObjectMetaSystemFields(d, uids + 1)]
  <2>1. StoreKept /\ NewOnesNamed /\ uids' = uids + 1
    BY Zenon, <1>1, NothingStored DEF Create, fsVars, ghosts
  <2>2. CASE Return(r, "AlreadyExists")
    BY Zenon, <2>1, <2>2, ReturnKeeps DEF Replies
  <2>3. CASE Goto(r, "createWrite", a, o, 0)
    <3>1. d \in Draft /\ uids + 1 \in Nat
      BY DEF TypeInv, TypeOK
    <3>2. o.data.uid = uids + 1 /\ ~o.data.deleting
      BY Zenon, <3>1, FillType
    <3>3. OthersSame(r) /\ HoldsNew(r)
      BY <2>1, <2>3, <3>2, GotoEffect DEF HoldsNew
    <3>4. QED
      BY Zenon, <2>1, <3>3, KeepStep DEF HoldsLegal
  <2>4. QED
    BY Zenon, <1>1, <2>2, <2>3 DEF Create
<1>2. ASSUME NEW r \in Requests, CreateWrite(r)
      PROVE  StoreInv'
  <2>1. pc[r] \in Writing /\ WriteOut(r, WriterVia(r))
    BY Zenon, <1>2 DEF CreateWrite, Writing, WriterVia
  <2>2. CASE Accepted(r) /\ Proceed(r, Added)
    <3>1. Goto(r, Added, arg[r], Written(r), tries[r])
      BY Zenon, <2>2 DEF Proceed, Written
    <3>2. OthersSame(r) /\ WriteAnswered(r)
      BY Zenon, <2>2, <3>1, GotoEffect DEF WriteAnswered, EventTypes
    <3>3. QED
      BY Zenon, <2>1, <3>2, WriteStep
  <2>3. CASE Return(r, "Conflict")
    BY Zenon, <2>1, <2>3, ReturnEffect, WriteStep DEF WriteAnswered, Replies
  <2>4. QED
    BY Zenon, <1>2, <2>2, <2>3 DEF CreateWrite
<1>3. ASSUME NEW r \in Requests, NEW k \in Keys, NEW c \in Changes, NEW v \in 0..rev,
             Update(r, k, c, v)
      PROVE  StoreInv'
  <2> DEFINE a == [key |-> k, change |-> c, version |-> v]
  <2>1. a \in Arg /\ a.change \in Change
    BY DEF Arg
  <2>2. StoreKept /\ NewOnesNamed /\ UNCHANGED history /\ TryUpdate(r, a, 0)
    BY Zenon, <1>3, NothingStored DEF Update, fsVars, ghosts
  <2>3. OthersSame(r) /\ HoldsLegal(r)
    BY Zenon, <2>1, <2>2, TryUpdateEffect DEF HoldsLegal, HoldsNothing, HoldsUpdate
  <2>4. QED
    BY Zenon, <2>2, <2>3, KeepStep
<1>4. ASSUME NEW r \in Requests, UpdateRetry(r)
      PROVE  StoreInv'
  <2>1. arg[r] \in Arg /\ arg[r].change \in Change /\ tries[r] \in Nat
    BY Zenon, <1>4 DEF UpdateRetry, TypeInv, TypeOK, LocalsSet
  <2>2. StoreKept /\ NewOnesNamed /\ UNCHANGED history /\ TryUpdate(r, arg[r], tries[r])
    BY Zenon, <1>4, NothingStored DEF UpdateRetry, fsVars, ghosts
  <2>3. OthersSame(r) /\ HoldsLegal(r)
    BY Zenon, <2>1, <2>2, TryUpdateEffect DEF HoldsLegal, HoldsNothing, HoldsUpdate
  <2>4. QED
    BY Zenon, <2>2, <2>3, KeepStep
<1>5. ASSUME NEW r \in Requests, UpdateWrite(r)
      PROVE  StoreInv'
  <2>1. pc[r] \in Writing /\ WriteOut(r, WriterVia(r))
    BY Zenon, <1>5 DEF UpdateWrite, Writing, WriterVia
  <2>2. CASE Accepted(r) /\ \E label \in {"updateRemove", Modified} : Proceed(r, label)
    <3>1. \E label \in {"updateRemove"} \cup EventTypes :
            Goto(r, label, arg[r], Written(r), tries[r])
      BY Zenon, <2>2 DEF Proceed, Written, EventTypes
    <3>2. OthersSame(r) /\ WriteAnswered(r)
      BY Zenon, <2>2, <3>1, GotoEffect DEF WriteAnswered
    <3>3. QED
      BY <2>1, <3>2, WriteStep
  <2>3. CASE \E reply \in Replies : Return(r, reply)
    BY Zenon, <2>1, <2>3, ReturnEffect, WriteStep DEF WriteAnswered
  <2>4. CASE Goto(r, "updateTry", arg[r], Nil, tries[r] + 1)
    BY Zenon, <2>1, <2>4, GotoEffect, WriteStep DEF WriteAnswered
  <2>5. QED
    BY Zenon, <1>5, <2>2, <2>3, <2>4 DEF UpdateWrite, AfterUpdate, Replies
<1>6. ASSUME NEW r \in Requests, UpdateRemove(r) \/ DeleteRemove(r)
      PROVE  StoreInv'
  <2>1. /\ pc[r] \in {"updateRemove", "deleteRemove"} /\ pc[r] \in Holding
        /\ \E via \in {"update", "delete"} : RemoveOut(r, via)
    BY Zenon, <1>6 DEF UpdateRemove, DeleteRemove, Holding
  <2>2. \E w \in history : Names(arg[r].key, out[r], w)
    BY Zenon, <2>1 DEF StoreInv, CopiesNamed
  <2>3. StoreKept /\ NewOnesNamed /\ OthersSame(r)
    BY Zenon, <2>1, RemoveOutEffect DEF StoreKept, NewOnesNamed
  <2>4. HoldsNothing(r) \/ HoldsCopy(r)
    BY Zenon, <2>1, <2>2, RemoveOutEffect DEF HoldsNothing, HoldsCopy, Replies, EventTypes
  <2>5. QED
    BY Zenon, <2>3, <2>4, KeepStep DEF HoldsLegal
<1>7. ASSUME NEW r \in Requests, NEW k \in Keys, Delete(r, k)
      PROVE  StoreInv'
  <2> DEFINE a == [key |-> k, change |-> Nil, version |-> NoVersion]
             o == [files[k] EXCEPT !.data.deleting = TRUE]
  <2>1. StoreKept /\ NewOnesNamed /\ UNCHANGED history
    BY Zenon, <1>7, NothingStored DEF Delete, fsVars, ghosts
  <2>2. CASE Return(r, "NotFound")
    BY Zenon, <2>1, <2>2, ReturnKeeps DEF Replies
  <2>3. CASE /\ files[k] # ErrNotExist
             /\ files[k].data.finalizers # {}
             /\ Goto(r, "deleteWrite", a, o, 0)
    <3>1. files[k] \in versionedData
      BY Zenon, <2>3 DEF TypeInv, TypeOK, File
    <3>2. PICK b \in history : Names(k, files[k], b)
      BY Zenon, <2>3, FileNamed DEF Exists
    <3>3. /\ o.version = files[k].version
          /\ o.data.finalizers = files[k].data.finalizers
          /\ Succeeds("delete", files[k].data, o.data)
      BY Zenon, <3>1, DeleteSucceeds
    <3>4. /\ pc'[r] = "deleteWrite" /\ arg'[r] = a /\ out'[r] = o
          /\ OthersSame(r)
      BY <2>3, GotoEffect
    <3>5. Based(r, "delete")'
      BY <2>1, <3>2, <3>3, <3>4 DEF Based, Names
    <3>6. HoldsDelete(r)
      BY <2>3, <3>3, <3>4, <3>5 DEF HoldsDelete
    <3>7. QED
      BY Zenon, <2>1, <3>4, <3>6, KeepStep DEF HoldsLegal
  <2>4. CASE files[k] # ErrNotExist /\ Goto(r, "deleteRemove", a, files[k], 0)
    <3>1. \E w \in history : Names(k, files[k], w)
      BY Zenon, <2>4, FileNamed DEF Exists
    <3>2. OthersSame(r) /\ HoldsCopy(r)
      BY <2>4, <3>1, GotoEffect DEF HoldsCopy
    <3>3. QED
      BY Zenon, <2>1, <3>2, KeepStep DEF HoldsLegal
  <2>5. QED
    BY Zenon, <1>7, <2>2, <2>3, <2>4 DEF Delete, Read
<1>8. ASSUME NEW r \in Requests, DeleteWrite(r)
      PROVE  StoreInv'
  <2>1. pc[r] \in Writing /\ WriteOut(r, WriterVia(r))
    BY Zenon, <1>8 DEF DeleteWrite, Writing, WriterVia
  <2>2. CASE Accepted(r) /\ Proceed(r, Modified)
    <3>1. Goto(r, Modified, arg[r], Written(r), tries[r])
      BY <2>2 DEF Proceed, Written
    <3>2. OthersSame(r) /\ WriteAnswered(r)
      BY Zenon, <2>2, <3>1, GotoEffect DEF WriteAnswered, EventTypes
    <3>3. QED
      BY <2>1, <3>2, WriteStep
  <2>3. CASE \E reply \in Replies : Return(r, reply)
    BY <2>1, <2>3, ReturnEffect, WriteStep DEF WriteAnswered
  <2>4. QED
    BY Zenon, <1>8, <2>2, <2>3 DEF DeleteWrite, Replies
<1>9. ASSUME NEW r \in Requests, NEW dir \in Dirs, NEW sel \in Selectors,
             DeleteCollection(r, dir, sel)
      PROVE  StoreInv'
  <2>1. StoreKept /\ NewOnesNamed
    BY Zenon, <1>9, NothingStored DEF DeleteCollection, fsVars, ghosts
  <2>2. OthersSame(r) /\ HoldsLegal(r)
    BY Zenon, <1>9 DEF DeleteCollection, TypeInv, TypeOK, OthersSame, HoldsLegal, HoldsNothing
  <2>3. QED
    BY Zenon, <2>1, <2>2, KeepStep
<1>10. ASSUME NEW r \in Requests, Visit(r)
       PROVE  StoreInv'
  <2>1. PICK i \in todo[r] :
          \/ Exists(i.key) /\ RemoveFile(i.key, i.obj, "collection")
          \/ ~Exists(i.key) /\ UNCHANGED <<fsVars, removals>>
    BY Zenon, <1>10 DEF Visit
  <2>2. UNCHANGED <<uids, events, history>> /\ OthersSame(r) /\ HoldsLegal(r)
    BY Zenon, <1>10 DEF Visit, OthersSame, HoldsLegal, HoldsNothing
  <2>3. i.key \in Keys
    BY DEF TypeInv, TypeOK, Item
  <2>4. CASE Exists(i.key) /\ RemoveFile(i.key, i.obj, "collection")
    <3>1. StoreKept /\ NewOnesNamed
      BY Zenon, <2>2, <2>3, <2>4, RemoveFileEffect DEF StoreKept, NewOnesNamed
    <3>2. QED
      BY Zenon, <2>2, <3>1, KeepStep
  <2>5. CASE UNCHANGED <<fsVars, removals>>
    BY Zenon, <2>2, <2>5, NothingStored, KeepStep DEF fsVars
  <2>6. QED
    BY Zenon, <2>1, <2>4, <2>5
<1>11. ASSUME NEW r \in Requests, VisitDone(r) \/ Refuse(r)
       PROVE  StoreInv'
  <2>1. StoreKept /\ NewOnesNamed
    BY Zenon, <1>11, NothingStored DEF VisitDone, Refuse, fsVars, ghosts
  <2>2. \E reply \in Replies : Return(r, reply)
    BY Zenon, <1>11 DEF VisitDone, Refuse, Replies
  <2>3. QED
    BY Zenon, <2>1, <2>2, ReturnKeeps
<1>12. ASSUME NEW r \in Requests, Notify(r)
       PROVE  StoreInv'
  <2> DEFINE e == [type |-> pc[r], key |-> arg[r].key, obj |-> out[r]]
  <2>1. UNCHANGED <<files, rev, history, removals, uids>> /\ events' = events \cup {e}
    BY Zenon, <1>12 DEF Notify, fsVars, ghosts
  <2>2. \E w \in history : Names(arg[r].key, out[r], w)
    BY Zenon, <1>12 DEF Notify, StoreInv, CopiesNamed
  <2>3. StoreKept /\ NewOnesNamed
    BY <2>1, <2>2 DEF StoreKept, NewOnesNamed
  <2>4. Return(r, "ok") /\ "ok" \in Replies
    BY Zenon, <1>12 DEF Notify, Replies
  <2>5. QED
    BY Zenon, <2>3, <2>4, ReturnKeeps
<1>13. CASE UNCHANGED vars
  <2>1. UNCHANGED <<files, rev, uids, pc, arg, out, events, history, removals>>
    BY Zenon, <1>13 DEF vars, reqVars, ghosts
  <2>2. (HistoryOrdered /\ HistoryLegal /\ FilesCurrent /\ OneUpdatePerVersion)'
    BY <2>1 DEF StoreInv, HistoryOrdered, HistoryLegal, FilesCurrent, OneUpdatePerVersion,
         Exists, Names
  <2>3. CreateFresh'
    BY Zenon, <2>1 DEF StoreInv, CreateFresh
  <2>4. WritersBased'
    BY Zenon, <2>1 DEF StoreInv, WritersBased, Based
  <2>5. CopiesNamed'
    BY Zenon, <2>1 DEF StoreInv, CopiesNamed, Names
  <2>6. QED
    BY Zenon, <2>2, <2>3, <2>4, <2>5 DEF StoreInv
<1>14. QED
  BY Zenon, <1>1, <1>2, <1>3, <1>4, <1>5, <1>6, <1>7, <1>8, <1>9, <1>10, <1>11, <1>12, <1>13
     DEF Next, RequestStep, Answered

LEMMA StoreCorrect == Spec => [](TypeInv /\ StoreInv)
BY TypeInit, TypeNext, StoreInit, StoreNext, PTL DEF Spec

(* Only one update per input resourceVersion is ever accepted: for any number
   of concurrent requests, over any objects. *)
THEOREM OneUpdate == Spec => []OneUpdatePerVersion
<1>1. StoreInv => OneUpdatePerVersion
  BY Zenon DEF StoreInv
<1>2. QED
  BY <1>1, StoreCorrect, PTL

(* A resourceVersion names one state of one object, in the store, in events
   and in the record of writes. *)
THEOREM VersionsNameStates == Spec => []VersionNamesState
<1>1. StoreInv => VersionNamesState
  BY Zenon DEF StoreInv, VersionNamesState, HistoryOrdered, FilesCurrent, CopiesNamed
<1>2. QED
  BY <1>1, StoreCorrect, PTL

(* Updates of the main resource and of the status subresource, and deletes,
   leave alone what belongs to the others. *)
THEOREM SubresourcesIsolated == Spec => []SubresourceIsolation
<1>1. StoreInv => SubresourceIsolation
  BY Zenon DEF StoreInv, SubresourceIsolation, HistoryLegal, Succeeds
<1>2. QED
  BY <1>1, StoreCorrect, PTL

(* Along every chain of versions the UID stays, a deletion timestamp stays set
   and no finalizer is added once it is. *)
THEOREM DeletionsAreFinal == Spec => []DeletionIsFinal
<1>1. TypeInv /\ StoreInv => DeletionIsFinal
  <2> SUFFICES ASSUME TypeInv, StoreInv, NEW w \in history, NEW b \in history,
                      b.version = w.base
               PROVE  /\ w.data.uid = b.data.uid
                      /\ b.data.deleting => /\ w.data.deleting
                                            /\ w.data.finalizers \subseteq b.data.finalizers
    BY Zenon DEF DeletionIsFinal
  <2>1. b.version # NoVersion
    BY DEF TypeInv, TypeOK, WriteRecord, StoreInv, HistoryOrdered, NoVersion
  <2>2. w.via # "create"
    BY Zenon, <2>1 DEF StoreInv, HistoryLegal
  <2>3. PICK c \in history : c.version = w.base /\ Succeeds(w.via, c.data, w.data)
    BY Zenon, <2>2 DEF StoreInv, HistoryLegal
  <2>4. c = b
    BY Zenon, <2>3 DEF StoreInv, HistoryOrdered
  <2>5. QED
    BY Zenon, <2>3, <2>4 DEF Succeeds
<1>2. QED
  BY <1>1, StoreCorrect, PTL

-----------------------------------------------------------------------------
(* The three things that a step can do to the store. *)
NothingMoves == UNCHANGED <<files, history, removals>>

Writes(k, n) ==
  /\ UNCHANGED removals
  /\ history' = history \cup {n}
  /\ n.key = k
  /\ files'[k] # ErrNotExist /\ files'[k].data.uid = n.data.uid
  /\ \A j \in Keys : j # k => files'[j] = files[j]
  /\ \/ ~Exists(k) /\ \A w \in history : w.data.uid # n.data.uid
     \/ Exists(k) /\ n.via # "create" /\ n.data.uid = files[k].data.uid

Removes(k, m) ==
  /\ UNCHANGED history
  /\ removals' = removals \cup {m}
  /\ Exists(k) /\ m.obj = files[k]
  /\ files'[k] = ErrNotExist
  /\ \A j \in Keys : j # k => files'[j] = files[j]

Moves == \/ NothingMoves
         \/ \E k \in Keys : \E n : Writes(k, n)
         \/ \E k \in Keys : \E m : Removes(k, m)

LEMMA WriteMoves ==
  ASSUME TypeInv, StoreInv, NEW r \in Requests, pc[r] \in Writing,
         WriteOut(r, WriterVia(r))
  PROVE  Moves
<1>1. pc[r] \in Holding
  BY Zenon DEF Writing, Holding
<1>2. CASE OutResult(r) # "written"
  BY ZenonT(40), <1>1, <1>2, WriteEffect DEF Moves, NothingMoves
<1>3. CASE OutResult(r) = "written"
  <2>1. PICK n : /\ history' = history \cup {n}
                 /\ n.key = arg[r].key /\ n.data = out[r].data /\ n.via = WriterVia(r)
    BY <1>1, <1>3, WriteRecorded
  <2>2. /\ arg[r].key \in Keys /\ UNCHANGED removals
        /\ files'[arg[r].key].data = out[r].data
        /\ \A j \in Keys : j # arg[r].key => files'[j] = files[j]
    BY ZenonT(40), <1>1, <1>3, WriteEffect, WriteRecorded DEF Arg
  <2>3. files'[arg[r].key] # ErrNotExist
    BY Zenon, <1>3, AcceptedWritten DEF Accepted
  <2>4. \/ ~Exists(arg[r].key) /\ \A w \in history : w.data.uid # out[r].data.uid
        \/ /\ Exists(arg[r].key) /\ pc[r] # "createWrite"
           /\ out[r].data.uid = files[arg[r].key].data.uid
    BY Zenon, <1>3, WriteBase DEF Succeeds
  <2>5. pc[r] # "createWrite" => WriterVia(r) # "create"
    BY Zenon, WriterViaType
  <2>6. Writes(arg[r].key, n)
    BY Zenon, <2>1, <2>2, <2>3, <2>4, <2>5 DEF Writes
  <2>7. QED
    BY Zenon, <2>2, <2>6 DEF Moves, Writes
<1>4. QED
  BY Zenon, <1>2, <1>3

LEMMA RemoveMoves ==
  ASSUME TypeInv, NEW k \in Keys, Exists(k), NEW o, NEW via, RemoveFile(k, o, via),
         UNCHANGED history
  PROVE  Moves
<1> DEFINE m == [key |-> k, obj |-> files[k], claimed |-> o, via |-> via]
<1>1. /\ files' = [files EXCEPT ![k] = ErrNotExist]
      /\ removals' = removals \cup {m} /\ m.obj = files[k]
  BY Zenon DEF RemoveFile, Remove
<1>2. files'[k] = ErrNotExist /\ \A j \in Keys : j # k => files'[j] = files[j]
  BY Zenon, <1>1 DEF TypeInv, TypeOK
<1> HIDE DEF m
<1>3. Removes(k, m)
  BY Zenon, <1>1, <1>2 DEF Removes
<1>4. QED
  BY Zenon, <1>3 DEF Moves

(* Every step is one of the three. *)
LEMMA StepMoves == TypeInv /\ StoreInv /\ [Next]_vars => Moves
<1> SUFFICES ASSUME TypeInv, StoreInv, [Next]_vars PROVE Moves
  BY Zenon
<1>1. ASSUME NEW r \in Requests, CreateWrite(r) \/ UpdateWrite(r) \/ DeleteWrite(r)
      PROVE  Moves
  <2>1. pc[r] \in Writing /\ WriteOut(r, WriterVia(r))
    BY Zenon, <1>1 DEF CreateWrite, UpdateWrite, DeleteWrite, Writing, WriterVia
  <2>2. QED
    BY Zenon, <2>1, WriteMoves
<1>2. ASSUME NEW r \in Requests, UpdateRemove(r) \/ DeleteRemove(r)
      PROVE  Moves
  <2>1. PICK via : pc[r] \in Holding /\ RemoveOut(r, via)
    BY Zenon, <1>2 DEF UpdateRemove, DeleteRemove, Holding
  <2>2. arg[r].key \in Keys /\ UNCHANGED history
    BY ZenonT(40), <2>1 DEF TypeInv, LocalsSet, Arg, RemoveOut
  <2>3. CASE Exists(arg[r].key) /\ RemoveFile(arg[r].key, out[r], via)
    BY Zenon, <2>2, <2>3, RemoveMoves
  <2>4. CASE UNCHANGED <<fsVars, removals>>
    BY Zenon, <2>2, <2>4 DEF Moves, NothingMoves, fsVars
  <2>5. QED
    BY Zenon, <2>1, <2>3, <2>4 DEF RemoveOut
<1>3. ASSUME NEW r \in Requests, Visit(r)
      PROVE  Moves
  <2>1. PICK i \in todo[r] :
          \/ Exists(i.key) /\ RemoveFile(i.key, i.obj, "collection")
          \/ ~Exists(i.key) /\ UNCHANGED <<fsVars, removals>>
    BY Zenon, <1>3 DEF Visit
  <2>2. i.key \in Keys /\ UNCHANGED history
    BY <1>3 DEF TypeInv, TypeOK, Item, Visit
  <2>3. QED
    BY Zenon, <2>1, <2>2, RemoveMoves DEF fsVars, Moves, NothingMoves
<1>4. ASSUME NEW r \in Requests,
             \/ \E k \in Keys, d \in Drafts : Create(r, k, d)
             \/ \E k \in Keys, c \in Changes, v \in 0..rev : Update(r, k, c, v)
             \/ UpdateRetry(r)
             \/ \E k \in Keys : Delete(r, k)
             \/ \E dir \in Dirs, sel \in Selectors : DeleteCollection(r, dir, sel)
             \/ VisitDone(r)
             \/ Notify(r)
             \/ Refuse(r)
      PROVE  NothingMoves
  BY Zenon, <1>4 DEF Create, Update, UpdateRetry, Delete, DeleteCollection, VisitDone, Notify,
              Refuse, NothingMoves, fsVars, ghosts
<1>5. CASE UNCHANGED vars
  BY Zenon, <1>5 DEF vars, ghosts, Moves, NothingMoves
<1>6. QED
  BY Zenon, <1>1, <1>2, <1>3, <1>4, <1>5 DEF Next, RequestStep, Answered, Moves

-----------------------------------------------------------------------------
(* What is removed has been written; two keys never hold objects with one UID. *)
LEMMA RemovedNamed ==
  ASSUME StoreInv, NEW uid, Removed(uid)
  PROVE  \E w \in history : w.data.uid = uid
BY Zenon DEF StoreInv, CopiesNamed, Names, Removed

LEMMA UIDsApart ==
  ASSUME TypeInv, StoreInv, NEW j \in Keys, NEW k \in Keys, Exists(j), Exists(k),
         files[j].data.uid = files[k].data.uid
  PROVE  j = k
<1>1. PICK v \in history : Names(j, files[j], v)
  BY Zenon, FileNamed
<1>2. PICK w \in history : Names(k, files[k], w)
  BY Zenon, FileNamed
<1>3. QED
  BY <1>1, <1>2 DEF Names, StoreInv, HistoryOrdered

(* No zombies, one step. *)
LEMMA NoZombieNext == TypeInv /\ StoreInv /\ NoZombie /\ Moves => NoZombie'
<1> SUFFICES ASSUME TypeInv, StoreInv, NoZombie, Moves, NEW j \in Keys, Exists(j)'
             PROVE  ~Removed(files[j].data.uid)'
  BY Zenon DEF NoZombie
<1>1. CASE NothingMoves
  BY Zenon, <1>1 DEF NothingMoves, NoZombie, Removed, Exists
<1>2. ASSUME NEW k \in Keys, NEW n, Writes(k, n)
      PROVE  ~Removed(files[j].data.uid)'
  <2>1. ~Removed(files'[j].data.uid)
    <3>1. CASE j # k
      BY Zenon, <1>2, <3>1 DEF Writes, NoZombie, Exists
    <3>2. CASE j = k /\ Exists(k)
      BY Zenon, <1>2, <3>2 DEF Writes, NoZombie
    <3>3. CASE j = k /\ ~Exists(k)
      BY Zenon, <1>2, <3>3, RemovedNamed DEF Writes
    <3>4. QED
      BY Zenon, <3>1, <3>2, <3>3
  <2>2. QED
    BY Zenon, <1>2, <2>1 DEF Writes, Removed
<1>3. ASSUME NEW k \in Keys, NEW m, Removes(k, m)
      PROVE  ~Removed(files[j].data.uid)'
  <2>1. j # k /\ files'[j] = files[j] /\ Exists(j) /\ Exists(k)
    BY Zenon, <1>3 DEF Removes, Exists
  <2>2. files[j].data.uid # files[k].data.uid /\ ~Removed(files[j].data.uid)
    BY Zenon, <2>1, UIDsApart DEF NoZombie
  <2>3. QED
    BY Zenon, <1>3, <2>1, <2>2 DEF Removes, Removed
<1>4. QED
  BY Zenon, <1>1, <1>2, <1>3 DEF Moves

(* Objects survive, one step: what was written is in the store, in this or a later
   version, or was removed. *)
ObjectsSurvive ==
  \A w \in history : \/ Exists(w.key) /\ files[w.key].data.uid = w.data.uid
                     \/ Removed(w.data.uid)

LEMMA SurvivalNext == TypeInv /\ StoreInv /\ ObjectsSurvive /\ Moves => ObjectsSurvive'
<1> SUFFICES ASSUME TypeInv, StoreInv, ObjectsSurvive, Moves, NEW w \in history'
             PROVE  \/ files'[w.key] # ErrNotExist /\ files'[w.key].data.uid = w.data.uid
                    \/ \E m \in removals' : m.obj.data.uid = w.data.uid
  BY Zenon DEF ObjectsSurvive, Exists, Removed
<1>0. w \in history => w.key \in Keys
  BY Zenon DEF TypeInv, TypeOK, WriteRecord
<1>1. w \in history =>
        \/ Exists(w.key) /\ files[w.key].data.uid = w.data.uid
        \/ \E m \in removals : m.obj.data.uid = w.data.uid
  BY Zenon DEF ObjectsSurvive, Removed
<1>2. CASE NothingMoves
  BY Zenon, <1>1, <1>2 DEF NothingMoves, Exists
<1>3. ASSUME NEW k \in Keys, NEW n, Writes(k, n)
      PROVE  \/ files'[w.key] # ErrNotExist /\ files'[w.key].data.uid = w.data.uid
             \/ \E m \in removals' : m.obj.data.uid = w.data.uid
  <2>1. CASE w = n
    BY Zenon, <1>3, <2>1 DEF Writes
  <2>2. CASE w # n /\ w.key = k
    BY Zenon, <1>1, <1>3, <2>2 DEF Writes
  <2>3. CASE w # n /\ w.key # k
    BY Zenon, <1>0, <1>1, <1>3, <2>3 DEF Writes, Exists
  <2>4. QED
    BY Zenon, <2>1, <2>2, <2>3
<1>4. ASSUME NEW k \in Keys, NEW m, Removes(k, m)
      PROVE  \/ files'[w.key] # ErrNotExist /\ files'[w.key].data.uid = w.data.uid
             \/ \E x \in removals' : x.obj.data.uid = w.data.uid
  BY Zenon, <1>0, <1>1, <1>4 DEF Removes, Exists
<1>5. QED
  BY Zenon, <1>2, <1>3, <1>4 DEF Moves

LEMMA Survival == Spec => []ObjectsSurvive
<1>1. Init => ObjectsSurvive
  BY Zenon DEF Init, ObjectsSurvive
<1>2. TypeInv /\ StoreInv /\ [Next]_vars /\ ObjectsSurvive => ObjectsSurvive'
  BY Zenon, StepMoves, SurvivalNext
<1>3. QED
  BY <1>1, <1>2, StoreCorrect, PTL DEF Spec

-----------------------------------------------------------------------------
(* No zombie update: an object that has been removed, by whichever handler, never
   comes back. *)
THEOREM NoZombies == Spec => []NoZombie
<1>1. Init => NoZombie
  BY Zenon DEF Init, NewMemoryFS, NoZombie, Exists
<1>2. TypeInv /\ StoreInv /\ [Next]_vars /\ NoZombie => NoZombie'
  BY Zenon, StepMoves, NoZombieNext
<1>3. QED
  BY <1>1, <1>2, StoreCorrect, PTL DEF Spec

(* An accepted Create is not overwritten by another: its object is in the store
   until it is removed. *)
THEOREM CreatedSurvive == Spec => []CreatedObjectsSurvive
<1>1. ObjectsSurvive => CreatedObjectsSurvive
  BY Zenon DEF ObjectsSurvive, CreatedObjectsSurvive
<1>2. QED
  BY <1>1, Survival, PTL

-----------------------------------------------------------------------------
(* What a step of request r does, seen from the others: it reads the store, answers
   or announces; it writes; it removes; or it visits a file of a collection. *)
Announcement(r) == [type |-> pc[r], key |-> arg[r].key, obj |-> out[r]]

Reads(r) ==
  /\ UNCHANGED <<files, rev, history, removals, reported>>
  /\ pc[r] # "updateRemove"
  /\ pc[r] \in EventTypes => Announcement(r) \in events'
  /\ \/ pc'[r] \in Replies \ {"InternalError"}
     \/ pc'[r] \in {"createWrite", "deleteWrite", "deleteRemove", "visit"}
     \/ /\ pc'[r] = "updateWrite"
        /\ out'[r].version = files[arg'[r].key].version
        /\ \/ born'[r] = rev /\ tries'[r] = 0
           \/ pc[r] = "updateTry" /\ born'[r] = born[r] /\ tries'[r] = tries[r]

WritesOut(r) ==
  /\ pc[r] \in Writing
  /\ WriteOut(r, WriterVia(r))
  /\ \/ /\ Accepted(r)
        /\ pc'[r] = IF pc[r] = "updateWrite" /\ Drained(out[r].data) THEN "updateRemove"
                    ELSE IF pc[r] = "createWrite" THEN Added
                    ELSE Modified
        /\ arg'[r] = arg[r] /\ out'[r] = Written(r)
     \/ ~Accepted(r) /\ pc'[r] \in Replies \ {"InternalError"}
     \/ /\ OutResult(r) = "VersionError"
        /\ pc[r] = "updateWrite"
        /\ \/ pc'[r] = "updateTry" /\ tries'[r] = tries[r] + 1
           \/ pc'[r] = "InternalError" /\ ~AttemptLeft(r)

RemovesOut(r) ==
  /\ \/ pc[r] = "updateRemove" /\ RemoveOut(r, "update")
     \/ pc[r] = "deleteRemove" /\ RemoveOut(r, "delete")
  /\ pc'[r] \in {"NotFound", Deleted}

OneSteps(r) ==
  /\ OthersSame(r)
  /\ \A q \in Requests : q # r => born'[q] = born[q]
  /\ events \subseteq events'
  /\ Reads(r) \/ WritesOut(r) \/ RemovesOut(r) \/ Visit(r)

LEMMA RequestShape ==
  ASSUME TypeInv, StoreInv, NEW r \in Requests, RequestStep(r)
  PROVE  OneSteps(r)
<1> USE RESTAssumption
<1>1. ASSUME NEW reply \in Replies, reply # "InternalError", Return(r, reply)
      PROVE  OthersSame(r) /\ pc'[r] \in Replies \ {"InternalError"}
  BY Zenon, <1>1, ReturnEffect
<1>2. ASSUME Start(r)
      PROVE  /\ \A q \in Requests : q # r => born'[q] = born[q]
             /\ born'[r] = rev /\ pc[r] = "idle"
  BY Zenon, <1>2 DEF Start, TypeInv, TypeOK
<1>3. ASSUME NEW k \in Keys, NEW d \in Drafts, Create(r, k, d)
      PROVE  OneSteps(r)
  <2> DEFINE a == [key |-> k, change |-> Nil, version |-> NoVersion]
             o == [version |-> NoVersion,
                   data |-> FillObjectMetaSystemFields(d, uids + 1)]
  <2>1. UNCHANGED <<files, rev, events, history, removals, reported>> /\ Start(r)
    BY Zenon, <1>3 DEF Create, fsVars, ghosts
  <2>2. OthersSame(r) /\ pc'[r] \in {"AlreadyExists", "createWrite"}
    <3>1. CASE Return(r, "AlreadyExists")
      BY Zenon, <3>1, ReturnEffect
    <3>2. CASE Goto(r, "createWrite", a, o, 0)
      BY Zenon, <3>2, GotoEffect
    <3>3. QED
      BY Zenon, <1>3, <3>1, <3>2 DEF Create
  <2>3. QED
    BY Zenon, <1>2, <2>1, <2>2 DEF OneSteps, Reads, Replies, EventTypes, Added, Modified, Deleted
<1>4. ASSUME NEW k \in Keys, NEW c \in Changes, NEW v \in 0..rev,
             Update(r, k, c, v)
      PROVE  OneSteps(r)
  <2> DEFINE a == [key |-> k, change |-> c, version |-> v]
  <2>1. a \in Arg /\ a.change \in Change /\ 0 \in Nat
    BY DEF Arg, TypeInv, TypeOK
  <2>2. /\ UNCHANGED <<files, rev, events, history, removals, reported>>
        /\ Start(r) /\ TryUpdate(r, a, 0)
    BY Zenon, <1>4 DEF Update, fsVars, ghosts
  <2>3. /\ OthersSame(r)
        /\ \/ pc'[r] \in Replies /\ pc'[r] # "InternalError"
           \/ /\ pc'[r] = "updateWrite" /\ arg'[r] = a /\ tries'[r] = 0
              /\ out'[r].version = files[a.key].version
    BY ZenonT(40), <2>1, <2>2, TryUpdateEffect
  <2>4. QED
    BY ZenonT(40), <1>2, <2>2, <2>3 DEF OneSteps, Reads, EventTypes, Added, Modified, Deleted
<1>5. ASSUME UpdateRetry(r)
      PROVE  OneSteps(r)
  <2>1. /\ arg[r] \in Arg /\ arg[r].change \in Change /\ tries[r] \in Nat
        /\ pc[r] = "updateTry"
    BY Zenon, <1>5 DEF UpdateRetry, TypeInv, TypeOK, LocalsSet
  <2>2. /\ UNCHANGED <<files, rev, events, history, removals, reported, born>>
        /\ TryUpdate(r, arg[r], tries[r])
    BY ZenonT(40), <1>5 DEF UpdateRetry, fsVars, ghosts
  <2>3. /\ OthersSame(r)
        /\ \/ pc'[r] \in Replies /\ pc'[r] # "InternalError"
           \/ /\ pc'[r] = "updateWrite" /\ arg'[r] = arg[r] /\ tries'[r] = tries[r]
              /\ out'[r].version = files[arg[r].key].version
    BY ZenonT(40), <2>1, <2>2, TryUpdateEffect
  <2>4. QED
    BY Zenon, <2>1, <2>2, <2>3 DEF OneSteps, Reads, EventTypes, Added, Modified, Deleted
<1>6. ASSUME NEW k \in Keys, Delete(r, k)
      PROVE  OneSteps(r)
  <2> DEFINE a == [key |-> k, change |-> Nil, version |-> NoVersion]
             o == [files[k] EXCEPT !.data.deleting = TRUE]
  <2>1. UNCHANGED <<files, rev, events, history, removals, reported>> /\ Start(r)
    BY Zenon, <1>6 DEF Delete, fsVars, ghosts
  <2>2. OthersSame(r) /\ pc'[r] \in {"NotFound", "deleteWrite", "deleteRemove"}
    <3>1. CASE Return(r, "NotFound")
      BY Zenon, <3>1, ReturnEffect
    <3>2. CASE Goto(r, "deleteWrite", a, o, 0)
      BY Zenon, <3>2, GotoEffect
    <3>3. CASE Goto(r, "deleteRemove", a, files[k], 0)
      BY Zenon, <3>3, GotoEffect
    <3>4. QED
      BY Zenon, <1>6, <3>1, <3>2, <3>3 DEF Delete, Read
  <2>3. QED
    BY Zenon, <1>2, <2>1, <2>2 DEF OneSteps, Reads, Replies, EventTypes, Added, Modified, Deleted
<1>7. ASSUME NEW dir \in Dirs, NEW sel \in Selectors,
             DeleteCollection(r, dir, sel)
      PROVE  OneSteps(r)
  <2>1. UNCHANGED <<files, rev, events, history, removals, reported>> /\ Start(r)
    BY Zenon, <1>7 DEF DeleteCollection, fsVars, ghosts
  <2>2. OthersSame(r) /\ pc'[r] = "visit"
    BY Zenon, <1>7 DEF DeleteCollection, OthersSame, TypeInv, TypeOK
  <2>3. QED
    BY Zenon, <1>2, <2>1, <2>2 DEF OneSteps, Reads, EventTypes, Added, Modified, Deleted
<1>8. ASSUME VisitDone(r) \/ Refuse(r)
      PROVE  OneSteps(r)
  <2>1. UNCHANGED <<files, rev, events, history, removals, reported, born>>
    BY ZenonT(40), <1>8 DEF VisitDone, Refuse, fsVars, ghosts
  <2>2. pc[r] \in {"visit", "idle", "updateTry"}
    BY Zenon, <1>8 DEF VisitDone, Refuse
  <2>3. OthersSame(r) /\ pc'[r] \in Replies \ {"InternalError"}
    BY Zenon, <1>1, <1>8 DEF VisitDone, Refuse, Replies
  <2>4. QED
    BY ZenonT(40), <2>1, <2>2, <2>3 DEF OneSteps, Reads, EventTypes, Added, Modified, Deleted
<1>9. ASSUME Notify(r)
      PROVE  OneSteps(r)
  <2>1. /\ UNCHANGED <<files, rev, history, removals, reported, born>>
        /\ pc[r] # "updateRemove" /\ events' = events \cup {Announcement(r)}
    BY Zenon, <1>9 DEF Notify, fsVars, ghosts, Announcement, EventTypes, Added, Modified, Deleted
  <2>2. OthersSame(r) /\ pc'[r] \in Replies \ {"InternalError"}
    BY Zenon, <1>1, <1>9 DEF Notify, Replies
  <2>3. QED
    BY Zenon, <2>1, <2>2 DEF OneSteps, Reads
<1>10. ASSUME CreateWrite(r) \/ UpdateWrite(r) \/ DeleteWrite(r)
       PROVE  OneSteps(r)
  <2>1. pc[r] \in Writing /\ WriteOut(r, WriterVia(r))
    BY ZenonT(40), <1>10 DEF CreateWrite, UpdateWrite, DeleteWrite, Writing, WriterVia
  <2>2. UNCHANGED <<events, born>>
    BY Zenon, <2>1 DEF WriteOut
  <2>3. ASSUME NEW label, Accepted(r), Proceed(r, label)
        PROVE  OthersSame(r) /\ pc'[r] = label /\ arg'[r] = arg[r] /\ out'[r] = Written(r)
    <3>1. Goto(r, label, arg[r], Written(r), tries[r])
      BY Zenon, <2>3 DEF Proceed, Written
    <3>2. QED
      BY Zenon, <3>1, GotoEffect
  <2>4. CASE CreateWrite(r)
    <3>1. pc[r] = "createWrite"
      BY Zenon, <2>4 DEF CreateWrite
    <3>2. CASE Accepted(r) /\ Proceed(r, Added)
      BY Zenon, <2>1, <2>2, <2>3, <3>1, <3>2 DEF OneSteps, WritesOut
    <3>3. CASE OutResult(r) = "VersionError" /\ Return(r, "Conflict")
      BY Zenon, <1>1, <2>1, <2>2, <3>3 DEF OneSteps, WritesOut, Accepted, Replies
    <3>4. QED
      BY Zenon, <2>4, <3>2, <3>3 DEF CreateWrite
  <2>5. CASE DeleteWrite(r)
    <3>1. pc[r] = "deleteWrite"
      BY Zenon, <2>5 DEF DeleteWrite
    <3>2. CASE Accepted(r) /\ Proceed(r, Modified)
      BY ZenonT(40), <2>1, <2>2, <2>3, <3>1, <3>2 DEF OneSteps, WritesOut
    <3>3. CASE /\ OutResult(r) \in {"VersionError", "ErrNotExist"}
               /\ Return(r, "Conflict") \/ Return(r, "ErrNotExist")
      BY ZenonT(40), <1>1, <2>1, <2>2, <3>3 DEF OneSteps, WritesOut, Accepted, Replies
    <3>4. QED
      BY Zenon, <2>5, <3>2, <3>3 DEF DeleteWrite
  <2>6. CASE UpdateWrite(r)
    <3>1. pc[r] = "updateWrite"
      BY Zenon, <2>6 DEF UpdateWrite
    <3>2. CASE Accepted(r) /\ Proceed(r, AfterUpdate(r))
      BY ZenonT(40), <2>1, <2>2, <2>3, <3>1, <3>2 DEF OneSteps, WritesOut, AfterUpdate
    <3>3. CASE OutResult(r) = "ErrNotExist" /\ Return(r, "NotFound")
      BY ZenonT(40), <1>1, <2>1, <2>2, <3>3 DEF OneSteps, WritesOut, Accepted, Replies
    <3>4. CASE OutResult(r) = "VersionError" /\ Goto(r, "updateTry", arg[r], Nil, tries[r] + 1)
      <4>1. OthersSame(r) /\ pc'[r] = "updateTry" /\ tries'[r] = tries[r] + 1
        BY SMT, <3>4, GotoEffect
      <4>2. QED
        BY Zenon, <2>1, <2>2, <3>1, <3>4, <4>1 DEF OneSteps, WritesOut
    <3>5. CASE OutResult(r) = "VersionError" /\ ~AttemptLeft(r) /\ Return(r, "InternalError")
      BY Zenon, <2>1, <2>2, <3>1, <3>5, ReturnEffect DEF OneSteps, WritesOut
    <3>6. QED
      BY ZenonT(40), <2>6, <3>2, <3>3, <3>4, <3>5 DEF UpdateWrite
  <2>7. QED
    BY Zenon, <1>10, <2>4, <2>5, <2>6
<1>11. ASSUME UpdateRemove(r) \/ DeleteRemove(r)
       PROVE  OneSteps(r)
  <2>1. /\ pc[r] \in Holding
        /\ \/ pc[r] = "updateRemove" /\ RemoveOut(r, "update")
           \/ pc[r] = "deleteRemove" /\ RemoveOut(r, "delete")
    BY Zenon, <1>11 DEF UpdateRemove, DeleteRemove, Holding
  <2>2. UNCHANGED <<events, born>> /\ OthersSame(r) /\ pc'[r] \in {"NotFound", Deleted}
    BY Zenon, <2>1, RemoveOutEffect
  <2>3. QED
    BY Zenon, <2>1, <2>2 DEF OneSteps, RemovesOut
<1>12. ASSUME Visit(r)
       PROVE  OneSteps(r)
  BY ZenonT(40), <1>12 DEF Visit, OneSteps, OthersSame
<1>13. QED
  BY Zenon, <1>3, <1>4, <1>5, <1>6, <1>7, <1>8, <1>9, <1>10, <1>11, <1>12 DEF RequestStep

LEMMA StepShape ==
  ASSUME TypeInv, StoreInv, [Next]_vars
  PROVE  UNCHANGED vars \/ \E r \in Requests : OneSteps(r)
  BY Zenon, RequestShape DEF Next, Answered

=============================================================================
