----------------------- MODULE StoreRefinement_proofs -----------------------
(***************************************************************************)
(* The handlers implement VersionedStore, what they report as removed is   *)
(* gone, and an update that drains an object removes it, announces what it *)
(* stored and gives up only under contention; for any number of requests,  *)
(* keys and values.                                                        *)
(***************************************************************************)
EXTENDS StoreRefinement, FilepathREST_proofs

Used == {w.data.uid : w \in history}

(* A write that is carried out is the creation or the replacement of one object. *)
LEMMA WriteImplements ==
  ASSUME TypeInv, StoreInv, NEW r \in Requests, pc[r] \in Writing,
         WriteOut(r, WriterVia(r))
  PROVE  Abstract!Next \/ UNCHANGED <<files, rev, history>>
<1> DEFINE k == arg[r].key
           o == out[r].data
           f == [version |-> rev + 1, data |-> o]
<1>1. pc[r] \in Holding
  BY Zenon DEF Writing, Holding
<1>2. arg[r] \in Arg /\ k \in Keys /\ out[r] \in versionedData /\ o \in Object
  BY Zenon, <1>1 DEF TypeInv, LocalsSet, Arg, versionedData
<1>3. CASE OutResult(r) # "written"
  BY Zenon, <1>1, <1>3, WriteEffect
<1>4. CASE OutResult(r) = "written"
  <2>1. /\ rev' = rev + 1
        /\ files' = [files EXCEPT ![k] = f]
    BY Zenon, <1>1, <1>4, WriteEffect
  <2>2. PICK n : history' = history \cup {n} /\ n.data = o
    BY <1>1, <1>4, WriteRecorded
  <2>3. Used' = Used \cup {o.uid}
    BY Zenon, <2>2 DEF Used
  <2>4. files'[k] = f /\ f \in versionedData /\ f # ErrNotExist
    BY <1>2, <2>1, ErrNotExistAssumption DEF TypeInv, TypeOK, versionedData
  <2>5. files'[k] # ErrNotExist /\ files'[k].data = o
    BY <2>4
  <2>6. CASE pc[r] = "createWrite"
    <3>1. ~Exists(k) /\ ~o.deleting /\ \A w \in history : w.data.uid # o.uid
      BY Zenon, <1>4, <2>6, WriteBase
    <3>2. o.uid \notin Used
      BY Zenon, <3>1 DEF Used
    <3>3. Abstract!Create(k, files'[k].data)
      BY Zenon, <2>1, <2>3, <2>5, <3>1, <3>2 DEF Abstract!Create, Abstract!Put, Exists, Used
    <3>4. QED
      BY Zenon, <1>2, <2>5, <3>3 DEF Abstract!Next, Abstract!Create, Abstract!Put
  <2>7. CASE pc[r] # "createWrite"
    <3>1. Exists(k) /\ Succeeds(WriterVia(r), files[k].data, o)
      BY Zenon, <1>4, <2>7, WriteBase
    <3>2. files[k].data # o
      BY Zenon, <1>4, <3>1 DEF OutResult, WriteResult
    <3>3. PICK w \in history : Names(k, files[k], w)
      BY Zenon, <1>2, <3>1, FileNamed
    <3>4. o.uid \in Used
      BY Zenon, <3>1, <3>3 DEF Names, Succeeds, Used
    <3>5. Used' = Used
      BY Zenon, <2>3, <3>4
    <3>6. Abstract!MayReplace(files[k].data, files'[k].data)
      BY Zenon, <2>5, <2>7, <3>1, <3>2 DEF Abstract!MayReplace, Succeeds
    <3>7. Abstract!Replace(k, files'[k].data)
      BY Zenon, <2>1, <2>5, <3>1, <3>5, <3>6 DEF Abstract!Replace, Abstract!Put, Exists, Used
    <3>8. QED
      BY Zenon, <1>2, <2>5, <3>7 DEF Abstract!Next, Abstract!Replace, Abstract!Put
  <2>8. QED
    BY Zenon, <2>6, <2>7
<1>5. QED
  BY Zenon, <1>3, <1>4

(* A file that is removed is the removal of one object. *)
LEMMA RemoveImplements ==
  ASSUME NEW k \in Keys, Exists(k), NEW o, NEW via, RemoveFile(k, o, via), UNCHANGED history
  PROVE  Abstract!Next
<1>1. Abstract!Remove(k)
  BY Zenon DEF RemoveFile, Remove, Exists, Abstract!Remove
<1>2. QED
  BY Zenon, <1>1 DEF Abstract!Next

LEMMA RemoveOutImplements ==
  ASSUME TypeInv, NEW r \in Requests, pc[r] \in Holding, NEW via, RemoveOut(r, via)
  PROVE  Abstract!Next \/ UNCHANGED <<files, rev, history>>
<1>1. arg[r].key \in Keys
  BY Zenon DEF TypeInv, LocalsSet, Arg
<1>2. QED
  BY Zenon, <1>1, RemoveImplements DEF RemoveOut, fsVars

(* Every step of a request is a step of the store, or leaves it as it is. *)
LEMMA StepImplements ==
  TypeInv /\ StoreInv /\ [Next]_vars => [Abstract!Next]_<<files, rev, Used>>
<1> SUFFICES ASSUME TypeInv, StoreInv, [Next]_vars
             PROVE  Abstract!Next \/ UNCHANGED <<files, rev, history>>
  BY Zenon DEF Used
<1>1. ASSUME NEW r \in Requests, CreateWrite(r) \/ UpdateWrite(r) \/ DeleteWrite(r)
      PROVE  Abstract!Next \/ UNCHANGED <<files, rev, history>>
  <2>1. pc[r] \in Writing /\ WriteOut(r, WriterVia(r))
    BY Zenon, <1>1 DEF CreateWrite, UpdateWrite, DeleteWrite, Writing, WriterVia
  <2>2. QED
    BY Zenon, <2>1, WriteImplements
<1>2. ASSUME NEW r \in Requests, UpdateRemove(r) \/ DeleteRemove(r)
      PROVE  Abstract!Next \/ UNCHANGED <<files, rev, history>>
  <2>1. pc[r] \in Holding /\ \E via : RemoveOut(r, via)
    BY Zenon, <1>2 DEF UpdateRemove, DeleteRemove, Holding
  <2>2. QED
    BY Zenon, <2>1, RemoveOutImplements
<1>3. ASSUME NEW r \in Requests, Visit(r)
      PROVE  Abstract!Next \/ UNCHANGED <<files, rev, history>>
  <2>1. PICK i \in todo[r] :
          \/ Exists(i.key) /\ RemoveFile(i.key, i.obj, "collection")
          \/ ~Exists(i.key) /\ UNCHANGED <<fsVars, removals>>
    BY Zenon, <1>3 DEF Visit
  <2>2. i.key \in Keys /\ UNCHANGED history
    BY <1>3 DEF TypeInv, TypeOK, Item, Visit
  <2>3. QED
    BY Zenon, <2>1, <2>2, RemoveImplements DEF fsVars
<1>4. ASSUME NEW r \in Requests,
             \/ \E k \in Keys, d \in Drafts : Create(r, k, d)
             \/ \E k \in Keys, c \in Changes, v \in 0..rev : Update(r, k, c, v)
             \/ UpdateRetry(r)
             \/ \E k \in Keys : Delete(r, k)
             \/ \E dir \in Dirs, sel \in Selectors : DeleteCollection(r, dir, sel)
             \/ VisitDone(r)
             \/ Notify(r)
             \/ Refuse(r)
      PROVE  UNCHANGED <<files, rev, history>>
  BY Zenon, <1>4 DEF Create, Update, UpdateRetry, Delete, DeleteCollection, VisitDone, Notify,
              Refuse, fsVars, ghosts
<1>5. CASE UNCHANGED vars
  BY Zenon, <1>5 DEF vars, ghosts
<1>6. QED
  BY Zenon, <1>1, <1>2, <1>3, <1>4, <1>5 DEF Next, RequestStep, Answered

(* The handlers implement the store: whatever the number of requests, keys and
   values, each of their steps is one step of VersionedStore or none. *)
THEOREM StoreImplemented == Spec => ImplementsStore
<1>1. Init => Abstract!Init
  BY Zenon DEF Init, NewMemoryFS, Abstract!Init
<1>2. TypeInv /\ StoreInv /\ [Next]_vars => [Abstract!Next]_<<files, rev, Used>>
  BY Zenon, StepImplements
<1>3. QED
  BY <1>1, <1>2, StoreCorrect, PTL DEF Spec, ImplementsStore, Abstract!Spec, Used

-----------------------------------------------------------------------------
(* An update that is about to remove its object has drained it, and it stays drained:
   whoever writes it again can neither take back the deletion nor add a finalizer. *)
StaysDrained ==
  \A r \in Requests : pc[r] = "updateRemove" =>
    /\ Drained(out[r].data)
    /\ Exists(arg[r].key) /\ files[arg[r].key].data.uid = out[r].data.uid
         => Drained(files[arg[r].key].data)

LEMMA StaysDrainedNext ==
  ASSUME TypeInv, StoreInv, StaysDrained, NEW r \in Requests, OneSteps(r)
  PROVE  StaysDrained'
<1> SUFFICES ASSUME NEW q \in Requests, pc'[q] = "updateRemove"
             PROVE  /\ Drained(out'[q].data)
                    /\ files'[arg'[q].key] # ErrNotExist
                         /\ files'[arg'[q].key].data.uid = out'[q].data.uid
                           => Drained(files'[arg'[q].key].data)
  BY Zenon DEF StaysDrained, Exists
<1>1. CASE q # r
  <2> DEFINE k == arg[q].key
  <2>1. pc[q] = "updateRemove" /\ arg'[q] = arg[q] /\ out'[q] = out[q]
    BY Zenon, <1>1 DEF OneSteps, OthersSame
  <2>2. /\ Drained(out[q].data) /\ k \in Keys
        /\ Exists(k) /\ files[k].data.uid = out[q].data.uid => Drained(files[k].data)
    BY Zenon, <2>1 DEF StaysDrained, TypeInv, LocalsSet, Holding, Arg
  <2>3. CASE files'[k] = files[k] \/ files'[k] = ErrNotExist
    BY Zenon, <2>1, <2>2, <2>3 DEF Exists
  <2>4. CASE WritesOut(r) /\ files'[k] # files[k]
    <3>1. pc[r] \in Holding /\ pc[r] \in Writing /\ WriteOut(r, WriterVia(r))
      BY Zenon, <2>4 DEF WritesOut, Writing, Holding
    <3>2. OutResult(r) = "written" /\ k = arg[r].key /\ files'[k].data = out[r].data
      BY ZenonT(40), <2>2, <2>4, <3>1, WriteEffect, WriteRecorded
    <3>3. PICK w \in history : Names(k, out[q], w)
      BY Zenon, <2>1 DEF StoreInv, CopiesNamed
    <3>4. CASE \A u \in history : u.data.uid # out[r].data.uid
      BY Zenon, <2>1, <2>2, <3>2, <3>3, <3>4 DEF Names
    <3>5. CASE Exists(k) /\ Succeeds(WriterVia(r), files[k].data, out[r].data)
      BY ZenonT(40), <2>1, <2>2, <3>2, <3>5 DEF Succeeds, Drained
    <3>6. QED
      BY Zenon, <3>1, <3>2, <3>4, <3>5, WriteBase
  <2>5. CASE ~WritesOut(r)
    <3>1. files'[k] = files[k] \/ files'[k] = ErrNotExist
      <4>1. CASE Reads(r)
        BY Zenon, <4>1 DEF Reads
      <4>2. CASE RemovesOut(r)
        <5>1. pc[r] \in Holding /\ \E via : RemoveOut(r, via)
          BY Zenon, <4>2 DEF RemovesOut, Holding
        <5>2. QED
          BY Zenon, <2>2, <5>1, RemoveOutEffect
      <4>3. CASE Visit(r)
        <5>1. PICK i \in todo[r] :
                \/ Exists(i.key) /\ RemoveFile(i.key, i.obj, "collection")
                \/ ~Exists(i.key) /\ UNCHANGED <<fsVars, removals>>
          BY Zenon, <4>3 DEF Visit
        <5>2. i.key \in Keys
          BY DEF TypeInv, TypeOK, Item
        <5>3. QED
          BY Zenon, <2>2, <5>1, <5>2, RemoveFileEffect DEF fsVars
      <4>4. QED
        BY Zenon, <2>5, <4>1, <4>2, <4>3 DEF OneSteps
    <3>2. QED
      BY Zenon, <2>3, <3>1
  <2>6. QED
    BY Zenon, <2>3, <2>4, <2>5
<1>2. CASE q = r
  <2>1. WritesOut(r)
    <3>1. ~Reads(r)
      BY Zenon, <1>2 DEF Reads, Replies
    <3>2. ~RemovesOut(r)
      BY Zenon, <1>2 DEF RemovesOut, Deleted
    <3>3. ~Visit(r)
      BY Zenon, <1>2 DEF Visit
    <3>4. QED
      BY Zenon, <3>1, <3>2, <3>3 DEF OneSteps
  <2>2. /\ Accepted(r) /\ arg'[r] = arg[r] /\ out'[r] = Written(r)
        /\ Drained(out[r].data)
    BY Zenon, <1>2, <2>1 DEF WritesOut, Replies, Added, Modified
  <2>3. files'[arg[r].key] = Written(r)
    BY Zenon, <2>1, <2>2, AcceptedWritten DEF WritesOut
  <2>4. QED
    BY <1>2, <2>2, <2>3 DEF Written
<1>3. QED
  BY Zenon, <1>1, <1>2

(* Updates remove drained objects only, one step. *)
LEMMA UpdateRemovesNext ==
  ASSUME TypeInv, StoreInv, ObjectsSurvive, StaysDrained, UpdateRemovesDrained,
         NEW r \in Requests, OneSteps(r)
  PROVE  UpdateRemovesDrained'
<1> DEFINE Rightly(m) == Drained(m.obj.data)
           Late(m, ms) == \E n \in ms \ {m} : n.obj.data.uid = m.claimed.data.uid
<1> SUFFICES ASSUME NEW m \in removals', m.via = "update"
             PROVE  Rightly(m) \/ Late(m, removals')
  BY Zenon DEF UpdateRemovesDrained
<1>1. ASSUME m \in removals, removals \subseteq removals'
      PROVE  Rightly(m) \/ Late(m, removals')
  BY Zenon, <1>1 DEF UpdateRemovesDrained
<1>2. CASE Reads(r)
  BY Zenon, <1>1, <1>2 DEF Reads
<1>3. CASE WritesOut(r)
  BY Zenon, <1>1, <1>3 DEF WritesOut, WriteOut
<1>4. CASE RemovesOut(r)
  <2> DEFINE k == arg[r].key
  <2>1. pc[r] \in Holding /\ k \in Keys
    BY Zenon, <1>4 DEF RemovesOut, Holding, TypeInv, LocalsSet, Arg
  <2>2. CASE pc[r] = "updateRemove" /\ Exists(k) /\ RemoveFile(k, out[r], "update")
    <3> DEFINE x == [key |-> k, obj |-> files[k], claimed |-> out[r], via |-> "update"]
    <3>1. removals' = removals \cup {x} /\ x.obj = files[k] /\ x.claimed = out[r]
      BY Zenon, <2>2 DEF RemoveFile
    <3> HIDE DEF x
    <3>2. CASE files[k].data.uid = out[r].data.uid
      BY Zenon, <1>1, <2>2, <3>1, <3>2 DEF StaysDrained
    <3>3. CASE files[k].data.uid # out[r].data.uid
      <4>1. PICK w \in history : Names(k, out[r], w)
        BY Zenon, <2>2 DEF StoreInv, CopiesNamed
      <4>2. Removed(out[r].data.uid)
        BY Zenon, <3>3, <4>1 DEF Names, ObjectsSurvive
      <4>3. PICK n \in removals : n.obj.data.uid = out[r].data.uid
        BY Zenon, <4>2 DEF Removed
      <4>4. n # x
        BY Zenon, <3>1, <3>3, <4>3
      <4>5. QED
        BY Zenon, <1>1, <3>1, <4>3, <4>4
    <3>4. QED
      BY Zenon, <3>2, <3>3
  <2>3. CASE Exists(k) /\ RemoveFile(k, out[r], "delete")
    <3> DEFINE x == [key |-> k, obj |-> files[k], claimed |-> out[r], via |-> "delete"]
    <3>1. removals' = removals \cup {x} /\ x.via = "delete"
      BY Zenon, <2>3 DEF RemoveFile
    <3> HIDE DEF x
    <3>2. QED
      BY Zenon, <1>1, <3>1
  <2>4. CASE UNCHANGED removals
    BY Zenon, <1>1, <2>4
  <2>5. QED
    BY Zenon, <1>4, <2>2, <2>3, <2>4 DEF RemovesOut, RemoveOut
<1>5. CASE Visit(r)
  <2>1. PICK i \in todo[r] :
          \/ Exists(i.key) /\ RemoveFile(i.key, i.obj, "collection")
          \/ ~Exists(i.key) /\ UNCHANGED <<fsVars, removals>>
    BY Zenon, <1>5 DEF Visit
  <2> DEFINE x == [key |-> i.key, obj |-> files[i.key], claimed |-> i.obj,
                   via |-> "collection"]
  <2>2. removals' \in {removals, removals \cup {x}} /\ x.via = "collection"
    BY Zenon, <2>1 DEF RemoveFile
  <2> HIDE DEF x
  <2>3. QED
    BY Zenon, <1>1, <2>2
<1>6. QED
  BY Zenon, <1>2, <1>3, <1>4, <1>5 DEF OneSteps

-----------------------------------------------------------------------------
(* The files that DeleteCollection has yet to visit were written as it saw them. *)
TodoNamed ==
  \A r \in Requests : \A i \in todo[r] : \E w \in history : Names(i.key, i.obj, w)

(* Only the snapshot adds to them. *)
LEMMA TodoSeen ==
  ASSUME TypeInv, [Next]_vars, NEW q \in Requests, NEW i \in todo'[q]
  PROVE  i \in todo[q] \/ (i.key \in Keys /\ Exists(i.key) /\ i.obj = files[i.key])
<1>0. todo \in [Requests -> SUBSET Item]
  BY Zenon DEF TypeInv, TypeOK
<1>1. ASSUME NEW r \in Requests, NEW reply, Return(r, reply)
      PROVE  i \in todo[q]
  BY Zenon, <1>0, <1>1 DEF Return
<1>2. ASSUME UNCHANGED todo PROVE i \in todo[q]
  BY Zenon, <1>2
<1>3. ASSUME NEW r \in Requests, NEW label, NEW a, NEW o, NEW n, Goto(r, label, a, o, n)
      PROVE  i \in todo[q]
  BY Zenon, <1>3 DEF Goto
<1>4. ASSUME NEW r \in Requests, NEW k \in Keys, NEW d \in Drafts, Create(r, k, d)
      PROVE  i \in todo[q]
  BY ZenonT(40), <1>1, <1>3, <1>4 DEF Create
<1>5. ASSUME NEW r \in Requests, NEW a, NEW n, TryUpdate(r, a, n)
      PROVE  i \in todo[q]
  BY ZenonT(40), <1>1, <1>3, <1>5 DEF TryUpdate
<1>6. ASSUME NEW r \in Requests, CreateWrite(r) \/ UpdateWrite(r) \/ DeleteWrite(r)
      PROVE  i \in todo[q]
  BY Zenon, <1>1, <1>3, <1>6 DEF CreateWrite, UpdateWrite, DeleteWrite, Proceed
<1>7. ASSUME NEW r \in Requests, NEW k \in Keys, Delete(r, k)
      PROVE  i \in todo[q]
  BY Zenon, <1>1, <1>3, <1>7 DEF Delete
<1>8. ASSUME NEW r \in Requests, UpdateRemove(r) \/ DeleteRemove(r)
      PROVE  i \in todo[q]
  BY Zenon, <1>1, <1>3, <1>8 DEF UpdateRemove, DeleteRemove, RemoveOut
<1>9. ASSUME NEW r \in Requests, Visit(r)
      PROVE  i \in todo[q]
  BY Zenon, <1>0, <1>9 DEF Visit
<1>10. ASSUME NEW r \in Requests, VisitDone(r) \/ Notify(r) \/ Refuse(r)
       PROVE  i \in todo[q]
  BY Zenon, <1>1, <1>10 DEF VisitDone, Notify, Refuse
<1>11. ASSUME NEW r \in Requests, NEW dir \in Dirs, NEW sel \in Selectors,
              DeleteCollection(r, dir, sel)
       PROVE  i \in todo[q] \/ (i.key \in Keys /\ Exists(i.key) /\ i.obj = files[i.key])
  <2>1. i \in todo[q] \/ i \in VisitDir(dir)
    BY Zenon, <1>0, <1>11 DEF DeleteCollection
  <2>2. QED
    BY <2>1, RESTAssumption DEF VisitDir
<1>12. QED
  BY ZenonT(40), <1>2, <1>4, <1>5, <1>6, <1>7, <1>8, <1>9, <1>10, <1>11
     DEF Next, RequestStep, Answered, Update, UpdateRetry, vars, reqVars

LEMMA TodoNamedNext ==
  ASSUME TypeInv, StoreInv, TodoNamed, [Next]_vars
  PROVE  TodoNamed'
<1> SUFFICES ASSUME NEW q \in Requests, NEW i \in todo'[q]
             PROVE  \E w \in history' : Names(i.key, i.obj, w)
  BY Zenon DEF TodoNamed, Names
<1>1. history \subseteq history'
  BY Zenon, StepMoves DEF Moves, NothingMoves, Writes, Removes
<1>2. \E w \in history : Names(i.key, i.obj, w)
  BY Zenon, TodoSeen, FileNamed DEF TodoNamed
<1>3. QED
  BY Zenon, <1>1, <1>2

(* What DeleteCollection lists is gone, one step. *)
LEMMA ReportedNext ==
  ASSUME TypeInv, StoreInv, ObjectsSurvive, TodoNamed, ReportedAreGone,
         NEW r \in Requests, OneSteps(r), Moves
  PROVE  ReportedAreGone'
<1> SUFFICES ASSUME NEW i \in reported' PROVE \E m \in removals' : m.obj.data.uid = i.obj.data.uid
  BY Zenon DEF ReportedAreGone, Removed
<1>1. removals \subseteq removals'
  BY Zenon DEF Moves, NothingMoves, Writes, Removes
<1>2. CASE i \in reported
  BY Zenon, <1>1, <1>2 DEF ReportedAreGone, Removed
<1>3. CASE i \notin reported
  <2>1. Visit(r)
    <3>1. ~Reads(r)
      BY Zenon, <1>3 DEF Reads
    <3>2. ~WritesOut(r) /\ ~RemovesOut(r)
      BY Zenon, <1>3 DEF WritesOut, WriteOut, RemovesOut, RemoveOut
    <3>3. QED
      BY Zenon, <3>1, <3>2 DEF OneSteps
  <2>2. /\ i \in todo[r]
        /\ \/ Exists(i.key) /\ RemoveFile(i.key, i.obj, "collection")
           \/ ~Exists(i.key)
    BY Zenon, <1>3, <2>1 DEF Visit
  <2>3. PICK w \in history : Names(i.key, i.obj, w)
    BY Zenon, <2>2 DEF TodoNamed
  <2>4. \/ Exists(i.key) /\ files[i.key].data.uid = i.obj.data.uid
        \/ \E m \in removals : m.obj.data.uid = i.obj.data.uid
    BY Zenon, <2>3 DEF ObjectsSurvive, Names, Removed
  <2>5. Exists(i.key) => \E m \in removals' : m.obj = files[i.key]
    BY <2>2, RemoveFileEffect DEF TypeInv, TypeOK, Item
  <2>6. QED
    BY Zenon, <1>1, <2>4, <2>5
<1>4. QED
  BY Zenon, <1>2, <1>3

-----------------------------------------------------------------------------
RemovalInv == StaysDrained /\ UpdateRemovesDrained /\ TodoNamed /\ ReportedAreGone

LEMMA RemovalNext ==
  TypeInv /\ StoreInv /\ ObjectsSurvive /\ [Next]_vars /\ RemovalInv => RemovalInv'
<1> SUFFICES ASSUME TypeInv, StoreInv, ObjectsSurvive, [Next]_vars, RemovalInv
             PROVE  RemovalInv'
  BY Zenon
<1>1. ASSUME NEW r \in Requests, OneSteps(r)
      PROVE  StaysDrained' /\ UpdateRemovesDrained' /\ ReportedAreGone'
  BY Zenon, <1>1, StaysDrainedNext, UpdateRemovesNext, ReportedNext, StepMoves DEF RemovalInv
<1>2. TodoNamed'
  BY Zenon, TodoNamedNext DEF RemovalInv
<1>3. CASE UNCHANGED vars
  <2>1. UNCHANGED <<files, pc, arg, out, removals, reported>>
    BY Zenon, <1>3 DEF vars, reqVars, ghosts
  <2>2. StaysDrained' /\ UpdateRemovesDrained' /\ ReportedAreGone'
    BY Zenon, <2>1 DEF RemovalInv, StaysDrained, UpdateRemovesDrained, ReportedAreGone, Removed, Exists
  <2>3. QED
    BY Zenon, <1>2, <2>2 DEF RemovalInv
<1>4. QED
  BY Zenon, <1>1, <1>2, <1>3, StepShape DEF RemovalInv

LEMMA RemovalsCorrect == Spec => []RemovalInv
<1>1. Init => RemovalInv
  BY Zenon DEF Init, RemovalInv, StaysDrained, UpdateRemovesDrained, TodoNamed, ReportedAreGone
<1>2. QED
  BY <1>1, RemovalNext, StoreCorrect, Survival, PTL DEF Spec

(* An update removes nothing that two-phase deletion still waits for: a drained object,
   or one that took its name after another had removed the object in hand. *)
THEOREM UpdateRemoves == Spec => []UpdateRemovesDrained
<1>1. RemovalInv => UpdateRemovesDrained
  BY Zenon DEF RemovalInv
<1>2. QED
  BY <1>1, RemovalsCorrect, PTL

(* Every object in the reply of DeleteCollection was removed, by it or by another. *)
THEOREM ReportedGone == Spec => []ReportedAreGone
<1>1. RemovalInv => ReportedAreGone
  BY Zenon DEF RemovalInv
<1>2. QED
  BY <1>1, RemovalsCorrect, PTL

-----------------------------------------------------------------------------
(* Revisions only grow, and a file that is replaced costs one. *)
LEMMA RevisionsGrow ==
  ASSUME TypeInv, StoreInv, NEW r \in Requests, OneSteps(r)
  PROVE  /\ rev \in Nat /\ rev' \in Nat /\ rev <= rev'
         /\ \A k \in Keys : Exists(k)' /\ files'[k] # files[k] => rev < rev'
<1>1. rev \in Nat
  BY Zenon DEF TypeInv, TypeOK
<1>2. CASE Reads(r)
  BY <1>1, <1>2 DEF Reads
<1>3. CASE WritesOut(r)
  <2>1. pc[r] \in Holding /\ WriteOut(r, WriterVia(r))
    BY Zenon, <1>3 DEF WritesOut, Writing, Holding
  <2>2. UNCHANGED <<files, rev>> \/ rev' = rev + 1
    BY Zenon, <2>1, WriteEffect
  <2>3. QED
    BY <1>1, <2>2
<1>4. CASE RemovesOut(r)
  <2>1. pc[r] \in Holding /\ \E via : RemoveOut(r, via)
    BY Zenon, <1>4 DEF RemovesOut, Holding
  <2>2. /\ UNCHANGED rev /\ files'[arg[r].key] = ErrNotExist
        /\ \A j \in Keys : j # arg[r].key => files'[j] = files[j]
    BY Zenon, <2>1, RemoveOutEffect
  <2>3. QED
    BY <1>1, <2>2 DEF Exists
<1>5. CASE Visit(r)
  <2>1. PICK i \in todo[r] :
          \/ Exists(i.key) /\ RemoveFile(i.key, i.obj, "collection")
          \/ ~Exists(i.key) /\ UNCHANGED <<fsVars, removals>>
    BY Zenon, <1>5 DEF Visit
  <2>2. i.key \in Keys
    BY DEF TypeInv, TypeOK, Item
  <2>3. /\ UNCHANGED rev
        /\ \A j \in Keys : files'[j] \in {files[j], ErrNotExist}
    BY Zenon, <2>1, <2>2, RemoveFileEffect DEF fsVars
  <2>4. QED
    BY <1>1, <2>3 DEF Exists
<1>6. QED
  BY Zenon, <1>2, <1>3, <1>4, <1>5 DEF OneSteps

(* Failed attempts are paid for, one step. *)
Contention == RetriesPaid /\ GivesUpOnlyUnderContention

LEMMA ContentionNext ==
  ASSUME TypeInv, StoreInv, Contention, NEW r \in Requests, OneSteps(r)
  PROVE  Contention'
<1>1. /\ rev \in Nat /\ rev' \in Nat /\ rev <= rev'
      /\ \A k \in Keys : Exists(k)' /\ files'[k] # files[k] => rev < rev'
  BY Zenon, RevisionsGrow
<1>2. \A q \in Requests : born[q] \in Nat /\ tries[q] \in Nat /\ arg[q] \in Arg \cup {Nil}
  BY Zenon DEF TypeInv, TypeOK
<1>3. ASSUME NEW q \in Requests, q # r
      PROVE  /\ pc'[q] \in {"updateTry", "updateWrite"} => rev' >= born'[q] + tries'[q]
             /\ pc'[q] = "updateWrite" /\ Exists(arg[q].key)'
                  /\ files'[arg'[q].key].version # out'[q].version
                    => rev' > born'[q] + tries'[q]
             /\ pc'[q] = "InternalError" => rev' >= born'[q] + maxAttempts
  <2>1. /\ pc'[q] = pc[q] /\ arg'[q] = arg[q] /\ out'[q] = out[q] /\ tries'[q] = tries[q]
        /\ born'[q] = born[q]
    BY ZenonT(40), <1>3 DEF OneSteps, OthersSame
  <2>2. /\ pc[q] \in {"updateTry", "updateWrite"} => rev >= born[q] + tries[q]
        /\ pc[q] = "updateWrite" /\ Exists(arg[q].key)
             /\ files[arg[q].key].version # out[q].version => rev > born[q] + tries[q]
        /\ pc[q] = "InternalError" => rev >= born[q] + maxAttempts
    BY Zenon DEF Contention, RetriesPaid, GivesUpOnlyUnderContention
  <2>3. pc[q] = "updateWrite" => arg[q].key \in Keys
    BY Zenon DEF TypeInv, LocalsSet, Holding, Arg
  <2>4. ASSUME pc[q] = "updateWrite", Exists(arg[q].key)',
               files'[arg[q].key].version # out[q].version
        PROVE  rev' > born[q] + tries[q]
    <3>1. CASE files'[arg[q].key] = files[arg[q].key]
      BY <1>1, <1>2, <2>1, <2>2, <2>4, <3>1 DEF Exists
    <3>2. CASE files'[arg[q].key] # files[arg[q].key]
      BY <1>1, <1>2, <2>1, <2>2, <2>3, <2>4, <3>2 DEF Exists
    <3>3. QED
      BY ZenonT(40), <3>1, <3>2
  <2>5. QED
    BY <1>1, <1>2, <2>1, <2>2, <2>4, RESTAssumption DEF Exists
<1>4. /\ pc'[r] \in {"updateTry", "updateWrite"} => rev' >= born'[r] + tries'[r]
      /\ pc'[r] = "updateWrite" /\ Exists(arg[r].key)'
           /\ files'[arg'[r].key].version # out'[r].version
             => rev' > born'[r] + tries'[r]
      /\ pc'[r] = "InternalError" => rev' >= born'[r] + maxAttempts
  <2>1. CASE Reads(r)
    <3>1. pc[r] = "updateTry" => rev >= born[r] + tries[r]
      BY Zenon DEF Contention, RetriesPaid
    <3>2. pc'[r] \notin {"updateTry", "InternalError"}
      BY ZenonT(40), <2>1 DEF Reads, Replies
    <3>3. CASE pc'[r] # "updateWrite"
      BY ZenonT(40), <3>2, <3>3
    <3>4. CASE pc'[r] = "updateWrite"
      BY <1>1, <1>2, <2>1, <3>1, <3>4 DEF Reads, Replies
    <3>5. QED
      BY Zenon, <3>3, <3>4
  <2>2. CASE WritesOut(r)
    <3>1. pc'[r] # "updateWrite" /\ UNCHANGED born
      BY Zenon, <2>2 DEF WritesOut, Replies, Added, Modified, WriteOut
    <3>2. ASSUME OutResult(r) = "VersionError", pc[r] = "updateWrite"
          PROVE  rev > born[r] + tries[r]
      <4>1. Exists(arg[r].key) /\ files[arg[r].key].version # out[r].version
        BY Zenon, <3>2 DEF OutResult, WriteResult
      <4>2. QED
        BY Zenon, <3>2, <4>1 DEF Contention, RetriesPaid
    <3>3. CASE pc'[r] = "updateTry"
      <4>1. OutResult(r) = "VersionError" /\ pc[r] = "updateWrite" /\ tries'[r] = tries[r] + 1
        BY Zenon, <2>2, <3>3 DEF WritesOut, Replies, Added, Modified
      <4>2. QED
        BY <1>1, <1>2, <3>1, <3>2, <3>3, <4>1
    <3>4. CASE pc'[r] = "InternalError"
      <4>1. OutResult(r) = "VersionError" /\ pc[r] = "updateWrite" /\ ~AttemptLeft(r)
        BY Zenon, <2>2, <3>4 DEF WritesOut, Added, Modified
      <4>2. QED
        BY <1>1, <1>2, <3>1, <3>2, <3>4, <4>1, RESTAssumption DEF AttemptLeft
    <3>5. QED
      BY ZenonT(40), <3>1, <3>3, <3>4
  <2>3. CASE RemovesOut(r)
    BY Zenon, <2>3 DEF RemovesOut, Deleted
  <2>4. CASE Visit(r)
    BY Zenon, <2>4 DEF Visit
  <2>5. QED
    BY Zenon, <2>1, <2>2, <2>3, <2>4 DEF OneSteps
<1>5. QED
  BY Zenon, <1>3, <1>4 DEF Contention, RetriesPaid, GivesUpOnlyUnderContention

-----------------------------------------------------------------------------
(* A write of a drained object goes on to remove it, one step. *)
LEMMA DrainedNext ==
  ASSUME TypeInv, StoreInv, DrainedIsBeingRemoved, NEW r \in Requests, OneSteps(r)
  PROVE  DrainedIsBeingRemoved'
<1> SUFFICES ASSUME NEW k \in Keys, Exists(k)', Drained(files'[k].data)
             PROVE  \E q \in Requests : pc'[q] = "updateRemove" /\ arg'[q].key = k
  BY Zenon DEF DrainedIsBeingRemoved
<1>1. ASSUME files'[k] = files[k], pc[r] # "updateRemove" \/ arg[r].key # k
      PROVE  \E q \in Requests : pc'[q] = "updateRemove" /\ arg'[q].key = k
  <2>1. PICK q \in Requests : pc[q] = "updateRemove" /\ arg[q].key = k
    BY Zenon, <1>1 DEF DrainedIsBeingRemoved, Exists
  <2>2. pc'[q] = pc[q] /\ arg'[q] = arg[q]
    BY Zenon, <1>1, <2>1 DEF OneSteps, OthersSame
  <2>3. QED
    BY Zenon, <2>1, <2>2
<1>2. CASE Reads(r)
  BY Zenon, <1>1, <1>2 DEF Reads
<1>3. CASE WritesOut(r)
  <2>1. pc[r] \in Holding /\ pc[r] \in Writing /\ WriteOut(r, WriterVia(r))
    BY ZenonT(40), <1>3 DEF WritesOut, Writing, Holding
  <2>2. CASE files'[k] = files[k]
    BY Zenon, <1>1, <2>1, <2>2 DEF Writing
  <2>3. CASE files'[k] # files[k]
    <3>1. OutResult(r) = "written" /\ k = arg[r].key /\ files'[k].data = out[r].data
      BY ZenonT(40), <2>1, <2>3, WriteEffect, WriteRecorded
    <3>2. pc[r] = "updateWrite"
      <4>1. out[r].data.deleting /\ out[r].data.finalizers = {}
        BY Zenon, <3>1 DEF Drained
      <4>2. QED
        BY Zenon, <2>1, <4>1 DEF StoreInv, CreateFresh, WritersBased, Writing
    <3>3. pc'[r] = "updateRemove" /\ arg'[r] = arg[r]
      BY Zenon, <1>3, <3>1, <3>2 DEF WritesOut, Accepted
    <3>4. QED
      BY Zenon, <3>1, <3>3
  <2>4. QED
    BY Zenon, <2>2, <2>3
<1>4. CASE RemovesOut(r)
  <2>1. pc[r] \in Holding /\ \E via : RemoveOut(r, via)
    BY Zenon, <1>4 DEF RemovesOut, Holding
  <2>2. /\ files'[arg[r].key] = ErrNotExist
        /\ \A j \in Keys : j # arg[r].key => files'[j] = files[j]
    BY Zenon, <2>1, RemoveOutEffect
  <2>3. QED
    BY Zenon, <1>1, <2>2 DEF Exists
<1>5. CASE Visit(r)
  <2>1. PICK i \in todo[r] :
          \/ Exists(i.key) /\ RemoveFile(i.key, i.obj, "collection")
          \/ ~Exists(i.key) /\ UNCHANGED <<fsVars, removals>>
    BY Zenon, <1>5 DEF Visit
  <2>2. i.key \in Keys
    BY DEF TypeInv, TypeOK, Item
  <2>3. files'[k] \in {files[k], ErrNotExist}
    BY Zenon, <2>1, <2>2, RemoveFileEffect DEF fsVars
  <2>4. QED
    BY Zenon, <1>1, <1>5, <2>3 DEF Exists, Visit
<1>6. QED
  BY Zenon, <1>2, <1>3, <1>4, <1>5 DEF OneSteps

-----------------------------------------------------------------------------
(* What is stored is announced by the request that wrote it, one step. *)
LEMMA AnnouncedNext ==
  ASSUME TypeInv, StoreInv, LiveStateAnnounced, NEW r \in Requests, OneSteps(r)
  PROVE  LiveStateAnnounced'
<1> DEFINE Announced(k) ==
             \E e \in events : e.type \in {Added, Modified} /\ e.key = k /\ e.obj = files[k]
           Announces(q, k) == /\ pc[q] \in {Added, Modified, "updateRemove"}
                              /\ arg[q].key = k
                              /\ out[q] = files[k]
<1> SUFFICES ASSUME NEW k \in Keys, Exists(k)'
             PROVE  Announced(k)' \/ \E q \in Requests : Announces(q, k)'
  BY Zenon DEF LiveStateAnnounced
<1>1. ASSUME files'[k] = files[k], ~Announces(r, k)
      PROVE  Announced(k)' \/ \E q \in Requests : Announces(q, k)'
  <2>1. Announced(k) \/ \E q \in Requests : Announces(q, k)
    BY Zenon, <1>1 DEF LiveStateAnnounced, Exists
  <2>2. Announced(k) => Announced(k)'
    BY Zenon, <1>1 DEF OneSteps
  <2>3. \A q \in Requests : Announces(q, k) => Announces(q, k)'
    BY Zenon, <1>1 DEF OneSteps, OthersSame
  <2>4. QED
    BY Zenon, <2>1, <2>2, <2>3
<1>2. CASE Reads(r)
  <2>1. files'[k] = files[k]
    BY Zenon, <1>2 DEF Reads
  <2>2. CASE Announces(r, k)
    <3>1. pc[r] \in {Added, Modified} /\ arg[r].key = k /\ out[r] = files[k]
      BY Zenon, <1>2, <2>2 DEF Reads
    <3>2. Announcement(r) \in events'
      BY Zenon, <1>2, <3>1 DEF Reads, EventTypes
    <3>3. Announced(k)'
      BY Zenon, <2>1, <3>1, <3>2 DEF Announcement
    <3>4. QED
      BY Zenon, <3>3
  <2>3. QED
    BY Zenon, <1>1, <2>1, <2>2
<1>3. CASE WritesOut(r)
  <2>1. pc[r] \in Holding /\ pc[r] \in Writing /\ WriteOut(r, WriterVia(r))
    BY Zenon, <1>3 DEF WritesOut, Writing, Holding
  <2>2. CASE files'[k] = files[k]
    BY ZenonT(40), <1>1, <2>1, <2>2 DEF Writing, Added, Modified
  <2>3. CASE files'[k] # files[k]
    <3>1. OutResult(r) = "written" /\ k = arg[r].key
      BY ZenonT(40), <2>1, <2>3, WriteEffect, WriteRecorded
    <3>2. files'[k] = Written(r)
      BY ZenonT(40), <2>1, <3>1, AcceptedWritten DEF Accepted
    <3>3. /\ pc'[r] \in {Added, Modified, "updateRemove"} /\ arg'[r] = arg[r]
          /\ out'[r] = Written(r)
      BY Zenon, <1>3, <3>1 DEF WritesOut, Accepted
    <3>4. Announces(r, k)'
      BY Zenon, <3>1, <3>2, <3>3
    <3>5. QED
      BY Zenon, <3>4
  <2>4. QED
    BY Zenon, <2>2, <2>3
<1>4. CASE RemovesOut(r)
  <2>1. pc[r] \in Holding /\ \E via : RemoveOut(r, via)
    BY Zenon, <1>4 DEF RemovesOut, Holding
  <2>2. /\ files'[arg[r].key] = ErrNotExist
        /\ \A j \in Keys : j # arg[r].key => files'[j] = files[j]
    BY Zenon, <2>1, RemoveOutEffect
  <2>3. arg[r].key # k /\ files'[k] = files[k]
    BY Zenon, <2>2 DEF Exists
  <2>4. QED
    BY Zenon, <1>1, <2>3
<1>5. CASE Visit(r)
  <2>1. PICK i \in todo[r] :
          \/ Exists(i.key) /\ RemoveFile(i.key, i.obj, "collection")
          \/ ~Exists(i.key) /\ UNCHANGED <<fsVars, removals>>
    BY Zenon, <1>5 DEF Visit
  <2>2. i.key \in Keys
    BY DEF TypeInv, TypeOK, Item
  <2>3. files'[k] = files[k]
    BY Zenon, <2>1, <2>2, RemoveFileEffect DEF fsVars, Exists
  <2>4. pc[r] = "visit"
    BY Zenon, <1>5 DEF Visit
  <2>5. QED
    BY Zenon, <1>1, <2>3, <2>4 DEF Added, Modified
<1>6. QED
  BY Zenon, <1>2, <1>3, <1>4, <1>5 DEF OneSteps

-----------------------------------------------------------------------------
(* The rest of the invariant: what the requests under way owe. *)
RequestInv == Contention /\ DrainedIsBeingRemoved /\ LiveStateAnnounced

LEMMA RequestInit == Init => RequestInv
<1> SUFFICES ASSUME Init PROVE RequestInv
  BY Zenon
<1>1. /\ \A r \in Requests : pc[r] = "idle"
      /\ \A k \in Keys : ~Exists(k)
  BY Zenon DEF Init, NewMemoryFS, Exists
<1>2. QED
  BY Zenon, <1>1 DEF RequestInv, Contention, RetriesPaid, GivesUpOnlyUnderContention,
       DrainedIsBeingRemoved, LiveStateAnnounced

LEMMA RequestNext == TypeInv /\ StoreInv /\ [Next]_vars /\ RequestInv => RequestInv'
<1> SUFFICES ASSUME TypeInv, StoreInv, [Next]_vars, RequestInv PROVE RequestInv'
  BY Zenon
<1>1. ASSUME NEW r \in Requests, OneSteps(r)
      PROVE  RequestInv'
  BY Zenon, <1>1, ContentionNext, DrainedNext, AnnouncedNext DEF RequestInv
<1>2. CASE UNCHANGED vars
  <2>1. UNCHANGED <<files, rev, pc, arg, out, tries, events, born>>
    BY Zenon, <1>2 DEF vars, reqVars
  <2>2. Contention'
    BY Zenon, <2>1 DEF RequestInv, Contention, RetriesPaid, GivesUpOnlyUnderContention, Exists
  <2>3. DrainedIsBeingRemoved' /\ LiveStateAnnounced'
    BY <2>1 DEF RequestInv, DrainedIsBeingRemoved, LiveStateAnnounced, Exists
  <2>4. QED
    BY Zenon, <2>2, <2>3 DEF RequestInv
<1>3. QED
  BY Zenon, <1>1, <1>2, StepShape

LEMMA RequestsCorrect == Spec => []RequestInv
BY RequestInit, RequestNext, StoreCorrect, PTL DEF Spec

(* An object that is being deleted and has no finalizer left is never left behind:
   the update that took the last one goes on to remove it. *)
THEOREM DrainedRemoved == Spec => []DrainedIsBeingRemoved
<1>1. RequestInv => DrainedIsBeingRemoved
  BY Zenon DEF RequestInv
<1>2. QED
  BY <1>1, RequestsCorrect, PTL

(* No write is silent: every stored state was passed to notifyWatchers, or is about to
   be by the request that wrote it. *)
THEOREM StateAnnounced == Spec => []LiveStateAnnounced
<1>1. RequestInv => LiveStateAnnounced
  BY Zenon DEF RequestInv
<1>2. QED
  BY <1>1, RequestsCorrect, PTL

(* guaranteedUpdate answers InternalError only if at least maxAttempts writes were
   accepted since the request started. *)
THEOREM GivesUpRightly == Spec => []GivesUpOnlyUnderContention
<1>1. RequestInv => GivesUpOnlyUnderContention
  BY Zenon DEF RequestInv, Contention
<1>2. QED
  BY <1>1, RequestsCorrect, PTL

(* The whole invariant of the handlers, which the run checks on small instances, holds
   for any number of requests, keys and values. *)
THEOREM HandlersCorrect == Spec => []IInv
<1>1. /\ TypeInv /\ StoreInv /\ RequestInv /\ NoZombie /\ CreatedObjectsSurvive => IInv
  BY Zenon DEF TypeInv, StoreInv, RequestInv, Contention, IInv
<1>2. QED
  BY <1>1, StoreCorrect, RequestsCorrect, NoZombies, CreatedSurvive, PTL
=============================================================================
