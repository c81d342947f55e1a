-------------------------- MODULE Informer_proofs --------------------------
(***************************************************************************)
(* The informer follows the store, for any number of requests, keys,       *)
(* values and watches: what it has of an object is the object in the store *)
(* or will be once all that is under way has arrived, and it never goes    *)
(* back to an older version, except where changes of the object overlapped *)
(* or nobody told it of a removal.                                         *)
(***************************************************************************)
EXTENDS Informer, FilepathREST_proofs, TLAPS

Opening == {"idle", "newWatch", "created", "Start"}

Serving == session # Nil /\ watch[session] = "serving"

(* What the session has yet to pass on of k. *)
OnWay(k) == IF session = Nil THEN {} ELSE {e \in queue[session] : e.key = k}

(* The types of the watches and of the informer. *)
WatchTypes ==
  /\ readers \subseteq {r \in Requests : pc[r] \in EventTypes}
  /\ nodes \subseteq Watches
  /\ watch \in [Watches -> W!WatchStates]
  /\ relay \in [Watches -> W!RelayStates]
  /\ queue \in [Watches -> SUBSET Event]
  /\ stopCh \subseteq Watches /\ updateCh \subseteq Watches
  /\ writer \in Watches \cup {Nil}
  /\ \A w \in Watches : watch[w] \in W!Locking <=> writer = w
  /\ sends \in [Requests -> SUBSET Watches]
  /\ target \in [Requests -> Watches \cup {Nil}]

ClientTypes ==
  /\ reflector \in {"watchList", "list", "watch", "streaming"}
  /\ session \in Watches \cup {Nil}
  /\ reflector = "streaming" <=> session # Nil
  /\ cache \in [Keys -> File]
  /\ raced \subseteq Keys /\ deaf \subseteq Keys

(* Which watches are in the set, whose channels are open, and what is queued. *)
Sessions ==
  /\ \A w \in Watches :
       /\ watch[w] \in Opening => w \notin nodes /\ relay[w] = "none"
       /\ watch[w] = "serving" => w \in nodes
       /\ watch[w] \in Opening \cup {"serving"} => w \notin stopCh \cup updateCh
       /\ queue[w] = {} <=> relay[w] # "send"
       /\ \A d, e \in queue[w] : d.key = e.key => d = e
  /\ session # Nil => watch[session] \in Opening \cup {"serving"}
  /\ \A r \in Requests : target[r] = Nil => sends[r] = {}

(* Unless changes of k overlapped, whoever has yet to announce what it did to k is
   about to announce the state of k. *)
CopiesCurrent ==
  \A k \in Keys \ raced : \A r \in Unannounced(k) :
    IF pc[r] = Deleted THEN ~Exists(k) ELSE out[r] = files[k]

Current(e) == IF e.type = Deleted THEN ~Exists(e.key) ELSE e.obj = files[e.key]

(* The session will be told of the state of k by a request. *)
Told(k) == \E r \in Unannounced(k) : r \notin readers \/ session \in sends[r]

(* The informer has the state of k, or the session is about to pass it on. *)
Tracks(k) ==
  /\ \A e \in OnWay(k) : Current(e)
  /\ cache[k] = files[k] \/ OnWay(k) # {}

CacheKept ==
  \A k \in Keys \ raced :
    \/ Told(k)
    \/ Exists(k) /\ (Serving => Tracks(k))
    \/ ~Exists(k) /\ (reflector \in {"watch", "streaming"} => k \in deaf \/ Tracks(k))

(* Versions only grow along the way from the store to the informer. *)
Older(o, p) == o # ErrNotExist /\ p # ErrNotExist => o.version <= p.version

VersionsGrow ==
  /\ \A k \in Keys : cache[k] # ErrNotExist => cache[k].version <= rev
  /\ \A w \in Watches : \A e \in queue[w] : e.obj.version <= rev
  /\ \A k \in Keys \ raced :
       /\ Older(cache[k], files[k])
       /\ \A e \in OnWay(k) : e.type # Deleted =>
            Older(cache[k], e.obj) /\ Older(e.obj, files[k])

InformerInv == WatchTypes /\ ClientTypes /\ Sessions /\ CopiesCurrent /\ CacheKept /\ VersionsGrow

-----------------------------------------------------------------------------
(* At first nothing is stored, watched or known. *)
LEMMA InformerInit == SystemInit => InformerInv
<1> SUFFICES ASSUME SystemInit PROVE InformerInv
  BY Zenon
<1> USE InformerAssumption
<1>1. /\ \A k \in Keys : ~Exists(k) /\ cache[k] = ErrNotExist
      /\ \A r \in Requests : pc[r] = "idle"
      /\ session = Nil /\ reflector = "watchList" /\ raced = {}
  BY Zenon DEF SystemInit, Init, NewMemoryFS, Unwatched, Exists
<1>2. WatchTypes
  BY Zenon DEF SystemInit, Unwatched, WatchTypes, W!WatchStates, W!RelayStates, W!Locking
<1>3. ClientTypes
  BY Zenon DEF SystemInit, Unwatched, ClientTypes, File
<1>4. Sessions
  BY Zenon DEF SystemInit, Unwatched, Sessions, Opening
<1>5. CopiesCurrent
  BY Zenon, <1>1 DEF CopiesCurrent, Unannounced, EventTypes, Added, Modified, Deleted
<1>6. CacheKept
  BY Zenon, <1>1 DEF CacheKept
<1>7. VersionsGrow
  BY Zenon, <1>1 DEF VersionsGrow, Older, OnWay, SystemInit, Unwatched
<1>8. QED
  BY Zenon, <1>2, <1>3, <1>4, <1>5, <1>6, <1>7 DEF InformerInv

-----------------------------------------------------------------------------
(* What the steps of WatchSet do to the variables of the composition. *)

(* How far notifyWatchers is follows from where the request is. *)
LEMMA NotifyStages ==
  ASSUME NEW r \in Requests
  PROVE  /\ NotifyOf(r) = "stored" => pc[r] \in EventTypes /\ r \notin readers
         /\ NotifyOf(r) = "sending" => pc[r] \in EventTypes /\ r \in readers
  BY Zenon DEF NotifyOf, Replies, EventTypes, Added, Modified, Deleted

(* The loop over nodes goes on with one of ws, or ends. *)
LEMMA SendToEffect ==
  ASSUME WatchTypes, NEW r \in Requests, NEW ws \in SUBSET Watches, W!SendTo(r, ws)
  PROVE  /\ sends' = [sends EXCEPT ![r] = ws]
         /\ target' \in [Requests -> Watches \cup {Nil}]
         /\ target'[r] \in ws \/ (target'[r] = Nil /\ ws = {})
         /\ \A q \in Requests : q # r => target'[q] = target[q]
  BY Zenon DEF W!SendTo, WatchTypes

(* RLock: the request is inside the read lock, and the nodes are left to send to. *)
LEMMA RLockEffect ==
  ASSUME WatchTypes, NEW r \in Requests, W!RLock(r)
  PROVE  /\ pc[r] \in EventTypes /\ r \notin readers
         /\ readers' = readers \cup {r}
         /\ W!SendTo(r, nodes)
         /\ UNCHANGED <<writer, nodes, watch, relay, queue, stopCh, updateCh>>
  BY Zenon, NotifyStages DEF W!RLock, W!watchVars

(* A send: the goroutine of the target takes the event of the request. *)
LEMMA SendEffect ==
  ASSUME WatchTypes, NEW r \in Requests, W!Send(r)
  PROVE  /\ pc[r] \in EventTypes /\ r \in readers
         /\ target[r] # Nil /\ target[r] \in Watches /\ relay[target[r]] = "recv"
         /\ W!Relay(target[r], {EventOf(r)} \cap Event)
         /\ W!SendTo(r, sends[r] \ {target[r]})
         /\ UNCHANGED <<writer, readers, nodes, watch, stopCh, updateCh>>
  BY Zenon, NotifyStages DEF W!Send, W!mutex, WatchTypes

(* RUnlock: the request has nobody left to send to, and leaves the read lock. *)
LEMMA RUnlockEffect ==
  ASSUME WatchTypes, NEW r \in Requests, W!RUnlock(r)
  PROVE  /\ pc[r] \in EventTypes /\ r \in readers /\ target[r] = Nil
         /\ readers' = readers \ {r}
         /\ UNCHANGED <<writer, nodes, watch, relay, queue, stopCh, updateCh, sends, target>>
  BY Zenon, NotifyStages DEF W!RUnlock, W!watchVars

-----------------------------------------------------------------------------
(* A step of a request up to the announcement, seen from the informer: it leaves the
   files alone and nothing is left to announce; it puts an object under its key, or
   finds the same one there; it takes the object away; or it visits a collection. *)
Stays(r) ==
  /\ UNCHANGED <<files, rev>>
  /\ pc'[r] \notin EventTypes \cup {"updateRemove"}
  /\ pc[r] = "updateRemove" => ~Exists(arg[r].key)

Puts(r) ==
  /\ pc[r] # "updateRemove" /\ pc[r] # "visit"
  /\ pc'[r] \in {Added, Modified, "updateRemove"}
  /\ arg'[r] = arg[r] /\ arg[r].key \in Keys
  /\ out'[r] = files'[arg[r].key] /\ files'[arg[r].key] # ErrNotExist
  /\ \A j \in Keys : j # arg[r].key => files'[j] = files[j]
  /\ \/ UNCHANGED <<files, rev>>
     \/ rev' = rev + 1 /\ files'[arg[r].key].version = rev + 1

Takes(r) ==
  /\ pc[r] # "visit"
  /\ pc'[r] = Deleted
  /\ arg'[r] = arg[r] /\ arg[r].key \in Keys
  /\ files'[arg[r].key] = ErrNotExist
  /\ \A j \in Keys : j # arg[r].key => files'[j] = files[j]
  /\ UNCHANGED rev

Visits(r) ==
  /\ pc[r] = "visit" /\ pc'[r] = "visit"
  /\ \A k \in Keys : files'[k] \in {files[k], ErrNotExist}
  /\ UNCHANGED rev

(* A step up to the announcement is one of these. *)
LEMMA HandleShape ==
  ASSUME TypeInv, StoreInv, NEW r \in Requests, pc[r] \notin EventTypes, RequestStep(r)
  PROVE  OthersSame(r) /\ (Stays(r) \/ Puts(r) \/ Takes(r) \/ Visits(r))
<1>1. OneSteps(r)
  BY Zenon, RequestShape
<1>2. OthersSame(r)
  BY Zenon, <1>1 DEF OneSteps
<1>3. ASSUME Reads(r) PROVE Stays(r)
  BY Zenon, <1>3 DEF Reads, Stays, Replies, EventTypes, Added, Modified, Deleted
<1>4. ASSUME WritesOut(r) PROVE Stays(r) \/ Puts(r)
  <2>1. pc[r] \in Holding /\ pc[r] # "updateRemove" /\ pc[r] # "visit" /\ WriteOut(r, WriterVia(r))
    BY Zenon, <1>4 DEF WritesOut, Writing, Holding
  <2>2. /\ arg[r] \in Arg /\ out[r] \in versionedData
        /\ \/ /\ OutResult(r) # "written"
              /\ UNCHANGED <<files, rev, history>>
           \/ /\ OutResult(r) = "written"
              /\ rev' = rev + 1
              /\ files' = [files EXCEPT ![arg[r].key] =
                             [version |-> rev + 1, data |-> out[r].data]]
    BY Zenon, <2>1, WriteEffect
  <2>3. CASE ~Accepted(r)
    BY Zenon, <1>4, <2>1, <2>2, <2>3
       DEF WritesOut, Stays, Accepted, Replies, EventTypes, Added, Modified, Deleted
  <2>4. CASE Accepted(r)
    <3>1. OutResult(r) # "VersionError"
      BY Zenon, <2>4 DEF Accepted
    <3>2. /\ pc'[r] \in {Added, Modified, "updateRemove"}
          /\ arg'[r] = arg[r] /\ out'[r] = Written(r)
      BY Zenon, <1>4, <2>4, <3>1 DEF WritesOut
    <3>3. arg[r].key \in Keys
      BY Zenon, <2>2 DEF Arg
    <3>4. CASE OutResult(r) = "written"
      <4>1. /\ files'[arg[r].key] = [version |-> rev + 1, data |-> out[r].data]
            /\ \A j \in Keys : j # arg[r].key => files'[j] = files[j]
            /\ rev' = rev + 1
        BY Zenon, <2>2, <3>3, <3>4 DEF TypeInv, TypeOK
      <4>2. Written(r) = [version |-> rev + 1, data |-> out[r].data]
        BY Zenon, <3>4 DEF Written, WriteVersion, OutResult
      <4>3. files'[arg[r].key] # ErrNotExist
        <5>1. [version |-> rev + 1, data |-> out[r].data] \in versionedData
          BY <2>2 DEF TypeInv, TypeOK, versionedData
        <5>2. QED
          BY Zenon, <4>1, <5>1, ErrNotExistAssumption
      <4>4. files'[arg[r].key].version = rev + 1
        BY SMT, <4>1
      <4>5. QED
        BY Zenon, <2>1, <3>2, <3>3, <4>1, <4>2, <4>3, <4>4 DEF Puts
    <3>5. CASE OutResult(r) = "unchanged"
      <4>1. UNCHANGED <<files, rev>>
        BY Zenon, <2>2, <3>5
      <4>2. /\ files[arg[r].key] \in versionedData /\ Exists(arg[r].key)
            /\ files[arg[r].key].version = out[r].version
            /\ files[arg[r].key].data = out[r].data
        BY Zenon, <3>3, <3>5 DEF OutResult, WriteResult, TypeInv, TypeOK, File, Exists
      <4>3. Written(r) = [version |-> out[r].version, data |-> out[r].data]
        BY Zenon, <3>5 DEF Written, WriteVersion, OutResult
      <4>4. Written(r) = files[arg[r].key]
        BY <4>2, <4>3 DEF versionedData
      <4>5. QED
        BY Zenon, <2>1, <3>2, <3>3, <4>1, <4>2, <4>4 DEF Puts, Exists
    <3>6. QED
      BY Zenon, <2>4, <3>4, <3>5 DEF Accepted
  <2>5. QED
    BY Zenon, <2>3, <2>4
<1>5. ASSUME RemovesOut(r) PROVE Stays(r) \/ Takes(r)
  <2>1. pc[r] \in Holding /\ pc[r] # "visit" /\ \E via : RemoveOut(r, via)
    BY Zenon, <1>5 DEF RemovesOut, Holding
  <2>2. arg[r].key \in Keys
    BY Zenon, <2>1 DEF TypeInv, LocalsSet, Arg
  <2>3. CASE Exists(arg[r].key)
    <3>1. /\ files' = [files EXCEPT ![arg[r].key] = ErrNotExist] /\ UNCHANGED rev
          /\ Goto(r, Deleted, arg[r], out[r], tries[r])
      BY Zenon, <2>1, <2>3 DEF RemoveOut, RemoveFile, Remove
    <3>2. pc'[r] = Deleted /\ arg'[r] = arg[r]
      BY Zenon, <3>1, GotoEffect
    <3>3. QED
      BY Zenon, <2>1, <2>2, <3>1, <3>2 DEF Takes, TypeInv, TypeOK
  <2>4. CASE ~Exists(arg[r].key)
    <3>1. UNCHANGED <<files, rev>> /\ Return(r, "NotFound")
      BY Zenon, <2>1, <2>4 DEF RemoveOut, fsVars
    <3>2. pc'[r] = "NotFound"
      BY Zenon, <3>1, ReturnEffect
    <3>3. QED
      BY Zenon, <2>4, <3>1, <3>2 DEF Stays, EventTypes, Added, Modified, Deleted
  <2>5. QED
    BY Zenon, <2>3, <2>4
<1>6. ASSUME Visit(r) PROVE Visits(r)
  BY Zenon, <1>6 DEF Visit, Visits, RemoveFile, Remove, fsVars, TypeInv, TypeOK
<1>7. QED
  BY Zenon, <1>1, <1>2, <1>3, <1>4, <1>5, <1>6 DEF OneSteps

(* No version in the store or in an announcement is newer than the counter. *)
LEMMA VersionsBounded ==
  ASSUME TypeInv, StoreInv
  PROVE  /\ rev \in Nat
         /\ \A k \in Keys : Exists(k) => files[k] \in versionedData /\ files[k].version <= rev
         /\ \A r \in Requests : pc[r] \in EventTypes =>
              out[r] \in versionedData /\ arg[r].key \in Keys /\ out[r].version <= rev
<1>1. rev \in Nat
  BY Zenon DEF TypeInv, TypeOK
<1>2. ASSUME NEW k \in Keys, Exists(k)
      PROVE  files[k] \in versionedData /\ files[k].version <= rev
  <2>1. files[k] \in versionedData
    BY Zenon, <1>2 DEF TypeInv, TypeOK, File, Exists
  <2>2. PICK w \in history : Names(k, files[k], w)
    BY Zenon, <1>2 DEF StoreInv, FilesCurrent
  <2>3. w.version <= rev
    BY Zenon DEF StoreInv, HistoryOrdered
  <2>4. QED
    BY Zenon, <2>1, <2>2, <2>3 DEF Names
<1>3. ASSUME NEW r \in Requests, pc[r] \in EventTypes
      PROVE  out[r] \in versionedData /\ arg[r].key \in Keys /\ out[r].version <= rev
  <2>1. out[r] \in versionedData /\ arg[r].key \in Keys
    BY Zenon, <1>3 DEF TypeInv, LocalsSet, Holding, Arg
  <2>2. PICK w \in history : Names(arg[r].key, out[r], w)
    BY Zenon, <1>3 DEF StoreInv, CopiesNamed
  <2>3. w.version <= rev
    BY Zenon DEF StoreInv, HistoryOrdered
  <2>4. QED
    BY Zenon, <2>1, <2>2, <2>3 DEF Names
<1>4. QED
  BY Zenon, <1>1, <1>2, <1>3

(* What the informer has and what is queued for it has versions. *)
LEMMA CopiesTyped ==
  ASSUME WatchTypes, ClientTypes
  PROVE  /\ \A k \in Keys : cache[k] # ErrNotExist => cache[k].version \in Nat
         /\ \A w \in Watches : \A e \in queue[w] :
              e \in Event /\ e.key \in Keys /\ e.obj \in versionedData /\ e.obj.version \in Nat
<1>1. ASSUME NEW k \in Keys, cache[k] # ErrNotExist PROVE cache[k].version \in Nat
  BY Zenon, <1>1 DEF ClientTypes, File, versionedData
<1>2. ASSUME NEW w \in Watches, NEW e \in queue[w]
      PROVE  e \in Event /\ e.key \in Keys /\ e.obj \in versionedData /\ e.obj.version \in Nat
  <2>1. e \in Event
    BY Zenon DEF WatchTypes
  <2>2. e.key \in Keys /\ e.obj \in versionedData
    BY Zenon, <2>1 DEF Event
  <2>3. QED
    BY Zenon, <2>1, <2>2 DEF versionedData
<1>3. QED
  BY Zenon, <1>1, <1>2

(* A request up to its announcement keeps the invariant. *)
LEMMA HandleKeeps ==
  ASSUME TypeInv, StoreInv, InformerInv, NEW r \in Requests, Handle(r)
  PROVE  InformerInv'
<1>1. /\ WatchTypes /\ ClientTypes /\ Sessions /\ CopiesCurrent /\ CacheKept /\ VersionsGrow
      /\ pc[r] \notin EventTypes /\ r \notin readers
  BY Zenon DEF InformerInv, Handle, WatchTypes
<1>2. /\ UNCHANGED <<writer, readers, nodes, watch, relay, queue, stopCh, updateCh, sends,
                     target, reflector, session, cache>>
      /\ raced' = {k \in Keys : IF files'[k] = files[k] THEN k \in raced
                                ELSE Unannounced(k) \ {r} # {} \/ (k \in raced /\ Queued(k))}
      /\ deaf' = IF pc[r] = "visit" THEN deaf \cup {k \in Keys : files'[k] # files[k]} ELSE deaf
  BY Zenon DEF Handle, watchVars, clientVars
<1>3. OthersSame(r) /\ (Stays(r) \/ Puts(r) \/ Takes(r) \/ Visits(r))
  BY Zenon, <1>1, HandleShape DEF Handle
<1>4. /\ rev \in Nat /\ rev' \in Nat /\ rev <= rev'
      /\ \A k \in Keys : files'[k] # files[k] => files'[k] = ErrNotExist \/ files'[k].version > rev
  <2>1. rev \in Nat
    BY Zenon, VersionsBounded
  <2>2. CASE UNCHANGED rev /\ \A k \in Keys : files'[k] \in {files[k], ErrNotExist}
    BY <2>1, <2>2
  <2>3. CASE Stays(r) \/ Takes(r) \/ Visits(r) \/ (Puts(r) /\ UNCHANGED <<files, rev>>)
    BY Zenon, <2>2, <2>3 DEF Stays, Takes, Visits
  <2>4. CASE Puts(r) /\ rev' = rev + 1 /\ files'[arg[r].key].version = rev + 1
    BY <2>1, <2>4 DEF Puts
  <2>5. QED
    BY Zenon, <1>3, <2>3, <2>4 DEF Puts
<1>5. WatchTypes' /\ ClientTypes' /\ Sessions'
  <2>1. WatchTypes'
    BY Zenon, <1>1, <1>2, <1>3 DEF WatchTypes, OthersSame
  <2>2. ClientTypes'
    BY Zenon, <1>1, <1>2 DEF ClientTypes
  <2>3. Sessions'
    BY Zenon, <1>1, <1>2 DEF Sessions
  <2>4. QED
    BY Zenon, <2>1, <2>2, <2>3
<1>6. CopiesCurrent'
  <2> SUFFICES ASSUME NEW k \in Keys, k \notin raced', NEW q \in Requests,
                      pc'[q] \in EventTypes \cup {"updateRemove"}, arg'[q].key = k
               PROVE  IF pc'[q] = Deleted THEN files'[k] = ErrNotExist ELSE out'[q] = files'[k]
    BY Zenon DEF CopiesCurrent, Unannounced, Exists
  <2>1. CASE q = r
    BY Zenon, <1>3, <2>1 DEF Stays, Puts, Takes, Visits, EventTypes, Added, Modified, Deleted
  <2>2. CASE q # r
    <3>1. q \in Unannounced(k) \ {r} /\ pc'[q] = pc[q] /\ out'[q] = out[q]
      BY Zenon, <1>3, <2>2 DEF OthersSame, Unannounced
    <3>2. files'[k] = files[k] /\ k \notin raced
      BY Zenon, <1>2, <3>1
    <3>3. QED
      BY Zenon, <1>1, <3>1, <3>2 DEF CopiesCurrent, Exists
  <2>3. QED
    BY Zenon, <2>1, <2>2
<1>7. CacheKept'
  <2> SUFFICES ASSUME NEW k \in Keys, k \notin raced', ~Told(k)'
               PROVE  \/ Exists(k)' /\ (Serving => Tracks(k))'
                      \/ /\ ~Exists(k)'
                         /\ (reflector \in {"watch", "streaming"} => k \in deaf \/ Tracks(k))'
    BY Zenon DEF CacheKept
  <2>1. \A q \in Requests : ~(/\ pc'[q] \in EventTypes \cup {"updateRemove"} /\ arg'[q].key = k
                              /\ q \notin readers \/ session \in sends[q])
    BY Zenon, <1>2 DEF Told, Unannounced
  <2>2. CASE files'[k] = files[k]
    <3>1. k \notin raced
      BY Zenon, <1>2, <2>2
    <3>2. ~Told(k)
      <4> SUFFICES ASSUME NEW q \in Unannounced(k), q \notin readers \/ session \in sends[q]
                   PROVE  FALSE
        BY Zenon DEF Told
      <4>1. q = r
        BY Zenon, <1>3, <2>1 DEF OthersSame, Unannounced
      <4>2. pc[r] = "updateRemove" /\ arg[r].key = k
        BY Zenon, <1>1, <4>1 DEF Unannounced
      <4>3. out[r] = files[k] /\ out[r] \in versionedData
        BY Zenon, <1>1, <3>1, <4>1, <4>2 DEF CopiesCurrent, Deleted, TypeInv, LocalsSet, Holding
      <4>4. Exists(k)
        BY Zenon, <4>3, ErrNotExistAssumption DEF Exists
      <4>5. Takes(r)
        BY Zenon, <1>3, <4>2, <4>4 DEF Stays, Puts, Visits
      <4>6. QED
        BY Zenon, <1>1, <2>1, <4>2, <4>5 DEF Takes, EventTypes
    <3>3. (Exists(k)' <=> Exists(k)) /\ (Serving' <=> Serving) /\ (Tracks(k) => Tracks(k)')
      BY Zenon, <1>2, <2>2 DEF Exists, Serving, Tracks, OnWay, Current
    <3>4. deaf \subseteq deaf'
      BY Zenon, <1>2
    <3>5. QED
      BY Zenon, <1>1, <1>2, <3>1, <3>2, <3>3, <3>4 DEF CacheKept
  <2>3. CASE files'[k] # files[k]
    <3>1. ~Puts(r) /\ ~Takes(r)
      BY Zenon, <1>1, <2>1, <2>3 DEF Puts, Takes, EventTypes
    <3>2. Visits(r)
      BY Zenon, <1>3, <2>3, <3>1 DEF Stays
    <3>3. k \in deaf' /\ files'[k] = ErrNotExist
      BY Zenon, <1>2, <2>3, <3>2 DEF Visits
    <3>4. QED
      BY Zenon, <3>3 DEF Exists
  <2>4. QED
    BY Zenon, <2>2, <2>3
<1>8. VersionsGrow'
  <2>1. ASSUME NEW k \in Keys, cache[k] # ErrNotExist
        PROVE  cache[k].version \in Nat /\ cache[k].version <= rev
    BY Zenon, <1>1, <2>1, CopiesTyped DEF VersionsGrow
  <2>2. ASSUME NEW w \in Watches, NEW e \in queue[w]
        PROVE  e.obj.version \in Nat /\ e.obj.version <= rev
    BY Zenon, <1>1, CopiesTyped DEF VersionsGrow
  <2>3. /\ \A k \in Keys : cache'[k] # ErrNotExist => cache'[k].version <= rev'
        /\ \A w \in Watches : \A e \in queue'[w] : e.obj.version <= rev'
    BY <1>2, <1>4, <2>1, <2>2
  <2>4. ASSUME NEW k \in Keys, k \notin raced'
        PROVE  /\ Older(cache[k], files'[k])
               /\ \A e \in OnWay(k) : e.type # Deleted =>
                    Older(cache[k], e.obj) /\ Older(e.obj, files'[k])
    <3>1. CASE files'[k] = files[k]
      BY Zenon, <1>1, <1>2, <2>4, <3>1 DEF VersionsGrow
    <3>2. CASE files'[k] # files[k]
      <4>1. k \notin raced \/ OnWay(k) = {}
        BY Zenon, <1>1, <1>2, <2>4, <3>2 DEF Queued, OnWay, ClientTypes
      <4>2. \A e \in OnWay(k) : e.type # Deleted => Older(cache[k], e.obj)
        BY Zenon, <1>1, <4>1 DEF VersionsGrow
      <4>3. \A e \in OnWay(k) : e.obj.version \in Nat /\ e.obj.version <= rev
        BY Zenon, <1>1, <2>2 DEF OnWay, ClientTypes
      <4>4. files'[k] = ErrNotExist \/ files'[k].version > rev
        BY Zenon, <1>4, <3>2
      <4>5. QED
        <5>1. CASE files'[k] = ErrNotExist
          BY Zenon, <4>2, <5>1 DEF Older
        <5>2. CASE files'[k].version > rev
          <6>1. TypeInv'
            BY Zenon, TypeNext DEF Handle, Next
          <6>2. files'[k] = ErrNotExist \/ files'[k].version \in Nat
            BY Zenon, <6>1 DEF TypeInv, TypeOK, File, versionedData
          <6>3. QED
            BY <1>4, <2>1, <4>2, <4>3, <5>2, <6>2 DEF Older
        <5>3. QED
          BY Zenon, <4>4, <5>1, <5>2
    <3>3. QED
      BY Zenon, <3>1, <3>2
  <2>5. QED
    BY Zenon, <1>2, <2>3, <2>4 DEF VersionsGrow, OnWay
<1>9. QED
  BY Zenon, <1>5, <1>6, <1>7, <1>8 DEF InformerInv

-----------------------------------------------------------------------------
(* notifyWatchers. *)

(* RLock: a request that had yet to tell the informer will tell its session, if that is
   in the set; if not, a removal makes the informer deaf. *)
LEMMA RLockKeeps ==
  ASSUME TypeInv, StoreInv, InformerInv, NEW r \in Requests,
         UNCHANGED <<vars, clientVars, raced>>, W!RLock(r),
         deaf' = IF pc[r] = Deleted /\ session \notin nodes THEN deaf \cup {arg[r].key} ELSE deaf
  PROVE  InformerInv'
<1> USE InformerAssumption
<1>1. WatchTypes /\ ClientTypes /\ Sessions /\ CopiesCurrent /\ CacheKept /\ VersionsGrow
  BY Zenon DEF InformerInv
<1>2. UNCHANGED <<files, rev, pc, arg, out, reflector, session, cache, raced>>
  BY Zenon DEF vars, reqVars, clientVars
<1>3. /\ pc[r] \in EventTypes /\ r \notin readers /\ readers' = readers \cup {r}
      /\ UNCHANGED <<writer, nodes, watch, relay, queue, stopCh, updateCh>>
  BY Zenon, <1>1, RLockEffect
<1>4. /\ sends' = [sends EXCEPT ![r] = nodes]
      /\ target' \in [Requests -> Watches \cup {Nil}]
      /\ target'[r] \in nodes \/ (target'[r] = Nil /\ nodes = {})
      /\ \A q \in Requests : q # r => target'[q] = target[q]
  <2>1. nodes \in SUBSET Watches /\ W!SendTo(r, nodes)
    BY Zenon, <1>1, RLockEffect DEF WatchTypes
  <2>2. QED
    BY Zenon, <1>1, <2>1, SendToEffect
<1>5. sends'[r] = nodes /\ \A q \in Requests : q # r => sends'[q] = sends[q]
  BY Zenon, <1>1, <1>4 DEF WatchTypes
<1>6. WatchTypes'
  BY Zenon, <1>1, <1>2, <1>3, <1>4 DEF WatchTypes
<1>7. ClientTypes'
  <2>1. arg[r].key \in Keys
    BY Zenon, <1>3, VersionsBounded
  <2>2. QED
    BY Zenon, <1>1, <1>2, <2>1 DEF ClientTypes
<1>8. Sessions'
  <2>1. nodes \subseteq Watches
    BY Zenon, <1>1 DEF WatchTypes
  <2>2. ASSUME NEW q \in Requests, target'[q] = Nil PROVE sends'[q] = {}
    <3>1. CASE q = r
      BY Zenon, <1>4, <1>5, <2>1, <2>2, <3>1
    <3>2. CASE q # r
      BY Zenon, <1>1, <1>4, <1>5, <2>2, <3>2 DEF Sessions
    <3>3. QED
      BY Zenon, <3>1, <3>2
  <2>3. QED
    BY Zenon, <1>1, <1>2, <1>3, <2>2 DEF Sessions
<1>9. CopiesCurrent'
  BY Zenon, <1>1, <1>2 DEF CopiesCurrent, Unannounced, Exists
<1>10. CacheKept'
  <2> SUFFICES ASSUME NEW k \in Keys, k \notin raced, ~Told(k)'
               PROVE  \/ Exists(k) /\ (Serving => Tracks(k))
                      \/ /\ ~Exists(k)
                         /\ reflector \in {"watch", "streaming"} => k \in deaf' \/ Tracks(k)
    BY Zenon, <1>2, <1>3 DEF CacheKept, Exists, Serving, Tracks, OnWay, Current
  <2>1. \A q \in Unannounced(k) : ~(q \notin readers' \/ session \in sends'[q])
    BY Zenon, <1>2 DEF Told, Unannounced
  <2>2. CASE Told(k)
    <3>1. r \in Unannounced(k) /\ session \notin nodes
      BY Zenon, <1>3, <1>5, <2>1, <2>2 DEF Told, Unannounced
    <3>2. arg[r].key = k /\ out[r] \in versionedData
      BY Zenon, <1>3, <3>1, VersionsBounded DEF Unannounced
    <3>3. ~Serving
      BY Zenon, <1>1, <3>1 DEF Serving, Sessions, ClientTypes
    <3>4. CASE Exists(k)
      BY Zenon, <3>3, <3>4
    <3>5. CASE ~Exists(k)
      <4>1. pc[r] = Deleted
        BY Zenon, <1>1, <3>1, <3>2, <3>5, ErrNotExistAssumption DEF CopiesCurrent, Exists
      <4>2. QED
        BY Zenon, <3>1, <3>2, <3>5, <4>1
    <3>6. QED
      BY Zenon, <3>4, <3>5
  <2>3. CASE ~Told(k)
    <3>1. deaf \subseteq deaf'
      BY Zenon
    <3>2. QED
      BY Zenon, <1>1, <2>3, <3>1 DEF CacheKept
  <2>4. QED
    BY Zenon, <2>2, <2>3
<1>11. VersionsGrow'
  BY Zenon, <1>1, <1>2, <1>3 DEF VersionsGrow, OnWay
<1>12. QED
  BY Zenon, <1>6, <1>7, <1>8, <1>9, <1>10, <1>11 DEF InformerInv

(* A send: what the session gets is the state of the object, unless changes of it
   overlapped, and the session had nothing else left to pass on. *)
LEMMA SendKeeps ==
  ASSUME TypeInv, StoreInv, InformerInv, NEW r \in Requests,
         UNCHANGED <<vars, clientVars, lapses>>, W!Send(r)
  PROVE  InformerInv'
<1> USE InformerAssumption
<1> DEFINE w == target[r]
           e == [type |-> pc[r], key |-> arg[r].key, obj |-> out[r]]
<1>1. WatchTypes /\ ClientTypes /\ Sessions /\ CopiesCurrent /\ CacheKept /\ VersionsGrow
  BY Zenon DEF InformerInv
<1>2. UNCHANGED <<files, rev, pc, arg, out, reflector, session, cache, raced, deaf>>
  BY Zenon DEF vars, reqVars, clientVars, lapses
<1>3. /\ pc[r] \in EventTypes /\ r \in readers /\ w \in Watches /\ relay[w] = "recv"
      /\ W!Relay(w, {EventOf(r)} \cap Event)
      /\ UNCHANGED <<writer, readers, nodes, watch, stopCh, updateCh>>
  BY Zenon, <1>1, SendEffect
<1>4. /\ out[r] \in versionedData /\ arg[r].key \in Keys /\ out[r].version <= rev
      /\ e \in Event /\ EventOf(r) = e
      /\ e.type = pc[r] /\ e.key = arg[r].key /\ e.obj = out[r]
  <2>1. out[r] \in versionedData /\ arg[r].key \in Keys /\ out[r].version <= rev
    BY Zenon, <1>3, VersionsBounded
  <2>2. QED
    BY Zenon, <1>3, <2>1 DEF Event, EventOf
<1> HIDE DEF e
<1>5. queue' = [queue EXCEPT ![w] = {e}] /\ relay' = [relay EXCEPT ![w] = "send"]
  BY Zenon, <1>3, <1>4 DEF W!Relay
<1>6. /\ queue'[w] = {e} /\ relay'[w] = "send" /\ queue[w] = {}
      /\ \A v \in Watches : v # w => queue'[v] = queue[v] /\ relay'[v] = relay[v]
  BY Zenon, <1>1, <1>3, <1>5 DEF WatchTypes, Sessions
<1>7. /\ sends' = [sends EXCEPT ![r] = sends[r] \ {w}]
      /\ target' \in [Requests -> Watches \cup {Nil}]
      /\ target'[r] \in sends[r] \ {w} \/ (target'[r] = Nil /\ sends[r] \ {w} = {})
      /\ \A q \in Requests : q # r => target'[q] = target[q]
  <2>1. sends[r] \ {w} \in SUBSET Watches /\ W!SendTo(r, sends[r] \ {w})
    BY Zenon, <1>1, SendEffect DEF WatchTypes
  <2>2. QED
    BY Zenon, <1>1, <2>1, SendToEffect
<1>8. sends'[r] = sends[r] \ {w} /\ \A q \in Requests : q # r => sends'[q] = sends[q]
  BY Zenon, <1>1, <1>7 DEF WatchTypes
<1>9. WatchTypes'
  <2>1. queue' \in [Watches -> SUBSET Event] /\ relay' \in [Watches -> W!RelayStates]
    BY Zenon, <1>1, <1>4, <1>5 DEF WatchTypes, W!RelayStates
  <2>2. sends' \in [Requests -> SUBSET Watches]
    BY Zenon, <1>1, <1>7 DEF WatchTypes
  <2>3. QED
    BY Zenon, <1>1, <1>2, <1>3, <1>7, <2>1, <2>2 DEF WatchTypes
<1>10. ClientTypes' /\ CopiesCurrent'
  BY Zenon, <1>1, <1>2 DEF ClientTypes, CopiesCurrent, Unannounced, Exists
<1>11. Sessions'
  <2>1. watch[w] \notin Opening
    BY Zenon, <1>1, <1>3 DEF Sessions
  <2>2. ASSUME NEW q \in Requests, target'[q] = Nil PROVE sends'[q] = {}
    <3>1. CASE q = r
      <4>1. sends[r] \subseteq Watches
        BY Zenon, <1>1 DEF WatchTypes
      <4>2. QED
        BY Zenon, <1>7, <1>8, <2>2, <3>1, <4>1
    <3>2. CASE q # r
      BY Zenon, <1>1, <1>7, <1>8, <2>2, <3>2 DEF Sessions
    <3>3. QED
      BY Zenon, <3>1, <3>2
  <2>3. ASSUME NEW v \in Watches
        PROVE  /\ watch[v] \in Opening => relay'[v] = "none"
               /\ queue'[v] = {} <=> relay'[v] # "send"
               /\ \A c, d \in queue'[v] : c.key = d.key => c = d
    <3>1. CASE v = w
      BY Zenon, <1>6, <2>1, <3>1
    <3>2. CASE v # w
      BY Zenon, <1>1, <1>6, <3>2 DEF Sessions
    <3>3. QED
      BY Zenon, <3>1, <3>2
  <2>4. QED
    BY Zenon, <1>1, <1>2, <1>3, <2>2, <2>3 DEF Sessions
<1>12. r \in Unannounced(arg[r].key)
  BY Zenon, <1>3 DEF Unannounced
<1>13. CacheKept'
  <2> SUFFICES ASSUME NEW k \in Keys, k \notin raced, ~Told(k)'
               PROVE  \/ Exists(k) /\ (Serving => Tracks(k)')
                      \/ /\ ~Exists(k)
                         /\ reflector \in {"watch", "streaming"} => k \in deaf \/ Tracks(k)'
    BY Zenon, <1>2, <1>3 DEF CacheKept, Exists, Serving
  <2>1. \A q \in Unannounced(k) : ~(q \notin readers \/ session \in sends'[q])
    BY Zenon, <1>2, <1>3 DEF Told, Unannounced
  <2>2. CASE w = session /\ k = arg[r].key
    <3>1. OnWay(k)' = {e}
      BY Zenon, <1>2, <1>3, <1>4, <1>6, <2>2 DEF OnWay
    <3>2. IF e.type = Deleted THEN ~Exists(k) ELSE e.obj = files[k]
      BY Zenon, <1>1, <1>4, <1>12, <2>2 DEF CopiesCurrent
    <3>3. \A d \in OnWay(k)' : Current(d)'
      BY Zenon, <1>2, <1>4, <2>2, <3>1, <3>2 DEF Current, Exists
    <3>4. QED
      BY Zenon, <3>1, <3>3 DEF Tracks
  <2>3. CASE ~(w = session /\ k = arg[r].key)
    <3>1. ~Told(k)
      <4> SUFFICES ASSUME NEW q \in Unannounced(k), q \notin readers \/ session \in sends[q]
                   PROVE  FALSE
        BY Zenon DEF Told
      <4>1. CASE q = r
        BY Zenon, <1>3, <1>8, <2>1, <2>3, <4>1 DEF Unannounced
      <4>2. CASE q # r
        BY Zenon, <1>8, <2>1, <4>2 DEF Unannounced
      <4>3. QED
        BY Zenon, <4>1, <4>2
    <3>2. OnWay(k)' = OnWay(k)
      <4>1. CASE session = Nil
        BY Zenon, <1>2, <4>1 DEF OnWay
      <4>2. CASE session # Nil /\ session # w
        BY Zenon, <1>1, <1>2, <1>6, <4>2 DEF OnWay, ClientTypes
      <4>3. CASE session # Nil /\ session = w
        BY Zenon, <1>2, <1>4, <1>6, <2>3, <4>3 DEF OnWay
      <4>4. QED
        BY Zenon, <4>1, <4>2, <4>3
    <3>3. Tracks(k) => Tracks(k)'
      BY Zenon, <1>2, <3>2 DEF Tracks, Current, Exists
    <3>4. QED
      BY Zenon, <1>1, <3>1, <3>3 DEF CacheKept
  <2>4. QED
    BY Zenon, <2>2, <2>3
<1>14. VersionsGrow'
  <2>1. \A k \in Keys : cache'[k] # ErrNotExist => cache'[k].version <= rev'
    BY Zenon, <1>1, <1>2 DEF VersionsGrow
  <2>2. ASSUME NEW v \in Watches, NEW d \in queue'[v] PROVE d.obj.version <= rev'
    <3>1. CASE v = w
      BY Zenon, <1>2, <1>4, <1>6, <3>1
    <3>2. CASE v # w
      BY Zenon, <1>1, <1>2, <1>6, <3>2 DEF VersionsGrow
    <3>3. QED
      BY Zenon, <3>1, <3>2
  <2>3. ASSUME NEW k \in Keys, k \notin raced, NEW d \in OnWay(k)', d.type # Deleted
        PROVE  Older(cache[k], d.obj) /\ Older(d.obj, files[k])
    <3>1. CASE d \in OnWay(k)
      BY Zenon, <1>1, <2>3, <3>1 DEF VersionsGrow
    <3>2. CASE d \notin OnWay(k)
      <4>1. d = e /\ k = arg[r].key
        <5>1. session # Nil /\ session \in Watches /\ d \in queue'[session] /\ d.key = k
          BY Zenon, <1>1, <1>2, <2>3 DEF OnWay, ClientTypes
        <5>2. session = w
          BY Zenon, <1>6, <3>2, <5>1 DEF OnWay
        <5>3. QED
          BY Zenon, <1>4, <1>6, <5>1, <5>2
      <4>2. out[r] = files[k]
        BY Zenon, <1>1, <1>4, <1>12, <2>3, <4>1 DEF CopiesCurrent
      <4>3. Older(cache[k], files[k])
        BY Zenon, <1>1, <2>3 DEF VersionsGrow
      <4>4. out[r].version <= out[r].version
        BY <1>4 DEF versionedData
      <4>5. QED
        BY Zenon, <1>4, <4>1, <4>2, <4>3, <4>4 DEF Older
    <3>3. QED
      BY Zenon, <3>1, <3>2
  <2>4. QED
    BY Zenon, <1>1, <1>2, <2>1, <2>2, <2>3 DEF VersionsGrow
<1>15. QED
  BY Zenon, <1>9, <1>10, <1>11, <1>13, <1>14 DEF InformerInv

(* RUnlock: the request has told everyone, so that the informer does not wait for it. *)
LEMMA RUnlockKeeps ==
  ASSUME TypeInv, StoreInv, InformerInv, NEW r \in Requests,
         Notify(r), UNCHANGED <<clientVars, lapses>>, W!RUnlock(r)
  PROVE  InformerInv'
<1>1. WatchTypes /\ ClientTypes /\ Sessions /\ CopiesCurrent /\ CacheKept /\ VersionsGrow
  BY Zenon DEF InformerInv
<1>2. UNCHANGED <<files, rev>>
  BY Zenon DEF Notify, fsVars
<1>3. UNCHANGED <<reflector, session, cache, raced, deaf>>
  BY Zenon DEF clientVars, lapses
<1>4. /\ r \in readers /\ target[r] = Nil /\ readers' = readers \ {r}
      /\ UNCHANGED <<writer, nodes, watch, relay, queue, stopCh, updateCh, sends, target>>
  BY Zenon, <1>1, RUnlockEffect
<1>5. /\ pc'[r] = "ok"
      /\ \A q \in Requests : q # r => pc'[q] = pc[q] /\ arg'[q] = arg[q] /\ out'[q] = out[q]
      /\ "ok" \notin EventTypes \cup {"updateRemove"}
  BY Zenon DEF Notify, Return, TypeInv, TypeOK, EventTypes, Added, Modified, Deleted
<1>6. \A k \in Keys : Unannounced(k)' = Unannounced(k) \ {r}
  BY Zenon, <1>5 DEF Unannounced
<1>7. WatchTypes'
  BY Zenon, <1>1, <1>4, <1>5 DEF WatchTypes
<1>8. ClientTypes' /\ Sessions'
  BY Zenon, <1>1, <1>3, <1>4 DEF ClientTypes, Sessions
<1>9. CopiesCurrent'
  <2> SUFFICES ASSUME NEW k \in Keys, k \notin raced, NEW q \in Unannounced(k)'
               PROVE  IF pc'[q] = Deleted THEN ~Exists(k) ELSE out'[q] = files[k]
    BY Zenon, <1>2, <1>3 DEF CopiesCurrent, Exists
  <2>1. q \in Unannounced(k) /\ q # r /\ q \in Requests
    BY Zenon, <1>6 DEF Unannounced
  <2>2. QED
    BY Zenon, <1>1, <1>5, <2>1 DEF CopiesCurrent
<1>10. CacheKept'
  <2>1. sends[r] = {}
    BY Zenon, <1>1, <1>4 DEF Sessions
  <2>2. ASSUME NEW k \in Keys, Told(k) PROVE Told(k)'
    <3>1. PICK q \in Unannounced(k) : q \notin readers \/ session \in sends[q]
      BY Zenon, <2>2 DEF Told
    <3>2. q # r
      BY Zenon, <1>4, <2>1, <3>1
    <3>3. QED
      BY Zenon, <1>3, <1>4, <1>6, <3>1, <3>2 DEF Told
  <2>3. \A k \in Keys : Tracks(k) => Tracks(k)'
    BY Zenon, <1>2, <1>3, <1>4 DEF Tracks, OnWay, Current, Exists
  <2>4. QED
    BY Zenon, <1>1, <1>2, <1>3, <1>4, <2>2, <2>3 DEF CacheKept, Exists, Serving
<1>11. VersionsGrow'
  BY Zenon, <1>1, <1>2, <1>3, <1>4 DEF VersionsGrow, OnWay
<1>12. QED
  BY Zenon, <1>7, <1>8, <1>9, <1>10, <1>11 DEF InformerInv

-----------------------------------------------------------------------------
(* The watches. *)

(* Steps of the handlers and goroutines that pass nothing to the informer. *)
LEMMA AsideKeeps ==
  ASSUME WatchTypes, ClientTypes, CopiesCurrent, CacheKept, VersionsGrow,
         UNCHANGED <<files, rev, pc, arg, out, readers, sends, clientVars, lapses>>,
         session # Nil => queue'[session] = queue[session],
         Serving' <=> Serving,
         \A w \in Watches : queue'[w] \subseteq queue[w]
  PROVE  ClientTypes' /\ CopiesCurrent' /\ CacheKept' /\ VersionsGrow'
<1>1. UNCHANGED <<reflector, session, cache, raced, deaf>>
  BY Zenon DEF clientVars, lapses
<1>2. ClientTypes' /\ CopiesCurrent'
  BY Zenon, <1>1 DEF ClientTypes, CopiesCurrent, Unannounced, Exists
<1>3. \A k : OnWay(k)' = OnWay(k)
  BY Zenon, <1>1 DEF OnWay
<1>4. \A k \in Keys : (Told(k)' <=> Told(k)) /\ (Tracks(k)' <=> Tracks(k))
  BY Zenon, <1>1, <1>3 DEF Told, Unannounced, Tracks, Current, Exists
<1>5. CacheKept'
  BY Zenon, <1>1, <1>4 DEF CacheKept, Exists
<1>6. VersionsGrow'
  BY Zenon, <1>1, <1>3 DEF VersionsGrow
<1>7. QED
  BY Zenon, <1>2, <1>5, <1>6

(* The states of a handler are distinct. *)
LEMMA HandlerStates ==
  /\ W!Locking \subseteq W!WatchStates
  /\ {"created", "serving", "closing", "stopped", "stopping"} \subseteq W!WatchStates
  /\ "created" \in Opening /\ "newWatch" \in Opening /\ "Start" \in Opening /\ "idle" \in Opening
  /\ "serving" \notin Opening /\ "Stop" \notin Opening /\ "stopping" \notin Opening
  /\ "closing" \notin Opening /\ "stopped" \notin Opening
  /\ {"created", "serving", "closing", "stopped", "stopping", "idle"} \cap W!Locking = {}
  BY Zenon DEF Opening, W!Locking, W!WatchStates

(* Lock: the handler waits for the lock or has it. *)
LEMMA LockKeeps ==
  ASSUME InformerInv, UNCHANGED <<vars, clientVars, lapses>>,
         NEW w \in Watches, NEW from, NEW why, W!Lock(w, from, why),
         \/ from = "idle" /\ why = "newWatch"
         \/ from = "created" /\ why = "Start"
         \/ from = "stopping" /\ why = "Stop"
  PROVE  InformerInv'
<1> USE InformerAssumption
<1>1. WatchTypes /\ ClientTypes /\ Sessions /\ CopiesCurrent /\ CacheKept /\ VersionsGrow
  BY Zenon DEF InformerInv
<1>2. UNCHANGED <<files, rev, pc, arg, out, session>>
  BY Zenon DEF vars, reqVars, clientVars
<1>3. /\ watch[w] = from /\ writer = Nil /\ writer' = w /\ watch' = [watch EXCEPT ![w] = why]
      /\ UNCHANGED <<readers, nodes, relay, queue, stopCh, updateCh, sends, target>>
  BY Zenon DEF W!Lock, W!writerVars
<1>4. watch'[w] = why /\ \A v \in Watches : v # w => watch'[v] = watch[v]
  BY Zenon, <1>1, <1>3 DEF WatchTypes
<1>5. /\ why \in W!Locking /\ why # "serving" /\ from # "serving"
      /\ from \in Opening <=> why \in Opening
  BY Zenon DEF Opening, W!Locking
<1>6. WatchTypes'
  <2>1. watch' \in [Watches -> W!WatchStates]
    BY Zenon, <1>1, <1>3, <1>5, HandlerStates DEF WatchTypes
  <2>2. \A v \in Watches : watch'[v] \in W!Locking <=> writer' = v
    BY Zenon, <1>1, <1>3, <1>4, <1>5 DEF WatchTypes
  <2>3. QED
    BY Zenon, <1>1, <1>2, <1>3, <2>1, <2>2 DEF WatchTypes
<1>7. Sessions'
  <2>1. \A v \in Watches : (watch'[v] \in Opening <=> watch[v] \in Opening)
                        /\ (watch'[v] = "serving" <=> watch[v] = "serving")
    BY Zenon, <1>3, <1>4, <1>5
  <2>2. session # Nil => session \in Watches
    BY Zenon, <1>1 DEF ClientTypes
  <2>3. QED
    BY Zenon, <1>1, <1>2, <1>3, <2>1, <2>2 DEF Sessions
<1>8. Serving' <=> Serving
  BY Zenon, <1>1, <1>2, <1>3, <1>4, <1>5 DEF Serving, ClientTypes
<1>9. QED
  BY Zenon, <1>1, <1>2, <1>3, <1>6, <1>7, <1>8, AsideKeeps DEF InformerInv

(* Handlers that release the lock or close a channel, other than Start. *)
LEMMA UnlockKeeps ==
  ASSUME InformerInv, UNCHANGED <<vars, clientVars, lapses>>, NEW w \in Watches,
         watch' = [watch EXCEPT ![w] = watch'[w]],
         UNCHANGED <<readers, relay, queue, stopCh, sends, target>>,
         \/ /\ watch[w] = "newWatch" /\ watch'[w] = "created"
            /\ writer = w /\ writer' = Nil /\ UNCHANGED <<nodes, updateCh>>
         \/ /\ watch[w] = "Stop" /\ watch'[w] = "closing"
            /\ writer = w /\ writer' = Nil /\ nodes' = nodes \ {w} /\ UNCHANGED updateCh
         \/ /\ watch[w] = "closing" /\ watch'[w] = "stopped"
            /\ updateCh' = updateCh \cup {w} /\ UNCHANGED <<writer, nodes>>
  PROVE  InformerInv'
<1> USE InformerAssumption
<1>1. WatchTypes /\ ClientTypes /\ Sessions /\ CopiesCurrent /\ CacheKept /\ VersionsGrow
  BY Zenon DEF InformerInv
<1>2. UNCHANGED <<files, rev, pc, arg, out, session>>
  BY Zenon DEF vars, reqVars, clientVars
<1>3. \A v \in Watches : v # w => watch'[v] = watch[v]
  BY Zenon, <1>1 DEF WatchTypes
<1>4. /\ watch[w] # "serving" /\ watch'[w] # "serving"
      /\ watch[w] \in Opening <=> watch'[w] \in Opening
      /\ watch'[w] \notin W!Locking /\ watch'[w] \in W!WatchStates
  BY Zenon DEF Opening, W!Locking, W!WatchStates
<1>5. \A v \in Watches : (watch'[v] \in Opening <=> watch[v] \in Opening)
                      /\ (watch'[v] = "serving" <=> watch[v] = "serving")
  BY Zenon, <1>3, <1>4
<1>6. WatchTypes'
  <2>1. watch' \in [Watches -> W!WatchStates]
    BY Zenon, <1>1, <1>4 DEF WatchTypes
  <2>2. \A v \in Watches : watch'[v] \in W!Locking <=> writer' = v
    <3>1. CASE writer = w /\ writer' = Nil
      BY Zenon, <1>1, <1>3, <1>4, <3>1 DEF WatchTypes
    <3>2. CASE watch[w] = "closing" /\ writer' = writer
      BY Zenon, <1>1, <1>3, <1>4, <3>2, HandlerStates DEF WatchTypes
    <3>3. QED
      BY Zenon, <3>1, <3>2
  <2>3. nodes' \subseteq Watches /\ updateCh' \subseteq Watches /\ writer' \in Watches \cup {Nil}
    BY Zenon, <1>1 DEF WatchTypes
  <2>4. QED
    BY Zenon, <1>1, <1>2, <2>1, <2>2, <2>3 DEF WatchTypes
<1>7. Sessions'
  <2>1. ASSUME NEW v \in Watches
        PROVE  /\ watch'[v] \in Opening => v \notin nodes'
               /\ watch'[v] = "serving" => v \in nodes'
               /\ watch'[v] \in Opening \cup {"serving"} => v \notin stopCh \cup updateCh'
    <3>1. CASE v = w
      BY Zenon, <1>1, <1>4, <3>1, HandlerStates DEF Sessions
    <3>2. CASE v # w
      BY Zenon, <1>1, <1>3, <3>2 DEF Sessions
    <3>3. QED
      BY Zenon, <3>1, <3>2
  <2>2. session # Nil => session \in Watches
    BY Zenon, <1>1 DEF ClientTypes
  <2>3. QED
    BY Zenon, <1>1, <1>2, <1>5, <2>1, <2>2 DEF Sessions
<1>8. Serving' <=> Serving
  BY Zenon, <1>1, <1>2, <1>5 DEF Serving, ClientTypes
<1>9. QED
  BY Zenon, <1>1, <1>2, <1>6, <1>7, <1>8, AsideKeeps DEF InformerInv

(* getInitEvents: one Added event for each object in the store, with its state. *)
LEMMA InitEventsAre ==
  ASSUME TypeInv, StoreInv
  PROVE  /\ InitEvents \subseteq Event
         /\ \A e \in InitEvents : /\ e.type = Added /\ e.key \in Keys /\ Exists(e.key)
                                  /\ e.obj = files[e.key]
         /\ \A k \in Keys : Exists(k) => \E e \in InitEvents : e.key = k
<1>1. ASSUME NEW e \in InitEvents
      PROVE  /\ e \in Event /\ e.type = Added /\ e.key \in Keys /\ Exists(e.key)
             /\ e.obj = files[e.key]
  <2>1. PICK i \in VisitDir(Keys) : e = [type |-> Added, key |-> i.key, obj |-> i.obj]
    BY Zenon DEF InitEvents
  <2>2. PICK k \in Keys : Exists(k) /\ i = [key |-> k, obj |-> files[k]]
    BY Zenon DEF VisitDir
  <2>3. i.key = k /\ i.obj = files[k]
    BY Zenon, <2>2
  <2>4. e.type = Added /\ e.key = k /\ e.obj = files[k]
    BY Zenon, <2>1, <2>3
  <2>5. files[k] \in versionedData /\ Added \in EventTypes
    BY Zenon, <2>2, VersionsBounded DEF EventTypes
  <2>6. e \in Event
    BY Zenon, <2>1, <2>3, <2>5 DEF Event
  <2>7. QED
    BY Zenon, <2>2, <2>4, <2>6
<1>2. ASSUME NEW k \in Keys, Exists(k) PROVE \E e \in InitEvents : e.key = k
  <2>1. PICK i \in VisitDir(Keys) : i = [key |-> k, obj |-> files[k]]
    BY Zenon, <1>2 DEF VisitDir
  <2>2. [type |-> Added, key |-> i.key, obj |-> i.obj] \in InitEvents
    BY Zenon DEF InitEvents
  <2>3. i.key = k
    BY Zenon, <2>1
  <2>4. QED
    BY Zenon, <2>2, <2>3
<1>3. QED
  BY Zenon, <1>1, <1>2

(* Start: the session begins with the state of every object there is. *)
LEMMA StartKeeps ==
  ASSUME TypeInv, StoreInv, InformerInv, UNCHANGED <<vars, clientVars, lapses>>,
         NEW w \in Watches, watch[w] = "Start", writer = w, writer' = Nil,
         nodes' = nodes \cup {w}, watch' = [watch EXCEPT ![w] = "serving"],
         W!Relay(w, InitEvents),
         UNCHANGED <<readers, stopCh, updateCh, sends, target>>
  PROVE  InformerInv'
<1> USE InformerAssumption
<1>1. WatchTypes /\ ClientTypes /\ Sessions /\ CopiesCurrent /\ CacheKept /\ VersionsGrow
  BY Zenon DEF InformerInv
<1>2. UNCHANGED <<files, rev, pc, arg, out, reflector, session, cache, raced, deaf>>
  BY Zenon DEF vars, reqVars, clientVars, lapses
<1>3. watch'[w] = "serving" /\ \A v \in Watches : v # w => watch'[v] = watch[v]
  BY Zenon, <1>1 DEF WatchTypes
<1>4. /\ queue' = [queue EXCEPT ![w] = InitEvents]
      /\ relay' = [relay EXCEPT ![w] = IF InitEvents = {} THEN "recv" ELSE "send"]
  BY Zenon DEF W!Relay
<1>5. /\ queue'[w] = InitEvents /\ relay'[w] = IF InitEvents = {} THEN "recv" ELSE "send"
      /\ \A v \in Watches : v # w => queue'[v] = queue[v] /\ relay'[v] = relay[v]
  BY Zenon, <1>1, <1>4 DEF WatchTypes
<1>6. w \notin nodes /\ relay[w] = "none" /\ queue[w] = {} /\ w \notin stopCh \cup updateCh
  BY Zenon, <1>1, HandlerStates DEF Sessions
<1>7. WatchTypes'
  <2>1. watch' \in [Watches -> W!WatchStates]
    BY Zenon, <1>1, HandlerStates DEF WatchTypes
  <2>2. \A v \in Watches : watch'[v] \in W!Locking <=> writer' = v
    BY Zenon, <1>1, <1>3, HandlerStates DEF WatchTypes
  <2>3. queue' \in [Watches -> SUBSET Event]
    BY Zenon, <1>1, <1>4, InitEventsAre DEF WatchTypes
  <2>4. relay' \in [Watches -> W!RelayStates]
    BY Zenon, <1>1, <1>4 DEF WatchTypes, W!RelayStates
  <2>5. nodes' \subseteq Watches /\ writer' \in Watches \cup {Nil}
    BY Zenon, <1>1 DEF WatchTypes
  <2>6. QED
    BY Zenon, <1>1, <1>2, <2>1, <2>2, <2>3, <2>4, <2>5 DEF WatchTypes
<1>8. ClientTypes' /\ CopiesCurrent'
  BY Zenon, <1>1, <1>2 DEF ClientTypes, CopiesCurrent, Unannounced, Exists
<1>9. \A d, e \in InitEvents : d.key = e.key => d = e
  <2> SUFFICES ASSUME NEW d \in InitEvents, NEW e \in InitEvents, d.key = e.key PROVE d = e
    BY Zenon
  <2>1. /\ d \in Event /\ d.type = Added /\ d.obj = files[d.key]
        /\ e \in Event /\ e.type = Added /\ e.obj = files[e.key]
    BY Zenon, InitEventsAre
  <2>2. QED
    BY SMT, <2>1 DEF Event
<1>10. Sessions'
  <2>1. ASSUME NEW v \in Watches
        PROVE  /\ watch'[v] \in Opening => v \notin nodes' /\ relay'[v] = "none"
               /\ watch'[v] = "serving" => v \in nodes'
               /\ watch'[v] \in Opening \cup {"serving"} => v \notin stopCh \cup updateCh
               /\ queue'[v] = {} <=> relay'[v] # "send"
               /\ \A d, e \in queue'[v] : d.key = e.key => d = e
    <3>1. CASE v = w
      BY Zenon, <1>3, <1>5, <1>6, <1>9, <3>1, HandlerStates
    <3>2. CASE v # w
      BY Zenon, <1>1, <1>3, <1>5, <3>2 DEF Sessions
    <3>3. QED
      BY Zenon, <3>1, <3>2
  <2>2. session # Nil => watch'[session] \in Opening \cup {"serving"}
    BY Zenon, <1>1, <1>3 DEF Sessions, ClientTypes
  <2>3. QED
    BY Zenon, <1>1, <1>2, <2>1, <2>2 DEF Sessions
<1>11. \A k : Told(k)' <=> Told(k)
  BY Zenon, <1>2 DEF Told, Unannounced
<1>12. ASSUME NEW v \in Watches, NEW e \in queue'[v] PROVE e.obj.version <= rev
  <2>1. CASE v = w
    <3>1. e.obj = files[e.key] /\ e.key \in Keys /\ Exists(e.key)
      BY Zenon, <1>5, <2>1, InitEventsAre
    <3>2. QED
      BY Zenon, <3>1, VersionsBounded
  <2>2. CASE v # w
    BY Zenon, <1>1, <1>5, <2>2 DEF VersionsGrow
  <2>3. QED
    BY Zenon, <2>1, <2>2
<1>13. CASE session = w
  <2>1. \A k : OnWay(k) = {} /\ OnWay(k)' = {e \in InitEvents : e.key = k}
    BY Zenon, <1>2, <1>5, <1>6, <1>13 DEF OnWay
  <2>2. ASSUME NEW k \in Keys, Exists(k) PROVE Tracks(k)'
    <3>1. OnWay(k)' # {}
      BY Zenon, <2>1, <2>2, InitEventsAre
    <3>2. \A e \in OnWay(k)' : Current(e)'
      BY Zenon, <1>2, <2>1, InitEventsAre DEF Current, Added, Deleted
    <3>3. QED
      BY Zenon, <3>1, <3>2 DEF Tracks
  <2>3. ASSUME NEW k \in Keys, ~Exists(k), Tracks(k) PROVE Tracks(k)'
    <3>1. OnWay(k)' = {}
      BY Zenon, <2>1, <2>3, InitEventsAre
    <3>2. QED
      BY Zenon, <1>2, <2>1, <2>3, <3>1 DEF Tracks
  <2>4. CacheKept'
    BY Zenon, <1>1, <1>2, <1>11, <2>2, <2>3 DEF CacheKept, Exists
  <2>5. VersionsGrow'
    <3>1. ASSUME NEW k \in Keys, k \notin raced, NEW e \in OnWay(k)'
          PROVE  Older(cache[k], e.obj) /\ Older(e.obj, files[k])
      <4>1. e.obj = files[k] /\ Exists(k)
        BY Zenon, <2>1, InitEventsAre
      <4>2. files[k].version \in Nat
        BY Zenon, <4>1, VersionsBounded DEF versionedData
      <4>3. files[k].version <= files[k].version
        BY <4>2
      <4>4. QED
        BY Zenon, <1>1, <3>1, <4>1, <4>3 DEF VersionsGrow, Older
    <3>2. QED
      BY Zenon, <1>1, <1>2, <1>12, <3>1 DEF VersionsGrow
  <2>6. QED
    BY Zenon, <1>7, <1>8, <1>10, <2>4, <2>5 DEF InformerInv
<1>14. CASE session # w
  <2>1. \A k : OnWay(k)' = OnWay(k)
    BY Zenon, <1>1, <1>2, <1>5, <1>14 DEF OnWay, ClientTypes
  <2>2. Serving' <=> Serving
    BY Zenon, <1>1, <1>2, <1>3, <1>14 DEF Serving, ClientTypes
  <2>3. \A k \in Keys : Tracks(k)' <=> Tracks(k)
    BY Zenon, <1>2, <2>1 DEF Tracks, Current, Exists
  <2>4. CacheKept'
    BY Zenon, <1>1, <1>2, <1>11, <2>2, <2>3 DEF CacheKept, Exists
  <2>5. VersionsGrow'
    BY Zenon, <1>1, <1>2, <1>12, <2>1 DEF VersionsGrow
  <2>6. QED
    BY Zenon, <1>7, <1>8, <1>10, <2>4, <2>5 DEF InformerInv
<1>15. QED
  BY Zenon, <1>13, <1>14

(* A step of the handler of a watch keeps the invariant. *)
LEMMA ServeKeeps ==
  ASSUME TypeInv, StoreInv, InformerInv, NEW w \in Watches, ServeWatch(w)
  PROVE  InformerInv'
<1> USE InformerAssumption
<1>1. UNCHANGED <<vars, clientVars, lapses>> /\ W!Handler(w)
  BY Zenon DEF ServeWatch
<1>2. watch \in [Watches -> W!WatchStates]
  BY Zenon DEF InformerInv, WatchTypes
<1>3. ASSUME NEW s, watch' = [watch EXCEPT ![w] = s]
      PROVE  watch'[w] = s /\ watch' = [watch EXCEPT ![w] = watch'[w]]
  BY Zenon, <1>2, <1>3
<1>4. CASE W!newWatch(w)
  <2>1. CASE W!Lock(w, "idle", "newWatch")
    BY Zenon, <1>1, <2>1, LockKeeps
  <2>2. CASE ~W!Lock(w, "idle", "newWatch")
    <3>1. /\ watch[w] = "newWatch" /\ writer = w /\ writer' = Nil
          /\ watch' = [watch EXCEPT ![w] = "created"]
          /\ UNCHANGED <<readers, nodes, relay, queue, stopCh, updateCh, sends, target>>
      BY Zenon, <1>4, <2>2 DEF W!newWatch, W!Locked, W!Unlock, W!writerVars
    <3>2. watch'[w] = "created" /\ watch' = [watch EXCEPT ![w] = watch'[w]]
      BY Zenon, <1>3, <3>1
    <3>3. QED
      BY Zenon, <1>1, <3>1, <3>2, UnlockKeeps
  <2>3. QED
    BY Zenon, <2>1, <2>2
<1>5. CASE W!Start(w)
  <2>1. CASE W!Lock(w, "created", "Start")
    BY Zenon, <1>1, <2>1, LockKeeps
  <2>2. CASE ~W!Lock(w, "created", "Start")
    <3>1. W!initEvents(w) = InitEvents
      BY Zenon, InitEventsAre DEF W!initEvents
    <3>2. /\ watch[w] = "Start" /\ writer = w /\ writer' = Nil
          /\ nodes' = nodes \cup {w} /\ watch' = [watch EXCEPT ![w] = "serving"]
          /\ W!Relay(w, InitEvents)
          /\ UNCHANGED <<readers, stopCh, updateCh, sends, target>>
      BY Zenon, <1>5, <2>2, <3>1 DEF W!Start, W!Locked, W!Unlock, W!writerVars
    <3>3. QED
      BY Zenon, <1>1, <3>2, StartKeeps
  <2>3. QED
    BY Zenon, <2>1, <2>2
<1>6. CASE W!StopDelete(w)
  <2>1. CASE W!Lock(w, "stopping", "Stop")
    BY Zenon, <1>1, <2>1, LockKeeps
  <2>2. CASE ~W!Lock(w, "stopping", "Stop")
    <3>1. /\ watch[w] = "Stop" /\ writer = w /\ writer' = Nil /\ nodes' = nodes \ {w}
          /\ watch' = [watch EXCEPT ![w] = "closing"]
          /\ UNCHANGED <<readers, relay, queue, stopCh, updateCh, sends, target>>
      BY Zenon, <1>6, <2>2 DEF W!StopDelete, W!Locked, W!Unlock, W!writerVars
    <3>2. watch'[w] = "closing" /\ watch' = [watch EXCEPT ![w] = watch'[w]]
      BY Zenon, <1>3, <3>1
    <3>3. QED
      BY Zenon, <1>1, <3>1, <3>2, UnlockKeeps
  <2>3. QED
    BY Zenon, <2>1, <2>2
<1>7. CASE W!StopClose(w)
  <2>1. /\ watch[w] = "closing" /\ watch' = [watch EXCEPT ![w] = "stopped"]
        /\ updateCh' = updateCh \cup {w}
        /\ UNCHANGED <<writer, readers, nodes, relay, queue, stopCh, sends, target>>
    BY Zenon, <1>7 DEF W!StopClose, W!mutex, W!writerVars
  <2>2. watch'[w] = "stopped" /\ watch' = [watch EXCEPT ![w] = watch'[w]]
    BY Zenon, <1>3, <2>1
  <2>3. QED
    BY Zenon, <1>1, <2>1, <2>2, UnlockKeeps
<1>8. QED
  BY Zenon, <1>1, <1>4, <1>5, <1>6, <1>7 DEF W!Handler

(* The goroutine of a watch drops an event, or ends: not that of the session. *)
LEMMA RelayKeeps ==
  ASSUME InformerInv, NEW w \in Watches, RelayStep(w)
  PROVE  InformerInv'
<1> USE InformerAssumption
<1>1. WatchTypes /\ ClientTypes /\ Sessions /\ CopiesCurrent /\ CacheKept /\ VersionsGrow
  BY Zenon DEF InformerInv
<1>2. UNCHANGED <<vars, clientVars, lapses>> /\ (W!Drop(w) \/ W!CloseOut(w))
  BY Zenon DEF RelayStep
<1>3. UNCHANGED <<files, rev, pc, arg, out, session>>
  BY Zenon, <1>2 DEF vars, reqVars, clientVars
<1>4. /\ w \in stopCh \cup updateCh /\ relay[w] # "none"
      /\ UNCHANGED <<writer, readers, nodes, watch, stopCh, updateCh, sends, target>>
  BY Zenon, <1>2 DEF W!Drop, W!CloseOut, W!mutex, W!writerVars
<1>5. /\ queue' \in [Watches -> SUBSET Event] /\ relay' \in [Watches -> W!RelayStates]
      /\ \A v \in Watches : v # w => queue'[v] = queue[v] /\ relay'[v] = relay[v]
      /\ queue'[w] \subseteq queue[w]
      /\ queue'[w] = {} <=> relay'[w] # "send"
  <2>1. CASE W!Drop(w)
    <3>1. PICK e \in queue[w] : W!Relay(w, queue[w] \ {e})
      BY Zenon, <2>1 DEF W!Drop
    <3>2. queue[w] \ {e} \in SUBSET Event
      BY Zenon, <1>1 DEF WatchTypes
    <3>3. QED
      BY Zenon, <1>1, <3>1, <3>2 DEF W!Relay, WatchTypes, W!RelayStates
  <2>2. CASE W!CloseOut(w)
    <3>1. queue' = queue /\ relay' = [relay EXCEPT ![w] = "done"] /\ relay[w] = "recv"
      BY Zenon, <2>2 DEF W!CloseOut
    <3>2. queue[w] = {}
      BY Zenon, <1>1, <3>1 DEF Sessions
    <3>3. QED
      BY Zenon, <1>1, <3>1, <3>2 DEF WatchTypes, W!RelayStates
  <2>3. QED
    BY Zenon, <1>2, <2>1, <2>2
<1>6. WatchTypes'
  BY Zenon, <1>1, <1>3, <1>4, <1>5 DEF WatchTypes
<1>7. Sessions'
  <2>1. ASSUME NEW v \in Watches
        PROVE  /\ watch[v] \in Opening => relay'[v] = "none"
               /\ queue'[v] = {} <=> relay'[v] # "send"
               /\ \A d, e \in queue'[v] : d.key = e.key => d = e
    BY Zenon, <1>1, <1>4, <1>5 DEF Sessions
  <2>2. QED
    BY Zenon, <1>1, <1>3, <1>4, <2>1 DEF Sessions
<1>8. session # Nil => session # w /\ session \in Watches
  BY Zenon, <1>1, <1>4 DEF Sessions, ClientTypes
<1>9. /\ \A v \in Watches : queue'[v] \subseteq queue[v]
      /\ session # Nil => queue'[session] = queue[session]
      /\ Serving' <=> Serving
  BY Zenon, <1>3, <1>4, <1>5, <1>8 DEF Serving
<1>10. QED
  BY Zenon, <1>1, <1>2, <1>3, <1>4, <1>6, <1>7, <1>9, AsideKeeps DEF InformerInv

-----------------------------------------------------------------------------
(* The informer. *)

(* No request tells an informer that has no session. *)
LEMMA NilIsNotTold ==
  ASSUME WatchTypes, NEW r \in Requests
  PROVE  Nil \notin sends[r]
  BY Zenon, InformerAssumption DEF WatchTypes

(* RefuseWatchList: the informer knows as little as before. *)
LEMMA RefuseKeeps ==
  ASSUME InformerInv, RefuseWatchList
  PROVE  InformerInv'
<1>1. WatchTypes /\ ClientTypes /\ Sessions /\ CopiesCurrent /\ CacheKept /\ VersionsGrow
  BY Zenon DEF InformerInv
<1>2. /\ reflector = "watchList" /\ reflector' = "list"
      /\ UNCHANGED <<files, rev, pc, arg, out, session, cache, raced, deaf>>
      /\ UNCHANGED <<writer, readers, nodes, watch, relay, queue, stopCh, updateCh, sends, target>>
  BY Zenon DEF RefuseWatchList, vars, reqVars, watchVars, lapses
<1>3. WatchTypes' /\ ClientTypes' /\ Sessions' /\ CopiesCurrent'
  BY Zenon, <1>1, <1>2 DEF WatchTypes, ClientTypes, Sessions, CopiesCurrent, Unannounced, Exists
<1>4. session = Nil
  BY Zenon, <1>1, <1>2 DEF ClientTypes
<1>5. CacheKept'
  BY Zenon, <1>1, <1>2, <1>4 DEF CacheKept, Exists, Serving
<1>6. VersionsGrow'
  BY Zenon, <1>1, <1>2 DEF VersionsGrow, OnWay
<1>7. QED
  BY Zenon, <1>3, <1>5, <1>6 DEF InformerInv

(* List: the informer has what is in the store, and what overlapped is over for the
   objects that nobody has left to announce. *)
LEMMA ListKeeps ==
  ASSUME TypeInv, StoreInv, InformerInv, List
  PROVE  InformerInv'
<1>1. WatchTypes /\ ClientTypes /\ Sessions /\ CopiesCurrent /\ CacheKept /\ VersionsGrow
  BY Zenon DEF InformerInv
<1>2. /\ reflector = "list" /\ reflector' = "watch" /\ cache' = files /\ deaf' = {}
      /\ raced' = {k \in raced : Unannounced(k) # {}}
      /\ UNCHANGED <<files, rev, pc, arg, out, session>>
      /\ UNCHANGED <<writer, readers, nodes, watch, relay, queue, stopCh, updateCh, sends, target>>
  BY Zenon DEF List, vars, reqVars, watchVars
<1>3. session = Nil
  BY Zenon, <1>1, <1>2 DEF ClientTypes
<1>4. WatchTypes' /\ Sessions'
  BY Zenon, <1>1, <1>2 DEF WatchTypes, Sessions
<1>5. files \in [Keys -> File] /\ rev \in Nat
  BY Zenon DEF TypeInv, TypeOK
<1>6. ClientTypes'
  BY Zenon, <1>1, <1>2, <1>3, <1>5 DEF ClientTypes
<1>7. CopiesCurrent'
  <2> SUFFICES ASSUME NEW k \in Keys, k \notin raced', NEW r \in Unannounced(k)
               PROVE  IF pc[r] = Deleted THEN ~Exists(k) ELSE out[r] = files[k]
    BY Zenon, <1>2 DEF CopiesCurrent, Unannounced, Exists
  <2>1. k \notin raced
    BY Zenon, <1>2
  <2>2. QED
    BY Zenon, <1>1, <2>1 DEF CopiesCurrent
<1>8. \A k : OnWay(k)' = {}
  BY Zenon, <1>2, <1>3 DEF OnWay
<1>9. CacheKept'
  <2>1. \A k \in Keys : Tracks(k)'
    BY Zenon, <1>2, <1>8 DEF Tracks
  <2>2. QED
    BY Zenon, <2>1 DEF CacheKept
<1>10. VersionsGrow'
  <2>1. \A k \in Keys : cache'[k] # ErrNotExist => cache'[k].version <= rev'
    BY Zenon, <1>2, VersionsBounded DEF Exists
  <2>2. ASSUME NEW k \in Keys PROVE Older(cache'[k], files'[k])
    <3>1. Exists(k) => files[k].version \in Nat
      BY Zenon, VersionsBounded DEF versionedData
    <3>2. Exists(k) => files[k].version <= files[k].version
      BY <3>1
    <3>3. QED
      BY Zenon, <1>2, <3>2 DEF Older, Exists
  <2>3. QED
    BY Zenon, <1>1, <1>2, <1>8, <2>1, <2>2 DEF VersionsGrow
<1>11. QED
  BY Zenon, <1>4, <1>6, <1>7, <1>9, <1>10 DEF InformerInv

(* Watch: the new session has nothing on its way, and is not in the set. *)
LEMMA WatchKeeps ==
  ASSUME InformerInv, Watch
  PROVE  InformerInv'
<1> USE InformerAssumption
<1>1. WatchTypes /\ ClientTypes /\ Sessions /\ CopiesCurrent /\ CacheKept /\ VersionsGrow
  BY Zenon DEF InformerInv
<1>2. /\ reflector = "watch" /\ reflector' = "streaming"
      /\ session' \in Watches /\ watch[session'] = "idle"
      /\ UNCHANGED <<files, rev, pc, arg, out, cache, raced, deaf>>
      /\ UNCHANGED <<writer, readers, nodes, watch, relay, queue, stopCh, updateCh, sends, target>>
  BY Zenon DEF Watch, vars, reqVars, watchVars, lapses
<1>3. session = Nil /\ session' # Nil /\ queue[session'] = {}
  BY Zenon, <1>1, <1>2, HandlerStates DEF ClientTypes, Sessions
<1>4. WatchTypes' /\ ClientTypes' /\ CopiesCurrent'
  BY Zenon, <1>1, <1>2, <1>3 DEF WatchTypes, ClientTypes, CopiesCurrent, Unannounced, Exists
<1>5. Sessions'
  BY Zenon, <1>1, <1>2, HandlerStates DEF Sessions
<1>6. \A k : OnWay(k) = {} /\ OnWay(k)' = {}
  BY Zenon, <1>2, <1>3 DEF OnWay
<1>7. ~Serving'
  BY Zenon, <1>2 DEF Serving
<1>8. ASSUME NEW k \in Keys, Told(k) PROVE Told(k)'
  <2>1. PICK r \in Unannounced(k) : r \notin readers \/ session \in sends[r]
    BY Zenon, <1>8 DEF Told
  <2>2. r \in Requests
    BY Zenon DEF Unannounced
  <2>3. r \notin readers
    BY Zenon, <1>1, <1>3, <2>1, <2>2, NilIsNotTold
  <2>4. QED
    BY Zenon, <1>2, <2>1, <2>3 DEF Told, Unannounced
<1>9. \A k \in Keys : Tracks(k)' <=> Tracks(k)
  BY Zenon, <1>2, <1>6 DEF Tracks
<1>10. CacheKept'
  BY Zenon, <1>1, <1>2, <1>7, <1>8, <1>9 DEF CacheKept, Exists
<1>11. VersionsGrow'
  BY Zenon, <1>1, <1>2, <1>6 DEF VersionsGrow
<1>12. QED
  BY Zenon, <1>4, <1>5, <1>10, <1>11 DEF InformerInv

(* Receive: what was on its way of the object has arrived, and nothing else of it is on
   its way. *)
LEMMA ReceiveKeeps ==
  ASSUME InformerInv, Receive
  PROVE  InformerInv'
<1> USE InformerAssumption
<1>1. WatchTypes /\ ClientTypes /\ Sessions /\ CopiesCurrent /\ CacheKept /\ VersionsGrow
  BY Zenon DEF InformerInv
<1>2. PICK e \in queue[session] :
        /\ UNCHANGED <<vars, reflector, session, lapses>> /\ W!Take(session, e)
        /\ cache' = [cache EXCEPT ![e.key] = IF e.type = Deleted THEN ErrNotExist ELSE e.obj]
  BY Zenon DEF Receive
<1>3. /\ UNCHANGED <<files, rev, pc, arg, out, reflector, session, raced, deaf>>
      /\ UNCHANGED <<writer, readers, nodes, watch, stopCh, updateCh, sends, target>>
      /\ relay[session] = "send" /\ watch[session] = "serving"
      /\ queue' = [queue EXCEPT ![session] = queue[session] \ {e}]
      /\ relay' = [relay EXCEPT ![session] = IF queue[session] \ {e} = {} THEN "recv" ELSE "send"]
  BY Zenon, <1>2 DEF vars, reqVars, lapses, W!Take, W!Relay, W!mutex, W!writerVars
<1>4. reflector = "streaming" /\ session \in Watches /\ session # Nil
  BY Zenon, <1>1 DEF Receive, ClientTypes
<1>5. e \in Event /\ e.key \in Keys /\ e.obj \in versionedData
  BY Zenon, <1>1, <1>4, CopiesTyped
<1>6. /\ queue'[session] = queue[session] \ {e}
      /\ relay'[session] = IF queue[session] \ {e} = {} THEN "recv" ELSE "send"
      /\ \A v \in Watches : v # session => queue'[v] = queue[v] /\ relay'[v] = relay[v]
  BY Zenon, <1>1, <1>3, <1>4 DEF WatchTypes
<1>7. /\ cache'[e.key] = IF e.type = Deleted THEN ErrNotExist ELSE e.obj
      /\ \A k \in Keys : k # e.key => cache'[k] = cache[k]
  BY Zenon, <1>1, <1>2, <1>5 DEF ClientTypes
<1>8. WatchTypes'
  <2>1. queue' \in [Watches -> SUBSET Event] /\ relay' \in [Watches -> W!RelayStates]
    BY Zenon, <1>1, <1>3, <1>4 DEF WatchTypes, W!RelayStates
  <2>2. QED
    BY Zenon, <1>1, <1>3, <2>1 DEF WatchTypes
<1>9. ClientTypes'
  <2>1. cache' \in [Keys -> File]
    BY Zenon, <1>1, <1>2, <1>5 DEF ClientTypes, File
  <2>2. QED
    BY Zenon, <1>1, <1>3, <2>1 DEF ClientTypes
<1>10. CopiesCurrent'
  BY Zenon, <1>1, <1>3 DEF CopiesCurrent, Unannounced, Exists
<1>11. Sessions'
  <2>1. ASSUME NEW v \in Watches
        PROVE  /\ watch[v] \in Opening => relay'[v] = "none"
               /\ queue'[v] = {} <=> relay'[v] # "send"
               /\ \A c, d \in queue'[v] : c.key = d.key => c = d
    <3>1. CASE v = session
      <4>1. watch[v] \notin Opening /\ (queue'[v] = {} <=> relay'[v] # "send")
        <5>1. watch[v] \notin Opening
          BY Zenon, <1>3, <3>1, HandlerStates
        <5>2. queue'[v] = {} <=> relay'[v] # "send"
          BY Zenon, <1>6, <3>1
        <5>3. QED
          BY Zenon, <5>1, <5>2
      <4>2. \A d \in queue'[v] : d \in queue[v]
        BY Zenon, <1>6, <3>1
      <4>3. QED
        BY Zenon, <1>1, <4>1, <4>2 DEF Sessions
    <3>2. CASE v # session
      BY Zenon, <1>1, <1>6, <3>2 DEF Sessions
    <3>3. QED
      BY Zenon, <3>1, <3>2
  <2>2. QED
    BY Zenon, <1>1, <1>3, <2>1 DEF Sessions
<1>12. e \in OnWay(e.key) /\ OnWay(e.key)' = {}
  BY Zenon, <1>1, <1>3, <1>4, <1>6 DEF OnWay, Sessions
<1>13. \A k : k # e.key => OnWay(k)' = OnWay(k)
  BY Zenon, <1>3, <1>4, <1>6 DEF OnWay
<1>14. CacheKept'
  <2>1. \A k \in Keys : Told(k)' <=> Told(k)
    BY Zenon, <1>3 DEF Told, Unannounced
  <2>2. ASSUME NEW k \in Keys, Tracks(k) PROVE Tracks(k)'
    <3>1. CASE k = e.key
      <4>1. Current(e)
        BY Zenon, <1>12, <2>2, <3>1 DEF Tracks
      <4>2. cache'[k] = files[k]
        BY Zenon, <1>7, <3>1, <4>1 DEF Current, Exists
      <4>3. QED
        BY Zenon, <1>3, <1>12, <3>1, <4>2 DEF Tracks
    <3>2. CASE k # e.key
      BY Zenon, <1>3, <1>7, <1>13, <2>2, <3>2 DEF Tracks, Current, Exists
    <3>3. QED
      BY Zenon, <3>1, <3>2
  <2>3. QED
    BY Zenon, <1>1, <1>3, <2>1, <2>2 DEF CacheKept, Exists, Serving
<1>15. VersionsGrow'
  <2>1. ASSUME NEW k \in Keys, cache'[k] # ErrNotExist PROVE cache'[k].version <= rev
    <3>1. CASE k = e.key
      BY Zenon, <1>1, <1>4, <1>7, <2>1, <3>1 DEF VersionsGrow
    <3>2. CASE k # e.key
      BY Zenon, <1>1, <1>7, <2>1, <3>2 DEF VersionsGrow
    <3>3. QED
      BY Zenon, <3>1, <3>2
  <2>2. \A v \in Watches : \A d \in queue'[v] : d.obj.version <= rev
    BY Zenon, <1>1, <1>6 DEF VersionsGrow
  <2>3. ASSUME NEW k \in Keys, k \notin raced
        PROVE  /\ Older(cache'[k], files[k])
               /\ \A d \in OnWay(k)' : d.type # Deleted =>
                    Older(cache'[k], d.obj) /\ Older(d.obj, files[k])
    <3>1. CASE k = e.key
      BY Zenon, <1>1, <1>7, <1>12, <2>3, <3>1 DEF VersionsGrow, Older
    <3>2. CASE k # e.key
      BY Zenon, <1>1, <1>7, <1>13, <2>3, <3>2 DEF VersionsGrow
    <3>3. QED
      BY Zenon, <3>1, <3>2
  <2>4. QED
    BY Zenon, <1>3, <2>1, <2>2, <2>3 DEF VersionsGrow
<1>16. QED
  BY Zenon, <1>8, <1>9, <1>10, <1>11, <1>14, <1>15 DEF InformerInv

(* End: of what the session had yet to pass on, a state will be listed by the next one;
   a removal that is lost makes the informer deaf. *)
LEMMA EndKeeps ==
  ASSUME TypeInv, StoreInv, InformerInv, End
  PROVE  InformerInv'
<1> USE InformerAssumption
<1>1. WatchTypes /\ ClientTypes /\ Sessions /\ CopiesCurrent /\ CacheKept /\ VersionsGrow
  BY Zenon DEF InformerInv
<1>2. /\ reflector = "streaming" /\ session' = Nil /\ reflector' \in {"watch", "list"}
      /\ deaf' = deaf \cup InFlight(session)
      /\ watch[session] = "serving" /\ watch' = [watch EXCEPT ![session] = "stopping"]
      /\ stopCh' = stopCh \cup {session}
      /\ UNCHANGED <<files, rev, pc, arg, out, cache, raced>>
      /\ UNCHANGED <<writer, readers, nodes, relay, queue, updateCh, sends, target>>
  BY Zenon DEF End, vars, reqVars, W!Stop, W!mutex, W!writerVars
<1>3. session \in Watches /\ session # Nil
  BY Zenon, <1>1, <1>2 DEF ClientTypes
<1>4. watch'[session] = "stopping" /\ \A v \in Watches : v # session => watch'[v] = watch[v]
  BY Zenon, <1>1, <1>2, <1>3 DEF WatchTypes
<1>5. InFlight(session) \subseteq Keys
  <2>1. \A d \in queue[session] : d.key \in Keys
    BY Zenon, <1>1, <1>3, CopiesTyped
  <2>2. \A q \in readers : q \in Requests /\ arg[q].key \in Keys
    BY Zenon, <1>1, VersionsBounded DEF WatchTypes
  <2>3. QED
    BY Zenon, <2>1, <2>2 DEF InFlight
<1>6. WatchTypes'
  <2>1. watch' \in [Watches -> W!WatchStates] /\ stopCh' \subseteq Watches
    BY Zenon, <1>1, <1>2, <1>3, HandlerStates DEF WatchTypes
  <2>2. \A v \in Watches : watch'[v] \in W!Locking <=> writer = v
    BY Zenon, <1>1, <1>2, <1>3, <1>4, HandlerStates DEF WatchTypes
  <2>3. QED
    BY Zenon, <1>1, <1>2, <2>1, <2>2 DEF WatchTypes
<1>7. ClientTypes'
  BY Zenon, <1>1, <1>2, <1>5 DEF ClientTypes
<1>8. Sessions'
  <2>1. ASSUME NEW v \in Watches
        PROVE  /\ watch'[v] \in Opening => v \notin nodes /\ relay[v] = "none"
               /\ watch'[v] = "serving" => v \in nodes
               /\ watch'[v] \in Opening \cup {"serving"} => v \notin stopCh' \cup updateCh
    <3>1. CASE v = session
      BY Zenon, <1>4, <3>1, HandlerStates
    <3>2. CASE v # session
      BY Zenon, <1>1, <1>2, <1>4, <3>2 DEF Sessions
    <3>3. QED
      BY Zenon, <3>1, <3>2
  <2>2. QED
    BY Zenon, <1>1, <1>2, <2>1 DEF Sessions
<1>9. CopiesCurrent'
  BY Zenon, <1>1, <1>2 DEF CopiesCurrent, Unannounced, Exists
<1>10. \A k : OnWay(k)' = {}
  BY Zenon, <1>2 DEF OnWay
<1>11. CacheKept'
  <2> SUFFICES ASSUME NEW k \in Keys, k \notin raced, ~Told(k)', ~Exists(k)
               PROVE  k \in deaf' \/ Tracks(k)'
    BY Zenon, <1>2 DEF CacheKept, Exists, Serving
  <2>1. CASE Told(k)
    <3>1. PICK r \in Unannounced(k) : r \notin readers \/ session \in sends[r]
      BY Zenon, <2>1 DEF Told
    <3>2. r \in Requests /\ arg[r].key = k
      BY Zenon DEF Unannounced
    <3>3. r \in readers /\ session \in sends[r]
      BY Zenon, <1>2, <3>1 DEF Told, Unannounced
    <3>4. out[r] \in versionedData
      BY Zenon, <1>1, <3>3, VersionsBounded DEF WatchTypes
    <3>5. pc[r] = Deleted
      BY Zenon, <1>1, <3>1, <3>4, ErrNotExistAssumption DEF CopiesCurrent, Exists
    <3>6. k \in InFlight(session)
      BY Zenon, <3>2, <3>3, <3>5 DEF InFlight
    <3>7. QED
      BY Zenon, <1>2, <3>6
  <2>2. CASE ~Told(k) /\ k \notin deaf
    <3>1. Tracks(k)
      BY Zenon, <1>1, <1>2, <2>2 DEF CacheKept
    <3>2. CASE OnWay(k) = {}
      BY Zenon, <1>2, <1>10, <3>1, <3>2 DEF Tracks
    <3>3. CASE OnWay(k) # {}
      <4>1. PICK e \in OnWay(k) : Current(e)
        BY Zenon, <3>1, <3>3 DEF Tracks
      <4>2. e \in queue[session] /\ e.key = k
        BY Zenon, <1>3 DEF OnWay
      <4>3. e.obj \in versionedData
        BY Zenon, <1>1, <1>3, <4>2, CopiesTyped
      <4>4. e.type = Deleted
        BY Zenon, <4>1, <4>2, <4>3, ErrNotExistAssumption DEF Current, Exists
      <4>5. k \in InFlight(session)
        BY Zenon, <4>2, <4>4 DEF InFlight
      <4>6. QED
        BY Zenon, <1>2, <4>5
    <3>4. QED
      BY Zenon, <3>2, <3>3
  <2>3. QED
    BY Zenon, <1>2, <2>1, <2>2
<1>12. VersionsGrow'
  BY Zenon, <1>1, <1>2, <1>10 DEF VersionsGrow
<1>13. QED
  BY Zenon, <1>6, <1>7, <1>8, <1>9, <1>11, <1>12 DEF InformerInv

-----------------------------------------------------------------------------
(* The whole system. *)

(* What the informer, the watches and notifyWatchers do between them is, to the store, a
   step of a request or none. *)
LEMMA SystemSteps == [SystemNext]_systemVars => [Next]_vars
<1> SUFFICES ASSUME [SystemNext]_systemVars PROVE (\E r \in Requests : RequestStep(r)) \/ UNCHANGED vars
  BY Zenon DEF Next
<1>1. ASSUME NEW r \in Requests, Handle(r) \/ Announce(r)
      PROVE  (\E q \in Requests : RequestStep(q)) \/ UNCHANGED vars
  BY Zenon, <1>1 DEF Handle, Announce, RequestStep
<1>2. ASSUME NEW w \in Watches, ServeWatch(w) \/ RelayStep(w) PROVE UNCHANGED vars
  BY Zenon, <1>2 DEF ServeWatch, RelayStep
<1>3. CASE Follow
  BY Zenon, <1>3 DEF Follow, RefuseWatchList, List, Watch, Receive
<1>4. CASE End
  BY Zenon, <1>4 DEF End
<1>5. CASE UNCHANGED systemVars
  BY Zenon, <1>5 DEF systemVars
<1>6. QED
  BY Zenon, <1>1, <1>2, <1>3, <1>4, <1>5 DEF SystemNext, Rest

(* Every step of the system keeps the invariant. *)
LEMMA InformerNext == TypeInv /\ StoreInv /\ InformerInv /\ [SystemNext]_systemVars => InformerInv'
<1> SUFFICES ASSUME TypeInv, StoreInv, InformerInv, [SystemNext]_systemVars PROVE InformerInv'
  BY Zenon
<1>1. ASSUME NEW r \in Requests, Handle(r) PROVE InformerInv'
  BY Zenon, <1>1, HandleKeeps
<1>2. ASSUME NEW r \in Requests, Announce(r) PROVE InformerInv'
  BY Zenon, <1>2, RLockKeeps, SendKeeps, RUnlockKeeps DEF Announce
<1>3. ASSUME NEW w \in Watches, ServeWatch(w) \/ RelayStep(w) PROVE InformerInv'
  BY Zenon, <1>3, ServeKeeps, RelayKeeps
<1>4. CASE Follow
  BY Zenon, <1>4, RefuseKeeps, ListKeeps, WatchKeeps, ReceiveKeeps DEF Follow
<1>5. CASE End
  BY Zenon, <1>5, EndKeeps
<1>6. CASE UNCHANGED systemVars
  <2>1. /\ UNCHANGED <<files, rev, pc, arg, out, readers, sends, clientVars, lapses>>
        /\ UNCHANGED <<writer, nodes, watch, relay, queue, stopCh, updateCh, target, session>>
    BY Zenon, <1>6 DEF systemVars, vars, reqVars, watchVars, clientVars
  <2>2. WatchTypes' /\ Sessions'
    BY Zenon, <2>1 DEF InformerInv, WatchTypes, Sessions
  <2>3. Serving' <=> Serving
    BY Zenon, <2>1 DEF Serving
  <2>4. QED
    BY Zenon, <2>1, <2>2, <2>3, AsideKeeps DEF InformerInv
<1>7. QED
  BY Zenon, <1>1, <1>2, <1>3, <1>4, <1>5, <1>6 DEF SystemNext, Rest

(* Nothing the watches and the informer do adds to what the store does: with
   notifyWatchers in its steps, under the lock of the WatchSet and beside watches that
   come and go, the handlers behave as FilepathREST says, so that all that is proved of
   Spec holds of the system. *)
THEOREM SystemIsStore == SystemSpec => Spec
<1>1. SystemInit => Init
  BY Zenon DEF SystemInit
<1>2. QED
  BY <1>1, SystemSteps, PTL DEF SystemSpec, Spec

(* The invariants hold throughout. *)
LEMMA InformerCorrect == SystemSpec => [](TypeInv /\ StoreInv /\ InformerInv)
<1>1. SystemSpec => [](TypeInv /\ StoreInv)
  BY SystemIsStore, StoreCorrect, PTL
<1>2. QED
  BY <1>1, InformerInit, InformerNext, PTL DEF SystemSpec

(* Every variable of the system has its type, the locks are held by those that are
   between locking and unlocking, and the informer has a watch open exactly while it
   streams. *)
THEOREM InformerTypes == SystemSpec => []SystemTypeOK
<1>1. TypeInv /\ StoreInv /\ InformerInv => SystemTypeOK
  <2> SUFFICES ASSUME TypeInv, StoreInv, WatchTypes, ClientTypes PROVE SystemTypeOK
    BY Zenon DEF InformerInv
  <2>1. TypeOK
    BY Zenon DEF TypeInv
  <2>2. readers = {r \in Requests : NotifyOf(r) = "sending"}
    <3>1. \A r \in readers : r \in Requests /\ pc[r] \in EventTypes
      BY Zenon DEF WatchTypes
    <3>2. \A r \in Requests : pc[r] \in EventTypes /\ r \in readers => NotifyOf(r) = "sending"
      BY Zenon DEF NotifyOf, Replies, EventTypes, Added, Modified, Deleted
    <3>3. QED
      BY Zenon, <3>1, <3>2, NotifyStages
  <2>3. [r \in Requests |-> EventOf(r)] \in [Requests -> Event \cup {Nil}]
    <3>1. ASSUME NEW r \in Requests PROVE EventOf(r) \in Event \cup {Nil}
      BY Zenon, VersionsBounded DEF EventOf, Event
    <3>2. QED
      BY Zenon, <3>1
  <2>4. [r \in Requests |-> NotifyOf(r)] \in [Requests -> W!NotifyStates]
    <3>1. ASSUME NEW r \in Requests PROVE NotifyOf(r) \in W!NotifyStates
      BY Zenon DEF NotifyOf, W!NotifyStates
    <3>2. QED
      BY Zenon, <3>1
  <2>5. W!TypeOK
    BY Zenon, <2>2, <2>3, <2>4, InitEventsAre DEF W!TypeOK, WatchTypes
  <2>6. QED
    BY Zenon, <2>1, <2>5 DEF SystemTypeOK, ClientTypes
<1>2. QED
  BY <1>1, InformerCorrect, PTL

(* When nothing is on its way the informer's copy of every object is the one in the
   store, for any number of requests, objects and watches that end, unless changes of
   the object overlapped or it is gone and the informer was not told. *)
THEOREM FollowsStore == SystemSpec => []CacheFollowsStore
<1>1. InformerInv => CacheFollowsStore
  <2> SUFFICES ASSUME InformerInv, Quiet, NEW k \in Keys, k \notin raced
               PROVE  cache[k] = files[k] \/ (k \in deaf /\ ~Exists(k))
    BY Zenon DEF CacheFollowsStore
  <2>1. WatchTypes /\ ClientTypes /\ Sessions /\ CacheKept
    BY Zenon DEF InformerInv
  <2>2. session \in Watches /\ session # Nil /\ Serving /\ reflector = "streaming"
    BY Zenon, <2>1 DEF Quiet, ClientTypes, Serving
  <2>3. OnWay(k) = {}
    <3>1. queue[session] = {}
      BY Zenon, <2>1, <2>2 DEF Quiet, Sessions
    <3>2. QED
      BY Zenon, <3>1 DEF OnWay
  <2>4. ~Told(k)
    BY Zenon DEF Quiet, Told
  <2>5. QED
    BY Zenon, <2>1, <2>2, <2>3, <2>4 DEF CacheKept, Tracks
<1>2. QED
  BY <1>1, InformerCorrect, PTL

(* The informer never replaces what it has of an object by an older version of it, unless
   changes of the object overlapped: neither a List, nor the initial events of a watch,
   nor an announcement that comes late. *)
THEOREM NeverGoesBack == SystemSpec => CacheNeverGoesBack
<1>1. TypeInv /\ StoreInv /\ InformerInv /\ [SystemNext]_systemVars =>
        [\A k \in Keys \ raced :
           cache[k] # ErrNotExist /\ cache'[k] # ErrNotExist
             => cache'[k].version >= cache[k].version]_systemVars
  <2> SUFFICES ASSUME TypeInv, StoreInv, InformerInv, SystemNext, NEW k \in Keys, k \notin raced,
                      cache[k] # ErrNotExist, cache'[k] # ErrNotExist
               PROVE  cache'[k].version >= cache[k].version
    BY Zenon
  <2>1. WatchTypes /\ ClientTypes /\ VersionsGrow
    BY Zenon DEF InformerInv
  <2>2. cache[k].version \in Nat
    BY Zenon, <2>1, CopiesTyped
  <2>3. CASE cache' = cache
    BY <2>2, <2>3
  <2>4. CASE List
    <3>1. cache'[k] = files[k] /\ files[k].version \in Nat
      BY Zenon, <2>4, VersionsBounded DEF List, Exists, versionedData
    <3>2. cache[k].version <= files[k].version
      BY Zenon, <2>1, <3>1 DEF VersionsGrow, Older
    <3>3. QED
      BY <2>2, <3>1, <3>2
  <2>5. CASE Receive
    <3>1. PICK e \in queue[session] :
            cache' = [cache EXCEPT ![e.key] = IF e.type = Deleted THEN ErrNotExist ELSE e.obj]
      BY Zenon, <2>5 DEF Receive
    <3>2. session \in Watches /\ session # Nil
      BY Zenon, <2>1, <2>5 DEF Receive, ClientTypes
    <3>3. e.key \in Keys /\ e.obj \in versionedData /\ e.obj.version \in Nat
      BY Zenon, <2>1, <3>2, CopiesTyped
    <3>4. CASE k = e.key
      <4>1. cache'[k] = e.obj /\ e.type # Deleted
        BY Zenon, <2>1, <3>1, <3>4 DEF ClientTypes
      <4>2. e \in OnWay(k)
        BY Zenon, <3>2, <3>4 DEF OnWay
      <4>3. cache[k].version <= e.obj.version
        BY Zenon, <2>1, <4>1, <4>2 DEF VersionsGrow, Older
      <4>4. QED
        BY <2>2, <3>3, <4>1, <4>3
    <3>5. CASE k # e.key
      <4>1. cache'[k] = cache[k]
        BY Zenon, <2>1, <3>1, <3>5 DEF ClientTypes
      <4>2. QED
        BY <2>2, <4>1
    <3>6. QED
      BY Zenon, <3>4, <3>5
  <2>6. cache' = cache \/ List \/ Receive
    BY Zenon DEF SystemNext, Handle, Announce, ServeWatch, RelayStep, Follow, RefuseWatchList,
      Watch, End, Rest, clientVars, systemVars
  <2>7. QED
    BY Zenon, <2>3, <2>4, <2>5, <2>6
<1>2. QED
  BY <1>1, InformerCorrect, PTL DEF SystemSpec, CacheNeverGoesBack

-----------------------------------------------------------------------------
(* Sends on channels that are open. *)

(* Whoever is inside the read lock sends to watches in the set; a watch has left the set
   before its updateCh is closed. *)
Sending ==
  /\ \A r \in readers : sends[r] \subseteq nodes /\ target[r] \in nodes \cup {Nil}
  /\ \A r \in Requests \ readers : target[r] = Nil
  /\ \A w \in Watches : w \in updateCh \/ watch[w] = "closing" => w \notin nodes

(* The steps of notifyWatchers keep to the nodes of the set. *)
LEMMA AnnounceSends ==
  ASSUME InformerInv, Sending, NEW r \in Requests, Announce(r)
  PROVE  Sending'
<1>1. WatchTypes
  BY Zenon DEF InformerInv
<1>2. nodes \in SUBSET Watches /\ sends[r] \in SUBSET Watches
  BY Zenon, <1>1 DEF WatchTypes
<1>3. CASE W!RLock(r)
  <2>1. readers' = readers \cup {r} /\ W!SendTo(r, nodes) /\ UNCHANGED <<nodes, watch, updateCh>>
    BY Zenon, <1>1, <1>3, RLockEffect
  <2>2. /\ sends' = [sends EXCEPT ![r] = nodes]
        /\ target'[r] \in nodes \/ (target'[r] = Nil /\ nodes = {})
        /\ \A q \in Requests : q # r => target'[q] = target[q]
    BY Zenon, <1>1, <1>2, <2>1, SendToEffect
  <2>3. /\ sends'[r] \subseteq nodes /\ target'[r] \in nodes \cup {Nil}
        /\ \A q \in Requests : q # r => sends'[q] = sends[q] /\ target'[q] = target[q]
    BY Zenon, <1>1, <2>2 DEF WatchTypes
  <2>4. readers \subseteq Requests
    BY Zenon, <1>1 DEF WatchTypes
  <2>5. QED
    BY Zenon, <2>1, <2>3, <2>4 DEF Sending
<1>4. CASE W!Send(r)
  <2>1. r \in readers /\ W!SendTo(r, sends[r] \ {target[r]}) /\ UNCHANGED <<readers, nodes, watch, updateCh>>
    BY Zenon, <1>1, <1>4, SendEffect
  <2>2. sends[r] \ {target[r]} \in SUBSET Watches
    BY Zenon, <1>2
  <2>3. /\ sends' = [sends EXCEPT ![r] = sends[r] \ {target[r]}]
        /\ target'[r] \in sends[r] \ {target[r]} \/ target'[r] = Nil
        /\ \A q \in Requests : q # r => target'[q] = target[q]
    BY Zenon, <1>1, <2>1, <2>2, SendToEffect
  <2>4. /\ sends'[r] \subseteq nodes /\ target'[r] \in nodes \cup {Nil}
        /\ \A q \in Requests : q # r => sends'[q] = sends[q] /\ target'[q] = target[q]
    BY Zenon, <1>1, <2>1, <2>3 DEF WatchTypes, Sending
  <2>5. readers \subseteq Requests
    BY Zenon, <1>1 DEF WatchTypes
  <2>6. QED
    BY Zenon, <2>1, <2>4, <2>5 DEF Sending
<1>5. CASE W!RUnlock(r)
  <2>1. target[r] = Nil /\ readers' = readers \ {r} /\ UNCHANGED <<nodes, watch, updateCh, sends, target>>
    BY Zenon, <1>1, <1>5, RUnlockEffect
  <2>2. QED
    BY Zenon, <2>1 DEF Sending
<1>6. QED
  BY Zenon, <1>3, <1>4, <1>5 DEF Announce

(* A watch joins the set with its channel open, and leaves it with nobody inside the read
   lock. *)
LEMMA ServeSends ==
  ASSUME InformerInv, Sending, NEW w \in Watches, ServeWatch(w)
  PROVE  Sending'
<1>1. WatchTypes /\ Sessions
  BY Zenon DEF InformerInv
<1>2. UNCHANGED <<sends, target, readers>>
  BY Zenon DEF ServeWatch, W!Handler, W!newWatch, W!Start, W!StopDelete, W!StopClose, W!Lock,
    W!Unlock, W!mutex, W!writerVars
<1>3. \A v \in Watches : v # w => watch'[v] = watch[v]
  BY Zenon, <1>1 DEF WatchTypes, ServeWatch, W!Handler, W!newWatch, W!Start, W!StopDelete,
    W!StopClose, W!Lock
<1>4. \/ UNCHANGED <<nodes, updateCh>> /\ watch'[w] # "closing"
      \/ nodes' = nodes \cup {w} /\ updateCh' = updateCh /\ watch[w] = "Start" /\ watch'[w] = "serving"
      \/ nodes' = nodes \ {w} /\ updateCh' = updateCh /\ readers = {}
      \/ nodes' = nodes /\ updateCh' = updateCh \cup {w} /\ watch[w] = "closing"
  <2>1. CASE W!newWatch(w)
    BY Zenon, <1>1, <2>1 DEF W!newWatch, W!Lock, WatchTypes
  <2>2. CASE W!Start(w)
    BY Zenon, <1>1, <2>2 DEF W!Start, W!Lock, W!Locked, WatchTypes
  <2>3. CASE W!StopDelete(w)
    BY Zenon, <1>1, <2>3 DEF W!StopDelete, W!Lock, W!Locked, WatchTypes
  <2>4. CASE W!StopClose(w)
    BY Zenon, <2>4 DEF W!StopClose
  <2>5. QED
    BY Zenon, <2>1, <2>2, <2>3, <2>4 DEF ServeWatch, W!Handler
<1>5. CASE UNCHANGED <<nodes, updateCh>> /\ watch'[w] # "closing"
  BY Zenon, <1>2, <1>3, <1>5 DEF Sending
<1>6. CASE nodes' = nodes \cup {w} /\ updateCh' = updateCh /\ watch[w] = "Start" /\ watch'[w] = "serving"
  <2>1. w \notin updateCh
    BY Zenon, <1>1, <1>6, HandlerStates DEF Sessions
  <2>2. QED
    BY Zenon, <1>2, <1>3, <1>6, <2>1 DEF Sending
<1>7. CASE nodes' = nodes \ {w} /\ updateCh' = updateCh /\ readers = {}
  BY Zenon, <1>2, <1>3, <1>7 DEF Sending
<1>8. CASE nodes' = nodes /\ updateCh' = updateCh \cup {w} /\ watch[w] = "closing"
  BY Zenon, <1>2, <1>3, <1>8 DEF Sending
<1>9. QED
  BY Zenon, <1>4, <1>5, <1>6, <1>7, <1>8

(* Every other step leaves the set and the channels alone. *)
LEMMA SendingNext == InformerInv /\ Sending /\ [SystemNext]_systemVars => Sending'
<1> SUFFICES ASSUME InformerInv, Sending, [SystemNext]_systemVars PROVE Sending'
  BY Zenon
<1>1. CASE \E r \in Requests : Announce(r)
  BY Zenon, <1>1, AnnounceSends
<1>2. CASE \E w \in Watches : ServeWatch(w)
  BY Zenon, <1>2, ServeSends
<1>3. CASE End
  <2>1. /\ watch' = [watch EXCEPT ![session] = "stopping"]
        /\ UNCHANGED <<readers, nodes, sends, target, updateCh>>
    BY Zenon, <1>3 DEF End, W!Stop, W!mutex, W!writerVars
  <2>2. \A w \in Watches : watch'[w] = "closing" => watch[w] = "closing"
    BY Zenon, <2>1 DEF InformerInv, WatchTypes
  <2>3. QED
    BY Zenon, <2>1, <2>2 DEF Sending
<1>4. CASE UNCHANGED <<readers, nodes, sends, target, updateCh, watch>>
  BY Zenon, <1>4 DEF Sending
<1>5. ASSUME NEW r \in Requests, Handle(r) PROVE UNCHANGED <<readers, nodes, sends, target, updateCh, watch>>
  BY Zenon, <1>5 DEF Handle, watchVars
<1>6. ASSUME NEW w \in Watches, RelayStep(w) PROVE UNCHANGED <<readers, nodes, sends, target, updateCh, watch>>
  BY Zenon, <1>6 DEF RelayStep, W!Drop, W!CloseOut, W!mutex, W!writerVars
<1>7. ASSUME Follow PROVE UNCHANGED <<readers, nodes, sends, target, updateCh, watch>>
  BY Zenon, <1>7 DEF Follow, RefuseWatchList, List, Watch, Receive, watchVars, W!Take, W!mutex,
    W!writerVars
<1>8. ASSUME UNCHANGED systemVars PROVE UNCHANGED <<readers, nodes, sends, target, updateCh, watch>>
  BY Zenon, <1>8 DEF systemVars, watchVars
<1>9. QED
  BY Zenon, <1>1, <1>2, <1>3, <1>4, <1>5, <1>6, <1>7, <1>8 DEF SystemNext, Rest

(* No handler panics in notifyWatchers: with real requests for its writers and an informer
   that ends its watches at any time, nobody sends on a channel that Stop has closed. *)
THEOREM SystemSendsOnOpen == SystemSpec => []W!NoSendOnClosed
<1>1. SystemInit => Sending
  BY Zenon DEF SystemInit, Unwatched, Sending
<1>2. InformerInv /\ Sending => W!NoSendOnClosed
  <2> SUFFICES ASSUME InformerInv, Sending PROVE W!NoSendOnClosed
    BY Zenon
  <2>1. nodes \subseteq Watches /\ updateCh \subseteq Watches /\ readers \subseteq Requests
    BY Zenon DEF InformerInv, WatchTypes
  <2>2. \A r \in Requests : target[r] \in nodes \cup {Nil}
    BY Zenon DEF Sending
  <2>3. \A w \in nodes \cup {Nil} : w \notin updateCh
    BY Zenon, <2>1, InformerAssumption DEF Sending
  <2>4. QED
    BY Zenon, <2>2, <2>3 DEF W!NoSendOnClosed
<1>3. QED
  BY <1>1, <1>2, InformerCorrect, SendingNext, PTL DEF SystemSpec
=============================================================================
