-------------------------- MODULE WatchSet_proofs --------------------------
(***************************************************************************)
(* The fan-out is safe for any number of watches and writers: nothing is   *)
(* sent on a closed channel, and no watch misses an object.                *)
(***************************************************************************)
EXTENDS WatchSet, TLAPS

Types ==
  /\ writer \in Watches \cup {Nil}
  /\ nodes \subseteq Watches /\ stopCh \subseteq Watches /\ updateCh \subseteq Watches
  /\ watch \in [Watches -> WatchStates]
  /\ relay \in [Watches -> RelayStates]
  /\ queue \in [Watches -> SUBSET Writers]
  /\ got \in [Watches -> SUBSET Writers]
  /\ stored \subseteq Writers
  /\ event \in [Writers -> Writers \cup {Nil}]
  /\ notify \in [Writers -> NotifyStates]
  /\ todo \in [Writers -> SUBSET Watches]
  /\ target \in [Writers -> Watches \cup {Nil}]

(* The lock is held by those that are between locking and unlocking. *)
Locks ==
  /\ \A w \in Watches : watch[w] \in Locking <=> writer = w
  /\ readers = {n \in Writers : notify[n] = "sending"}

(* Which watches are in the set, and whose channels are closed. *)
Registered ==
  \A w \in Watches :
    /\ w \in nodes => watch[w] \in {"serving", "stopping", "Stop", "failed"}
    /\ watch[w] = "serving" => w \in nodes
    /\ w \in updateCh => watch[w] = "stopped"
    /\ w \in stopCh => watch[w] # "serving" /\ watch[w] \in {"stopping", "Stop", "closing", "stopped"}
    /\ watch[w] \notin {"idle", "newWatch", "created", "Start"} \/ relay[w] = "none"

(* A writer sends its own event, to watches that stay in the set meanwhile. *)
Sending ==
  \A n \in Writers :
    /\ notify[n] = "sending" => todo[n] \subseteq nodes
    /\ IF todo[n] = {} THEN target[n] = Nil ELSE target[n] \in todo[n]
    /\ notify[n] # "sending" => todo[n] = {}
    /\ notify[n] \in {"stored", "sending"} => event[n] = n
    /\ n \in stored <=> notify[n] # "idle"

(* A goroutine that waits for an event has passed on all it had. *)
Drained == \A w \in Watches : relay[w] \in {"none", "recv", "done"} => queue[w] = {}

FanInv == Types /\ Locks /\ Registered /\ Sending /\ Drained

-----------------------------------------------------------------------------
LEMMA FanInit == Init => FanInv /\ NoMissedObject
<1> USE WatchAssumption
<1>1. Init => Types /\ Locks /\ Registered /\ Sending /\ Drained
  BY DEF Init, Types, Locks, Locking, Registered, Sending, Drained, WatchStates, RelayStates,
         NotifyStates
<1>2. Init => NoMissedObject
  BY DEF Init, NoMissedObject
<1>3. QED
  BY <1>1, <1>2 DEF FanInv

(* A call of Lock. *)
LEMMA LockKeeps ==
  ASSUME FanInv, NoMissedObject, NEW w \in Watches, NEW from, NEW why \in Locking,
         Lock(w, from, why),
         <<from, why>> \in {<<"idle", "newWatch">>, <<"created", "Start">>, <<"stopping", "Stop">>}
  PROVE  FanInv' /\ NoMissedObject'
<1> USE WatchAssumption DEF FanInv, Lock, writerVars
<1>1. Types'
  BY DEF Types, WatchStates, Locking
<1>2. Locks'
  BY DEF Types, Locks, Locking, WatchStates
<1>3. Registered'
  BY DEF Types, Registered, Locking
<1>4. Sending' /\ Drained'
  BY DEF Types, Sending, Drained
<1>5. NoMissedObject'
  BY DEF Types, NoMissedObject, Underway
<1>6. QED
  BY <1>1, <1>2, <1>3, <1>4, <1>5

(* newWatch under the lock. *)
LEMMA NewWatchKeeps ==
  ASSUME FanInv, NoMissedObject, NEW w \in Watches,
         Locked(w, "newWatch"), newWatch(w)
  PROVE  FanInv' /\ NoMissedObject'
<1> USE WatchAssumption DEF FanInv, Types, newWatch, Lock, Locked, Unlock, writerVars
<1>1. Types'
  BY DEF WatchStates, Locking
<1>2. Locks'
  BY DEF Locks, WatchStates, Locking
<1>3. Registered'
  BY DEF Registered
<1>4. Sending'
  BY DEF Sending
<1>5. Drained'
  BY DEF Drained
<1>6. NoMissedObject'
  BY DEF NoMissedObject, Underway
<1>7. QED
  BY <1>1, <1>2, <1>3, <1>4, <1>5, <1>6

(* Start under the lock: what is in the store is queued, and what is not yet will be
   sent, as the watch is in the set before the next notifyWatchers. *)
LEMMA StartKeeps ==
  ASSUME FanInv, NoMissedObject, NEW w \in Watches,
         Locked(w, "Start"), Start(w)
  PROVE  FanInv' /\ NoMissedObject'
<1> USE WatchAssumption DEF FanInv, Types, Start, Lock, Locked, Unlock, Relay, initEvents, writerVars
<1>1. Types'
  BY DEF WatchStates, Locking, RelayStates
<1>2. Locks'
  BY DEF Locks, WatchStates, Locking
<1>3. Registered'
  BY DEF Registered
<1>4. Sending'
  BY DEF Sending, Locks
<1>5. Drained'
  BY DEF Drained
<1>6. NoMissedObject'
  BY DEF NoMissedObject, Underway
<1>7. QED
  BY <1>1, <1>2, <1>3, <1>4, <1>5, <1>6

(* Stop closes stopCh. *)
LEMMA StopKeeps ==
  ASSUME FanInv, NoMissedObject, NEW w \in Watches, Stop(w)
  PROVE  FanInv' /\ NoMissedObject'
<1> USE WatchAssumption DEF FanInv, Types, Stop, mutex, writerVars
<1>1. Types'
  BY DEF WatchStates, Locking
<1>2. Locks'
  BY DEF Locks, WatchStates, Locking
<1>3. Registered'
  BY DEF Registered
<1>4. Sending'
  BY DEF Sending
<1>5. Drained'
  BY DEF Drained
<1>6. NoMissedObject'
  BY DEF NoMissedObject, Underway
<1>7. QED
  BY <1>1, <1>2, <1>3, <1>4, <1>5, <1>6

(* Stop under the lock: nobody is sending. *)
LEMMA StopDeleteKeeps ==
  ASSUME FanInv, NoMissedObject, NEW w \in Watches,
         Locked(w, "Stop"), StopDelete(w)
  PROVE  FanInv' /\ NoMissedObject'
<1> USE WatchAssumption DEF FanInv, Types, StopDelete, Lock, Locked, Unlock, writerVars
<1>1. Types'
  BY DEF WatchStates, Locking
<1>2. Locks'
  BY DEF Locks, WatchStates, Locking
<1>3. Registered'
  BY DEF Registered
<1>4. Sending'
  BY DEF Sending, Locks
<1>5. Drained'
  BY DEF Drained
<1>6. NoMissedObject'
  BY DEF NoMissedObject, Underway
<1>7. QED
  BY <1>1, <1>2, <1>3, <1>4, <1>5, <1>6

(* Stop closes updateCh. *)
LEMMA StopCloseKeeps ==
  ASSUME FanInv, NoMissedObject, NEW w \in Watches, StopClose(w)
  PROVE  FanInv' /\ NoMissedObject'
<1> USE WatchAssumption DEF FanInv, Types, StopClose, mutex, writerVars
<1>1. Types'
  BY DEF WatchStates, Locking
<1>2. Locks'
  BY DEF Locks, WatchStates, Locking
<1>3. Registered'
  BY DEF Registered
<1>4. Sending'
  BY DEF Sending
<1>5. Drained'
  BY DEF Drained
<1>6. NoMissedObject'
  BY DEF NoMissedObject, Underway
<1>7. QED
  BY <1>1, <1>2, <1>3, <1>4, <1>5, <1>6

(* An event that leaves the queue is received. *)
LEMMA DeliverKeeps ==
  ASSUME FanInv, NoMissedObject, NEW w \in Watches, Deliver(w)
  PROVE  FanInv' /\ NoMissedObject'
<1> USE WatchAssumption DEF FanInv, Types, Deliver, Take, Relay, mutex, writerVars
<1>1. Types'
  BY DEF RelayStates
<1>2. Locks'
  BY DEF Locks
<1>3. Registered'
  BY DEF Registered, WatchStates
<1>4. Sending'
  BY DEF Sending
<1>5. Drained'
  BY DEF Drained
<1>6. NoMissedObject'
  BY DEF NoMissedObject, Underway
<1>7. QED
  BY <1>1, <1>2, <1>3, <1>4, <1>5, <1>6

(* Only a watch that is being stopped drops events. *)
LEMMA DropKeeps ==
  ASSUME FanInv, NoMissedObject, NEW w \in Watches, Drop(w)
  PROVE  FanInv' /\ NoMissedObject'
<1> USE WatchAssumption DEF FanInv, Types, Drop, Relay, mutex, writerVars
<1>1. Types'
  BY DEF RelayStates
<1>2. Locks'
  BY DEF Locks
<1>3. Registered'
  BY DEF Registered, WatchStates
<1>4. Sending'
  BY DEF Sending
<1>5. Drained'
  BY DEF Drained
<1>6. NoMissedObject'
  BY DEF NoMissedObject, Underway, Registered
<1>7. QED
  BY <1>1, <1>2, <1>3, <1>4, <1>5, <1>6

(* The goroutine ends. *)
LEMMA CloseOutKeeps ==
  ASSUME FanInv, NoMissedObject, NEW w \in Watches, CloseOut(w)
  PROVE  FanInv' /\ NoMissedObject'
<1> USE WatchAssumption DEF FanInv, Types, CloseOut, mutex, writerVars
<1>1. Types'
  BY DEF RelayStates
<1>2. Locks'
  BY DEF Locks
<1>3. Registered'
  BY DEF Registered
<1>4. Sending'
  BY DEF Sending
<1>5. Drained'
  BY DEF Drained
<1>6. NoMissedObject'
  BY DEF NoMissedObject, Underway
<1>7. QED
  BY <1>1, <1>2, <1>3, <1>4, <1>5, <1>6

(* A write to the store. *)
LEMMA StoreKeeps ==
  ASSUME FanInv, NoMissedObject, NEW n \in Writers, Store(n)
  PROVE  FanInv' /\ NoMissedObject'
<1> USE WatchAssumption DEF FanInv, Types, Store, mutex, watchVars
<1>1. Types'
  BY DEF NotifyStates
<1>2. Locks'
  BY DEF Locks, NotifyStates
<1>3. Registered'
  BY DEF Registered
<1>4. Sending'
  BY DEF Sending, NotifyStates
<1>5. Drained'
  BY DEF Drained
<1>6. NoMissedObject'
  BY DEF NoMissedObject, Underway
<1>7. QED
  BY <1>1, <1>2, <1>3, <1>4, <1>5, <1>6

(* notifyWatchers takes the read lock: it will send to all that are in the set. *)
LEMMA RLockKeeps ==
  ASSUME FanInv, NoMissedObject, NEW n \in Writers, RLock(n)
  PROVE  FanInv' /\ NoMissedObject'
<1> USE WatchAssumption DEF FanInv, Types, RLock, SendTo, watchVars
<1>1. Types'
  BY DEF NotifyStates
<1>2. Locks'
  BY DEF Locks, NotifyStates
<1>3. Registered'
  BY DEF Registered
<1>4. Sending'
  BY DEF Sending
<1>5. Drained'
  BY DEF Drained
<1>6. NoMissedObject'
  BY DEF NoMissedObject, Underway, Registered
<1>7. QED
  BY <1>1, <1>2, <1>3, <1>4, <1>5, <1>6

(* The goroutine keeps the event if it is selected. *)
LEMMA SendKeeps ==
  ASSUME FanInv, NoMissedObject, NEW n \in Writers, Send(n)
  PROVE  FanInv' /\ NoMissedObject'
<1> USE WatchAssumption DEF FanInv, Types, Send, SendTo, Relay, mutex
<1>1. Types'
  BY DEF RelayStates, Sending
<1>2. Locks'
  BY DEF Locks
<1>3. Registered'
  BY DEF Registered, Sending
<1>4. Sending'
  BY DEF Sending
<1>5. Drained'
  BY DEF Drained, Sending
<1>6. NoMissedObject'
  BY DEF NoMissedObject, Underway, Sending, Drained
<1>7. QED
  BY <1>1, <1>2, <1>3, <1>4, <1>5, <1>6

(* notifyWatchers has sent to all. *)
LEMMA RUnlockKeeps ==
  ASSUME FanInv, NoMissedObject, NEW n \in Writers, RUnlock(n)
  PROVE  FanInv' /\ NoMissedObject'
<1> USE WatchAssumption DEF FanInv, Types, RUnlock, watchVars
<1>1. Types'
  BY DEF NotifyStates
<1>2. Locks'
  BY DEF Locks, NotifyStates
<1>3. Registered'
  BY DEF Registered
<1>4. Sending'
  BY DEF Sending
<1>5. Drained'
  BY DEF Drained
<1>6. NoMissedObject'
  BY DEF NoMissedObject, Underway, Sending
<1>7. QED
  BY <1>1, <1>2, <1>3, <1>4, <1>5, <1>6

LEMMA FanNext == FanInv /\ NoMissedObject /\ [Next]_vars => FanInv' /\ NoMissedObject'
<1> SUFFICES ASSUME FanInv, NoMissedObject, [Next]_vars
             PROVE  FanInv' /\ NoMissedObject'
  OBVIOUS
<1>1. ASSUME NEW w \in Watches, Handler(w)
      PROVE  FanInv' /\ NoMissedObject'
  <2>1. CASE newWatch(w)
    BY <2>1, LockKeeps, NewWatchKeeps DEF newWatch, Locking
  <2>2. CASE Start(w)
    BY <2>2, LockKeeps, StartKeeps DEF Start, Locking
  <2>3. CASE StopDelete(w)
    BY <2>3, LockKeeps, StopDeleteKeeps DEF StopDelete, Locking
  <2>4. CASE StopClose(w)
    BY <2>4, StopCloseKeeps
  <2>5. QED
    BY <1>1, <2>1, <2>2, <2>3, <2>4 DEF Handler
<1>2. ASSUME NEW w \in Watches, Stop(w) \/ Deliver(w) \/ Drop(w) \/ CloseOut(w)
      PROVE  FanInv' /\ NoMissedObject'
  BY <1>2, StopKeeps, DeliverKeeps, DropKeeps, CloseOutKeeps
<1>3. ASSUME NEW n \in Writers, Store(n) \/ notifyWatchers(n)
      PROVE  FanInv' /\ NoMissedObject'
  BY <1>3, StoreKeeps, RLockKeeps, SendKeeps, RUnlockKeeps DEF notifyWatchers
<1>4. CASE UNCHANGED vars
  BY <1>4 DEF vars, mutex, watchVars, writerVars, FanInv, Types, Locks, Registered, Sending,
              Drained, NoMissedObject, Underway
<1>5. QED
  BY <1>1, <1>2, <1>3, <1>4 DEF Next, Idle

LEMMA FanInvariant == Spec => [](FanInv /\ NoMissedObject)
BY FanInit, FanNext, PTL DEF Spec

-----------------------------------------------------------------------------
(* Every variable of the fan-out has its type and the RWMutex is held by those between
   locking and unlocking, when each writer announces its own name. *)
THEOREM FanTypes ==
  ASSUME Writers \subseteq Events
  PROVE  Spec => []TypeOK
<1>1. FanInv => TypeOK
  BY DEF FanInv, Types, Locks, TypeOK
<1>2. QED
  BY <1>1, FanInvariant, PTL

(* notifyWatchers never sends on a channel that Stop has closed: it sends to
   watches that stay in the set as long as it holds the read lock, and Stop
   closes updateCh of a watch that it has taken out of the set. *)
THEOREM SendsOnOpenChannels == Spec => []NoSendOnClosed
<1>1. FanInv => NoSendOnClosed
  BY WatchAssumption DEF FanInv, Types, Registered, Sending, NoSendOnClosed
<1>2. QED
  BY <1>1, FanInvariant, PTL

(* Whatever is in the store has been received by every serving watch that lists
   and selects it, is on its way to it, or is about to be announced. *)
THEOREM NothingMissed == Spec => []NoMissedObject
BY FanInvariant, PTL

=============================================================================
