------------------------------ MODULE WatchSet ------------------------------
(***************************************************************************)
(* The fan-out of events to watches: WatchSet with its RWMutex, one        *)
(* goroutine per watch between the unbuffered channels updateCh and outCh, *)
(* and the HTTP handler that consumes a watch and stops it.  Writers put   *)
(* an object in the store and then call notifyWatchers, as the handlers of *)
(* filepathREST do; a new watch lists the store while it holds the lock.   *)
(*                                                                         *)
(* A send on an unbuffered channel is one step of sender and receiver.     *)
(***************************************************************************)
EXTENDS Naturals, FiniteSets

CONSTANTS
  Watches,   \* calls of Watch
  Writers,   \* requests that write an object each
  Events,    \* what they announce; by itself, a writer announces its own name
  Nil,       \* nobody
  Selects,   \* the events that match the selectors of each watch
  InDir,     \* the events on objects in the directory that each watch lists
  Failing    \* watches whose initial List fails

ASSUME WatchAssumption ==
  /\ Nil \notin Watches \cup Writers
  /\ Nil \notin Events
  /\ Selects \in [Watches -> SUBSET Events]
  /\ InDir \in [Watches -> SUBSET Events]
  /\ Failing \subseteq Watches

VARIABLES
  writer,    \* who holds or waits for the write lock of mu; others wait behind it
  readers,   \* who holds the read lock
  nodes,     \* the registered watches
  watch,     \* where the handler of each watch is
  relay,     \* where the goroutine of each watch is
  queue,     \* events the goroutine has yet to pass to outCh
  stopCh,    \* watches whose stopCh is closed
  updateCh,  \* watches whose updateCh is closed
  stored,    \* the objects in the store, as the events that announce them
  event,     \* the event that each writer announces
  notify,    \* where each writer is
  todo,      \* nodes that notifyWatchers has yet to send to, for each writer
  target,    \* the node it is sending to
  got        \* events each consumer has received

mutex == <<writer, readers>>
watchVars == <<watch, relay, queue, stopCh, updateCh, got>>
writerVars == <<stored, event, notify, todo, target>>
vars == <<mutex, nodes, watchVars, writerVars>>

(* Handlers: those that want or hold the write lock are named for why. *)
Locking == {"newWatch", "Start", "Stop"}
WatchStates == {"idle", "created", "serving", "stopping", "closing", "stopped", "failed"}
                 \cup Locking
RelayStates == {"none", "recv", "send", "done"}
NotifyStates == {"idle", "stored", "sending", "done"}

Init ==
  /\ writer = Nil
  /\ readers = {}
  /\ nodes = {}
  /\ watch = [w \in Watches |-> "idle"]
  /\ relay = [w \in Watches |-> "none"]
  /\ queue = [w \in Watches |-> {}]
  /\ stopCh = {}
  /\ updateCh = {}
  /\ stored = {}
  /\ event = [n \in Writers |-> Nil]
  /\ notify = [n \in Writers |-> "idle"]
  /\ todo = [n \in Writers |-> {}]
  /\ target = [n \in Writers |-> Nil]
  /\ got = [w \in Watches |-> {}]

-----------------------------------------------------------------------------
(* The RWMutex.  A call of Lock shuts out new readers at once and goes on when
   those that are inside have left. *)
Lock(w, from, why) ==
  /\ watch[w] = from
  /\ writer = Nil
  /\ writer' = w
  /\ watch' = [watch EXCEPT ![w] = why]
  /\ UNCHANGED <<readers, nodes, relay, queue, stopCh, updateCh, got, writerVars>>

Locked(w, why) == watch[w] = why /\ writer = w /\ readers = {}

Unlock == writer' = Nil /\ UNCHANGED readers

-----------------------------------------------------------------------------
(* The handler of a watch: newWatch, Start, then the events, then Stop. *)

newWatch(w) ==
  \/ Lock(w, "idle", "newWatch")
  \/ /\ Locked(w, "newWatch")
     /\ watch' = [watch EXCEPT ![w] = "created"]
     /\ Unlock
     /\ UNCHANGED <<nodes, relay, queue, stopCh, updateCh, got, writerVars>>

(* The initial events: what List returns, filtered by the selectors. *)
initEvents(w) == stored \cap InDir[w] \cap Selects[w]

(* The goroutine has these events to send, or waits for one. *)
Relay(w, events) ==
  /\ queue' = [queue EXCEPT ![w] = events]
  /\ relay' = [relay EXCEPT ![w] = IF events = {} THEN "recv" ELSE "send"]

(* A faulty variant: the store is listed before Lock is called. *)
StartListsFirst(w) ==
  \/ /\ watch[w] = "created"
     /\ relay[w] = "none"
     /\ queue' = [queue EXCEPT ![w] = initEvents(w)]
     /\ relay' = [relay EXCEPT ![w] = "done"]
     /\ UNCHANGED <<mutex, nodes, watch, stopCh, updateCh, got, writerVars>>
  \/ relay[w] = "done" /\ Lock(w, "created", "Start")
  \/ /\ Locked(w, "Start")
     /\ nodes' = nodes \cup {w}
     /\ Relay(w, queue[w])
     /\ watch' = [watch EXCEPT ![w] = "serving"]
     /\ Unlock
     /\ UNCHANGED <<stopCh, updateCh, got, writerVars>>

(* Start registers the watch, lists the store and starts the goroutine.  If
   the List fails the watch stays registered, and nobody calls Stop. *)
Start(w) ==
  \/ Lock(w, "created", "Start")
  \/ /\ Locked(w, "Start")
     /\ w \notin Failing
     /\ nodes' = nodes \cup {w}
     /\ Relay(w, initEvents(w))
     /\ watch' = [watch EXCEPT ![w] = "serving"]
     /\ Unlock
     /\ UNCHANGED <<stopCh, updateCh, got, writerVars>>
  \/ /\ Locked(w, "Start")
     /\ w \in Failing
     /\ nodes' = nodes \cup {w}
     /\ watch' = [watch EXCEPT ![w] = "failed"]
     /\ Unlock
     /\ UNCHANGED <<relay, queue, stopCh, updateCh, got, writerVars>>

(* A faulty variant: updateCh is closed while the watch is still registered. *)
StopClosesBoth(w) ==
  /\ watch[w] = "serving"
  /\ watch' = [watch EXCEPT ![w] = "stopping"]
  /\ stopCh' = stopCh \cup {w}
  /\ updateCh' = updateCh \cup {w}
  /\ UNCHANGED <<mutex, nodes, relay, queue, got, writerVars>>

(* Stop closes stopCh, takes the watch out of the set, and closes updateCh. *)
Stop(w) ==
  /\ watch[w] = "serving"
  /\ watch' = [watch EXCEPT ![w] = "stopping"]
  /\ stopCh' = stopCh \cup {w}
  /\ UNCHANGED <<mutex, nodes, relay, queue, updateCh, got, writerVars>>

StopDelete(w) ==
  \/ Lock(w, "stopping", "Stop")
  \/ /\ Locked(w, "Stop")
     /\ nodes' = nodes \ {w}
     /\ watch' = [watch EXCEPT ![w] = "closing"]
     /\ Unlock
     /\ UNCHANGED <<relay, queue, stopCh, updateCh, got, writerVars>>

StopClose(w) ==
  /\ watch[w] = "closing"
  /\ watch' = [watch EXCEPT ![w] = "stopped"]
  /\ updateCh' = updateCh \cup {w}
  /\ UNCHANGED <<mutex, nodes, relay, queue, stopCh, got, writerVars>>

-----------------------------------------------------------------------------
(* The goroutine of a watch: the initial events one by one, then those that
   arrive on updateCh until it is closed; then outCh is closed. *)

(* The consumer takes an event from outCh. *)
Take(w, e) ==
  /\ relay[w] = "send"
  /\ watch[w] = "serving"
  /\ e \in queue[w]
  /\ Relay(w, queue[w] \ {e})
  /\ UNCHANGED <<mutex, nodes, watch, stopCh, updateCh, writerVars>>

Deliver(w) ==
  \E e \in queue[w] : Take(w, e) /\ got' = [got EXCEPT ![w] = @ \cup {e}]

(* A faulty variant: stopCh is not looked at, and the send waits for ever. *)
DropNothing(w) == w \in stopCh /\ relay[w] = "none" /\ UNCHANGED vars

(* stopCh is closed: the event is dropped. *)
Drop(w) ==
  /\ relay[w] = "send"
  /\ w \in stopCh
  /\ \E e \in queue[w] : Relay(w, queue[w] \ {e})
  /\ UNCHANGED <<mutex, nodes, watch, stopCh, updateCh, got, writerVars>>

CloseOut(w) ==
  /\ relay[w] = "recv"
  /\ w \in updateCh
  /\ relay' = [relay EXCEPT ![w] = "done"]
  /\ UNCHANGED <<mutex, nodes, watch, queue, stopCh, updateCh, got, writerVars>>

-----------------------------------------------------------------------------
(* A writer: the write to the store, then notifyWatchers. *)

Store(n) ==
  /\ notify[n] = "idle"
  /\ stored' = stored \cup {n}
  /\ event' = [event EXCEPT ![n] = n]
  /\ notify' = [notify EXCEPT ![n] = "stored"]
  /\ UNCHANGED <<mutex, nodes, watchVars, todo, target>>

(* The loop over nodes, in any order: ws are left to send to. *)
SendTo(n, ws) ==
  /\ todo' = [todo EXCEPT ![n] = ws]
  /\ \/ \E w \in ws : target' = [target EXCEPT ![n] = w]
     \/ ws = {} /\ target' = [target EXCEPT ![n] = Nil]

RLock(n) ==
  /\ notify[n] = "stored"
  /\ writer = Nil
  /\ readers' = readers \cup {n}
  /\ notify' = [notify EXCEPT ![n] = "sending"]
  /\ SendTo(n, nodes)
  /\ UNCHANGED <<writer, nodes, watchVars, stored, event>>

(* w.updateCh <- ev: the goroutine takes the event, and keeps it if it matches.
   On a closed channel the send would panic. *)
Send(n) ==
  LET w == target[n]
  IN  /\ notify[n] = "sending"
      /\ w # Nil
      /\ relay[w] = "recv"
      /\ w \notin updateCh
      /\ Relay(w, {event[n]} \cap Selects[w])
      /\ SendTo(n, todo[n] \ {w})
      /\ UNCHANGED <<mutex, nodes, watch, stopCh, updateCh, got, stored, event, notify>>

RUnlock(n) ==
  /\ notify[n] = "sending"
  /\ target[n] = Nil
  /\ readers' = readers \ {n}
  /\ notify' = [notify EXCEPT ![n] = "done"]
  /\ event' = [event EXCEPT ![n] = Nil]
  /\ UNCHANGED <<writer, nodes, watchVars, stored, todo, target>>

-----------------------------------------------------------------------------
notifyWatchers(n) == RLock(n) \/ Send(n) \/ RUnlock(n)

Handler(w) == newWatch(w) \/ Start(w) \/ StopDelete(w) \/ StopClose(w)

(* Everything that was asked for is done: the server waits for more. *)
Idle ==
  /\ \A n \in Writers : notify[n] = "done"
  /\ \A w \in Watches : watch[w] \in {"stopped", "failed"} /\ relay[w] \in {"none", "done"}
  /\ UNCHANGED vars

Next ==
  \/ \E w \in Watches : Handler(w) \/ Stop(w) \/ Deliver(w) \/ Drop(w) \/ CloseOut(w)
  \/ \E n \in Writers : Store(n) \/ notifyWatchers(n)
  \/ Idle

(* Goroutines that can run do so; a request that has started goes on; and the
   consumer of a watch takes an event it is offered, or stops the watch.  It
   need not stop a watch that offers nothing. *)
Fairness ==
  /\ \A w \in Watches : /\ WF_vars(watch[w] # "idle" /\ Handler(w))
                        /\ WF_vars(Drop(w) \/ CloseOut(w))
                        /\ WF_vars(relay[w] = "send" /\ (Deliver(w) \/ Stop(w)))
  /\ \A n \in Writers : WF_vars(notifyWatchers(n))

Spec == Init /\ [][Next]_vars

FairSpec == Spec /\ Fairness

-----------------------------------------------------------------------------
(* Every variable has its type, and the locks are held by those that are in
   the code between locking and unlocking. *)
TypeOK ==
  /\ writer \in Watches \cup {Nil}
  /\ \A w \in Watches : watch[w] \in Locking <=> writer = w
  /\ readers = {n \in Writers : notify[n] = "sending"}
  /\ nodes \subseteq Watches
  /\ watch \in [Watches -> WatchStates]
  /\ relay \in [Watches -> RelayStates]
  /\ queue \in [Watches -> SUBSET Events]
  /\ stopCh \subseteq Watches
  /\ updateCh \subseteq Watches
  /\ stored \subseteq Events
  /\ event \in [Writers -> Events \cup {Nil}]
  /\ notify \in [Writers -> NotifyStates]
  /\ todo \in [Writers -> SUBSET Watches]
  /\ target \in [Writers -> Watches \cup {Nil}]
  /\ got \in [Watches -> SUBSET Events]

(* notifyWatchers never sends on a channel that Stop has closed, which would
   panic: Stop closes updateCh only after it has taken the watch out of the set
   with every notifyWatchers out of the read lock. *)
NoSendOnClosed == \A n \in Writers : target[n] \notin updateCh

(* A watch misses no object: whatever is in the store has been received by the
   consumer of every watch that lists and selects it, is on its way to it, or is
   about to be announced.  Registering and listing under the write lock is what
   makes this so. *)
Underway(n, w) ==
  \/ n \in got[w] \cup queue[w]
  \/ notify[n] = "stored"
  \/ notify[n] = "sending" /\ w \in todo[n]

NoMissedObject ==
  \A w \in Watches : watch[w] = "serving" =>
    \A n \in stored \cap InDir[w] \cap Selects[w] : Underway(n, w)

(* A watch that failed to start is in the set, and nobody receives for it. *)
Orphaned == \E w \in Watches : watch[w] = "failed"

(* The two properties below say that there is always a later moment at which
   nothing is underway.  A writer notifies once and a watch is stopped once, so
   this is that each of them comes to its end. *)

(* An object that is stored reaches every watch that selects it, unless the
   watch is stopped first, or one that failed to start holds the writer up. *)
Reached(n, w) == n \in InDir[w] \cap Selects[w] /\ watch[w] = "serving" => n \in got[w]

ObjectsReachWatches ==
  []<>(Orphaned \/ \A n \in stored, w \in Watches : Reached(n, w))

(* Stop has returned and the goroutine has ended, with the result channel closed. *)
Stopped(w) == watch[w] = "stopped" /\ relay[w] = "done"

(* Writers and watches do not hold each other up for ever: notifyWatchers returns, even
   if watches are stopped with events undelivered, and Stop returns, even if writers go
   on sending.  Only a watch whose initial List failed can keep them. *)
NobodyHeldUp ==
  []<>(\/ Orphaned
       \/ /\ \A n \in Writers : notify[n] \notin {"stored", "sending"}
          /\ \A w \in stopCh : Stopped(w))

(* "If an error occurs or Stop() is called, the producer must close this channel
   and release any resources used by the watch": a watch that failed to start
   is not left in the set. *)
FailedWatchReleased == \A w \in Watches : watch[w] = "failed" => w \notin nodes
=============================================================================
