------------------------------ MODULE Informer ------------------------------
(***************************************************************************)
(* The handlers of filepathREST, the WatchSet that they announce their     *)
(* writes to, and an informer of the generated client that lists and       *)
(* watches the resource: FilepathREST and WatchSet put together, where     *)
(* notifyWatchers is no longer one step but RLock, the sends and RUnlock.  *)
(*                                                                         *)
(* The informer is client-go's reflector.  It lists, then watches; when a  *)
(* watch ends it opens another or lists again.  The server takes no notice *)
(* of the version that a watch asks to begin at: each watch begins with    *)
(* what is in the store, and says nothing of what is not.                  *)
(***************************************************************************)
EXTENDS FilepathREST

CONSTANTS
  Watches   \* the watches the informer opens, one after the other

ASSUME InformerAssumption == Nil \notin Watches

VARIABLES
  writer, readers, nodes, watch, relay, queue, stopCh, updateCh,   \* see WatchSet
  sends,     \* the nodes that each notifyWatchers has yet to send to
  target,    \* the node it is sending to
  reflector, \* where the informer is
  session,   \* the watch it has open
  cache,     \* its copy of each object
  raced,     \* history variable: objects whose announcements may be out of order
  deaf       \* history variable: objects whose removal the informer was not told of

watchVars == <<writer, readers, nodes, watch, relay, queue, stopCh, updateCh, sends, target>>
clientVars == <<reflector, session, cache>>
lapses == <<raced, deaf>>
systemVars == <<vars, watchVars, clientVars, lapses>>

(* The event that a request passes to notifyWatchers, and how far it is. *)
EventOf(r) ==
  IF pc[r] \in EventTypes THEN [type |-> pc[r], key |-> arg[r].key, obj |-> out[r]] ELSE Nil

NotifyOf(r) ==
  CASE pc[r] \in Replies -> "done"
    [] pc[r] \in EventTypes -> IF r \in readers THEN "sending" ELSE "stored"
    [] OTHER -> "idle"

(* getInitEvents: what List returns, as Added events. *)
InitEvents == {[type |-> Added, key |-> i.key, obj |-> i.obj] : i \in VisitDir(Keys)}

W == INSTANCE WatchSet WITH
       Writers <- Requests, Events <- Event, Failing <- {},
       Selects <- [w \in Watches |-> Event], InDir <- [w \in Watches |-> Event],
       stored <- InitEvents,
       event <- [r \in Requests |-> EventOf(r)],
       notify <- [r \in Requests |-> NotifyOf(r)],
       todo <- sends,
       got <- [w \in Watches |-> {}]

(* No watch is open and the informer has not begun. *)
Unwatched ==
  /\ writer = Nil /\ readers = {} /\ nodes = {} /\ stopCh = {} /\ updateCh = {}
  /\ watch = [w \in Watches |-> "idle"]
  /\ relay = [w \in Watches |-> "none"]
  /\ queue = [w \in Watches |-> {}]
  /\ sends = [r \in Requests |-> {}]
  /\ target = [r \in Requests |-> Nil]
  /\ reflector = "watchList"   \* a client with WatchListClient off begins with "list"
  /\ session = Nil
  /\ cache = [k \in Keys |-> ErrNotExist]
  /\ raced = {} /\ deaf = {}

SystemInit == Init /\ Unwatched

-----------------------------------------------------------------------------
(* The server: requests and the watches that are open. *)

(* Requests that have yet to announce what they did to k. *)
Unannounced(k) ==
  {r \in Requests : pc[r] \in EventTypes \cup {"updateRemove"} /\ arg[r].key = k}

Queued(k) == \E w \in Watches : \E e \in queue[w] : e.key = k

(* A step of a request up to the announcement.  A change of a file that another
   request is about to announce may reach the watches before that announcement; a
   change that nobody else is about to announce settles what came before it. *)
Handle(r) ==
  /\ pc[r] \notin EventTypes
  /\ RequestStep(r)
  /\ raced' = {k \in Keys : IF files'[k] = files[k] THEN k \in raced
                            ELSE Unannounced(k) \ {r} # {} \/ (k \in raced /\ Queued(k))}
  /\ deaf' = IF pc[r] = "visit" THEN deaf \cup {k \in Keys : files'[k] # files[k]} ELSE deaf
  /\ UNCHANGED <<watchVars, clientVars>>

(* notifyWatchers.  An informer without a watch in the set is told nothing. *)
Announce(r) ==
  \/ /\ UNCHANGED <<vars, clientVars, raced>>
     /\ W!RLock(r)
     /\ deaf' = IF pc[r] = Deleted /\ session \notin nodes THEN deaf \cup {arg[r].key} ELSE deaf
  \/ /\ UNCHANGED <<vars, clientVars, lapses>>
     /\ W!Send(r)
  \/ /\ Notify(r)
     /\ UNCHANGED <<clientVars, lapses>>
     /\ W!RUnlock(r)

(* The handler of a watch that the informer asked for, and its goroutine. *)
ServeWatch(w) ==
  /\ watch[w] = "idle" => session = w
  /\ UNCHANGED <<vars, clientVars, lapses>>
  /\ W!Handler(w)

RelayStep(w) ==
  /\ UNCHANGED <<vars, clientVars, lapses>>
  /\ W!Drop(w) \/ W!CloseOut(w)

-----------------------------------------------------------------------------
(* The informer. *)

(* A faulty variant: the server takes the request for a watch that also lists, and
   never says that its list is complete. *)
ServeWatchList ==
  /\ reflector = "watchList"
  /\ reflector' = "waitForBookmark"
  /\ UNCHANGED <<vars, watchVars, session, cache, lapses>>

(* The server has the feature WatchList off and refuses such a watch, on which the
   informer falls back to List. *)
RefuseWatchList ==
  /\ reflector = "watchList"
  /\ reflector' = "list"
  /\ UNCHANGED <<vars, watchVars, session, cache, lapses>>

List ==
  /\ reflector = "list"
  /\ cache' = files
  /\ reflector' = "watch"
  /\ raced' = {k \in raced : Unannounced(k) # {}}
  /\ deaf' = {}
  /\ UNCHANGED <<vars, watchVars, session>>

Watch ==
  /\ reflector = "watch"
  /\ \E w \in Watches : watch[w] = "idle" /\ session' = w
  /\ reflector' = "streaming"
  /\ UNCHANGED <<vars, watchVars, cache, lapses>>

Receive ==
  /\ reflector = "streaming"
  /\ \E e \in queue[session] :
       /\ UNCHANGED <<vars, reflector, session, lapses>>
       /\ W!Take(session, e)
       /\ cache' = [cache EXCEPT ![e.key] = IF e.type = Deleted THEN ErrNotExist ELSE e.obj]

(* Removals that a watch has been told of, or is being told of, and that have not
   reached the informer. *)
InFlight(w) ==
  {e.key : e \in {d \in queue[w] : d.type = Deleted}}
  \cup {arg[r].key : r \in {q \in readers : pc[q] = Deleted /\ w \in sends[q]}}

(* The watch ends, by a timeout or because the connection broke.  The informer opens
   another one, or lists again; the number of watches bounds how often. *)
End ==
  /\ reflector = "streaming"
  /\ \E w \in Watches : watch[w] = "idle"
  /\ UNCHANGED <<vars, cache, raced>>
  /\ W!Stop(session)
  /\ session' = Nil
  /\ reflector' \in {"watch", "list"}
  /\ deaf' = deaf \cup InFlight(session)

Follow == RefuseWatchList \/ List \/ Watch \/ Receive

(* What has begun goes on.  A request need not be made, and a watch need not end. *)
Progress ==
  \/ \E r \in Requests : (pc[r] # "idle" /\ Handle(r)) \/ Announce(r)
  \/ \E w \in Watches : ServeWatch(w) \/ RelayStep(w)
  \/ Follow

(* Everything that was asked for is done: the informer waits for more. *)
Rest ==
  /\ \A r \in Requests : pc[r] \in Replies
  /\ reflector = "streaming" /\ watch[session] = "serving" /\ relay[session] = "recv"
  /\ \A w \in Watches : watch[w] \in {"idle", "serving", "stopped"} /\ relay[w] # "send"
  /\ UNCHANGED systemVars

SystemNext ==
  \/ \E r \in Requests : Handle(r) \/ Announce(r)
  \/ \E w \in Watches : ServeWatch(w) \/ RelayStep(w)
  \/ Follow \/ End
  \/ Rest

SystemSpec == SystemInit /\ [][SystemNext]_systemVars

-----------------------------------------------------------------------------
(* Nothing is on its way to the informer. *)
Quiet ==
  /\ \A k \in Keys : Unannounced(k) = {}
  /\ reflector = "streaming" /\ watch[session] = "serving" /\ relay[session] = "recv"

(* Every variable has its type, and the informer has a watch open exactly while it
   streams: with the server's WatchList off it never waits for a bookmark. *)
SystemTypeOK ==
  /\ TypeOK
  /\ W!TypeOK
  /\ reflector \in {"watchList", "list", "watch", "streaming"}
  /\ session \in Watches \cup {Nil}
  /\ reflector = "streaming" <=> session # Nil
  /\ cache \in [Keys -> File]
  /\ raced \subseteq Keys /\ deaf \subseteq Keys

(* When nothing is on its way, the informer's copy of an object is the one in the
   store, through any number of watches that end: Watch registers and lists under
   one lock and every handler announces what it wrote.  The copy may be wrong only
   for two reasons.  Changes of the object overlapped, and since handlers announce
   after they have let go of the file system the announcements may have come in
   another order; or the object is gone and the informer was not told, since its
   watch was not in the set then, or DeleteCollection removed it without an event,
   and the next watch says nothing of objects that are gone. *)
CacheFollowsStore ==
  Quiet => \A k \in Keys :
    cache[k] = files[k] \/ k \in raced \/ (k \in deaf /\ ~Exists(k))

(* What the informer has of an object is never replaced by an older version of it,
   neither by the initial events of a new watch nor by a late announcement, unless
   changes of the object overlapped. *)
CacheNeverGoesBack ==
  [][\A k \in Keys \ raced :
       cache[k] # ErrNotExist /\ cache'[k] # ErrNotExist
         => cache'[k].version >= cache[k].version]_systemVars

(* The informer comes to follow the store, whatever requests and ended watches were
   before: as long as nothing more is asked of the server, either something that has
   begun can go on, or the informer follows a watch, every request has announced its
   change and the informer has received it.  Nobody waits for ever on the lock of the
   WatchSet or on a channel of a watch that was stopped.  All that has begun takes
   finitely many steps, so that the second case is reached. *)
InformerSettles == Quiet \/ ENABLED Progress
=============================================================================
