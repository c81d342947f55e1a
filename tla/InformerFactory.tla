-------------------------- MODULE InformerFactory --------------------------
(***************************************************************************)
(* sharedInformerFactory of the generated client.  Callers ask it for      *)
(* informers, start them, wait for their caches and shut it down, from     *)
(* goroutines of their own.  Each call holds the factory's lock once, and  *)
(* is one step but for what Shutdown and WaitForCacheSync do after they    *)
(* have let go of it.  An informer runs in a goroutine until the channel   *)
(* that it was started with is closed; what it does there is Informer.     *)
(***************************************************************************)
EXTENDS Naturals, FiniteSets

CONSTANTS
  Callers,    \* goroutines that use the factory
  Types,      \* types of objects
  Manifest,   \* the type that ForResource knows
  Channels,   \* stop channels
  MaxCalls,   \* how many calls there are
  Nil

ASSUME FactoryAssumption ==
  /\ Manifest \in Types
  /\ Nil \notin Channels
  /\ MaxCalls \in Nat

VARIABLES
  informers,         \* the informer of each type, by number; 0 is none
  made,              \* how many informers were made
  startedInformers,  \* types whose informer has been started
  shuttingDown,
  goroutines,        \* what Start has started: informer, channel, whether it runs
  synced,            \* informers whose HasSynced is true
  closed,            \* channels that are closed
  pc,                \* the call that each caller is in
  ch,                \* the stop channel of its WaitForCacheSync
  waiting,           \* the informers that it has yet to wait for
  res,               \* the informers it has found to be synced
  calls,             \* how many calls were made
  given,             \* history variable: the informers handed out for each type
  asked,             \* history variable: the informers started when a call was made
  down               \* history variable: a call of Shutdown has returned

factory == <<informers, made, startedInformers, shuttingDown, given>>
outside == <<goroutines, synced, closed>>
callers == <<pc, ch, waiting, res, asked>>
vars == <<factory, outside, callers, calls, down>>

Init ==
  /\ informers = [t \in Types |-> 0] /\ made = 0
  /\ startedInformers = {} /\ shuttingDown = FALSE
  /\ goroutines = {} /\ synced = {} /\ closed = {}
  /\ pc = [c \in Callers |-> "idle"]
  /\ ch = [c \in Callers |-> Nil]
  /\ waiting = [c \in Callers |-> {}]
  /\ res = [c \in Callers |-> {}]
  /\ asked = [c \in Callers |-> {}]
  /\ calls = 0 /\ given = [t \in Types |-> {}] /\ down = FALSE

Running == {g \in goroutines : g.runs}

(* A caller that is in no call makes one; MaxCalls bounds how many. *)
Call(c) ==
  /\ pc[c] = "idle"
  /\ calls < MaxCalls
  /\ calls' = calls + 1

-----------------------------------------------------------------------------
(* The informer of a type that has none, by newFunc. *)
MakeInformer(t) ==
  /\ made' = made + 1
  /\ informers' = [informers EXCEPT ![t] = made + 1]
  /\ given' = [given EXCEPT ![t] = @ \cup {made + 1}]

(* A faulty variant: the map is not looked at. *)
InformerForAnew(c, t) ==
  /\ Call(c)
  /\ MakeInformer(t)
  /\ UNCHANGED <<startedInformers, shuttingDown, outside, callers, down>>

InformerFor(c, t) ==
  /\ Call(c)
  /\ \/ informers[t] = 0 /\ MakeInformer(t)
     \/ /\ informers[t] # 0
        /\ given' = [given EXCEPT ![t] = @ \cup {informers[t]}]
        /\ UNCHANGED <<informers, made>>
  /\ UNCHANGED <<startedInformers, shuttingDown, outside, callers, down>>

(* ForResource of a resource that it knows is the typed informer's Informer; of
   another it is an error. *)
ForResource(c, t) ==
  \/ t = Manifest /\ InformerFor(c, t)
  \/ t # Manifest /\ Call(c) /\ UNCHANGED <<factory, outside, callers, down>>

Spawn(types, channel) ==
  goroutines' = goroutines \cup
    {[informer |-> informers[t], channel |-> channel, runs |-> TRUE] : t \in types}

Known == {t \in Types : informers[t] # 0}

(* A faulty variant: the flag is not looked at. *)
StartAnyway(c, channel) ==
  /\ Call(c)
  /\ Spawn(Known \ startedInformers, channel)
  /\ startedInformers' = startedInformers \cup Known
  /\ UNCHANGED <<informers, made, shuttingDown, given, synced, closed, callers, down>>

Start(c, channel) ==
  /\ Call(c)
  /\ \/ shuttingDown /\ UNCHANGED <<startedInformers, goroutines>>
     \/ /\ ~shuttingDown
        /\ Spawn(Known \ startedInformers, channel)
        /\ startedInformers' = startedInformers \cup Known
  /\ UNCHANGED <<informers, made, shuttingDown, given, synced, closed, callers, down>>

(* Shutdown sets the flag, and waits for the goroutines without the lock. *)
Shutdown(c) ==
  \/ /\ Call(c)
     /\ shuttingDown' = TRUE
     /\ pc' = [pc EXCEPT ![c] = "Shutdown"]
     /\ UNCHANGED <<informers, made, startedInformers, given, outside, ch, waiting, res, asked,
                    down>>
  \/ /\ pc[c] = "Shutdown"
     /\ Running = {}
     /\ pc' = [pc EXCEPT ![c] = "idle"]
     /\ down' = TRUE
     /\ UNCHANGED <<factory, outside, ch, waiting, res, asked, calls>>

-----------------------------------------------------------------------------
(* WaitForCacheSync: the informers that have been started are collected under the
   lock.  The faulty variant waits for those that have not been, too. *)
AllInformers == {informers[t] : t \in Known}

StartedInformers == {informers[t] : t \in startedInformers}

(* cache.WaitForCacheSync polls HasSynced, and gives up when the channel is closed,
   even if the informer has synced since the last poll.  The faulty variant takes the
   closed channel for an answer. *)
GivesUpAsSynced(c, i) ==
  /\ i \in synced \/ ch[c] \in closed
  /\ res' = [res EXCEPT ![c] = @ \cup {i}]

Poll(c, i) ==
  \/ i \in synced /\ res' = [res EXCEPT ![c] = @ \cup {i}]
  \/ ch[c] \in closed /\ UNCHANGED res

WaitForCacheSync(c, channel) ==
  /\ Call(c)
  /\ pc' = [pc EXCEPT ![c] = "WaitForCacheSync"]
  /\ ch' = [ch EXCEPT ![c] = channel]
  /\ waiting' = [waiting EXCEPT ![c] = StartedInformers]
  /\ asked' = [asked EXCEPT ![c] = {g.informer : g \in goroutines}]
  /\ UNCHANGED <<factory, outside, res, down>>

(* The loop over the informers, in the order of the map, and the return. *)
WaitLoop(c) ==
  /\ pc[c] = "WaitForCacheSync"
  /\ \/ \E i \in waiting[c] :
          /\ Poll(c, i)
          /\ waiting' = [waiting EXCEPT ![c] = @ \ {i}]
          /\ UNCHANGED <<pc, ch, asked>>
     \/ /\ waiting[c] = {}
        /\ pc' = [pc EXCEPT ![c] = "idle"]
        /\ ch' = [ch EXCEPT ![c] = Nil]
        /\ res' = [res EXCEPT ![c] = {}]
        /\ asked' = [asked EXCEPT ![c] = {}]
        /\ UNCHANGED waiting
  /\ UNCHANGED <<factory, outside, calls, down>>

-----------------------------------------------------------------------------
(* The goroutine of an informer: its first list has been taken in, or its channel
   is closed and Run returns.  Channels are closed by whoever made them. *)
Sync(g) ==
  /\ g \in Running
  /\ g.informer \notin synced
  /\ synced' = synced \cup {g.informer}
  /\ UNCHANGED <<factory, goroutines, closed, callers, calls, down>>

RunReturns(g) ==
  /\ g \in Running
  /\ g.channel \in closed
  /\ goroutines' = (goroutines \ {g}) \cup {[g EXCEPT !.runs = FALSE]}
  /\ UNCHANGED <<factory, synced, closed, callers, calls, down>>

Close(channel) ==
  /\ channel \notin closed
  /\ closed' = closed \cup {channel}
  /\ UNCHANGED <<factory, goroutines, synced, callers, calls, down>>

Next ==
  \/ \E c \in Callers :
       \/ \E t \in Types : InformerFor(c, t) \/ ForResource(c, t)
       \/ \E channel \in Channels : Start(c, channel) \/ WaitForCacheSync(c, channel)
       \/ Shutdown(c)
       \/ WaitLoop(c)
  \/ \E g \in goroutines : Sync(g) \/ RunReturns(g)
  \/ \E channel \in Channels : Close(channel)

Spec == Init /\ [][Next]_vars

(* Calls that have begun and goroutines go on; an informer that is not stopped takes
   in its first list.  Nobody need make a call or close a channel. *)
Fairness ==
  /\ \A c \in Callers : WF_vars(pc[c] # "idle" /\ Shutdown(c)) /\ WF_vars(WaitLoop(c))
  /\ WF_vars(\E g \in goroutines : Sync(g))
  /\ WF_vars(\E g \in goroutines : RunReturns(g))

FairSpec == Spec /\ Fairness

-----------------------------------------------------------------------------
(* Every variable has its type; each caller's locals belong to the call it is in, and
   what is marked as started is what runs or ran. *)
TypeOK ==
  /\ informers \in [Types -> 0..made]
  /\ startedInformers \subseteq Known
  /\ StartedInformers = {g.informer : g \in goroutines}
  /\ shuttingDown \in BOOLEAN /\ down \in BOOLEAN
  /\ \A g \in goroutines : g.informer \in 1..made /\ g.channel \in Channels /\ g.runs \in BOOLEAN
  /\ synced \subseteq 1..made /\ closed \subseteq Channels
  /\ pc \in [Callers -> {"idle", "Shutdown", "WaitForCacheSync"}]
  /\ \A c \in Callers : pc[c] = "WaitForCacheSync" <=> ch[c] \in Channels
  /\ \A c \in Callers : waiting[c] \cup res[c] \subseteq asked[c] /\ asked[c] \subseteq 1..made

(* All callers that ask for a type get the same informer, and it is run once: the
   library ignores the second Run of an informer, with the channel that it was given. *)
OneInformerPerType ==
  /\ \A t \in Types : Cardinality(given[t]) <= 1
  /\ \A g, h \in goroutines : g.informer = h.informer => g = h

(* "At that point no new informers can be started anymore" and "All such calls will
   block until all goroutines have terminated": once a call of Shutdown has returned
   no informer runs, whatever Start and Shutdown are called next to it. *)
ShutdownIsFinal == down => Running = {}

(* "WaitForCacheSync blocks until all started informers' caches were synced or the
   stop channel gets closed": when it returns, each informer that had been started
   when it was called has synced, or is reported not to have and the channel is
   closed. *)
WaitsForStarted ==
  [][\A c \in Callers : pc[c] = "WaitForCacheSync" /\ pc'[c] = "idle" =>
       \A i \in asked[c] : IF i \in res[c] THEN i \in synced ELSE ch[c] \in closed]_vars

(* Every call returns, but for two that may wait for channels.  "For that to happen, the
   close channel(s) that they were started with must be closed, either before Shutdown
   gets called or while it is waiting": Shutdown waits only for an informer whose channel
   stays open.  WaitForCacheSync waits only for an informer that was stopped before it
   had synced, by another channel than that of the call, which stays open. *)
CallsReturn ==
  []<>(\A c \in Callers :
         \/ pc[c] = "idle"
         \/ pc[c] = "Shutdown" /\ \E g \in Running : g.channel \notin closed
         \/ /\ pc[c] = "WaitForCacheSync" /\ ch[c] \notin closed
            /\ \E g \in goroutines \ Running :
                 g.informer \in waiting[c] \ synced /\ g.channel # ch[c])
=============================================================================
