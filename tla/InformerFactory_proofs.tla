----------------------- MODULE InformerFactory_proofs -----------------------
(***************************************************************************)
(* What the informer factory promises, for any number of callers, types,   *)
(* channels and calls.                                                     *)
(***************************************************************************)
EXTENDS InformerFactory, FiniteSetTheorems, TLAPS

Goroutine == [informer : Nat, channel : Channels, runs : BOOLEAN]

Shapes ==
  /\ informers \in [Types -> Nat] /\ made \in Nat
  /\ goroutines \in SUBSET Goroutine
  /\ waiting \in [Callers -> SUBSET Nat]
  /\ res \in [Callers -> SUBSET Nat]
  /\ asked \in [Callers -> SUBSET Nat]
  /\ ch \in [Callers -> Channels \cup {Nil}]
  /\ given \in [Types -> SUBSET Nat]

(* Informers are numbered in the order they are made, and belong to one type. *)
Numbered ==
  \A t \in Types :
    /\ informers[t] <= made
    /\ \A u \in Types : informers[t] = informers[u] /\ informers[t] # 0 => t = u
    /\ given[t] = IF informers[t] = 0 THEN {} ELSE {informers[t]}

(* There is one goroutine for each informer that was started. *)
RunOnce ==
  /\ \A g \in goroutines : \E t \in startedInformers : informers[t] = g.informer
  /\ \A g, h \in goroutines : g.informer = h.informer => g = h

(* Nothing runs, nor will, once a call of Shutdown has returned. *)
Quiesced ==
  /\ down => shuttingDown /\ Running = {}
  /\ \A c \in Callers : pc[c] = "Shutdown" => shuttingDown

(* The locals of WaitForCacheSync are empty outside of it. *)
Returned == \A c \in Callers : pc[c] # "WaitForCacheSync" => asked[c] = {}

FactoryInv == Shapes /\ TypeOK /\ Numbered /\ RunOnce /\ Quiesced /\ Returned

-----------------------------------------------------------------------------
(* It holds of a new factory. *)
LEMMA FactoryInit == Init => FactoryInv
<1> SUFFICES ASSUME Init PROVE FactoryInv
  BY Zenon
<1> USE FactoryAssumption DEF Init
<1>1. Shapes /\ Numbered /\ RunOnce /\ Quiesced /\ Returned
  BY DEF Shapes, Numbered, RunOnce, Quiesced, Returned, Running
<1>2. TypeOK
  <2>1. StartedInformers = {g.informer : g \in goroutines}
    BY Zenon DEF StartedInformers
  <2>2. shuttingDown \in BOOLEAN /\ down \in BOOLEAN
    BY Zenon
  <2>3. informers \in [Types -> 0..made] /\ pc \in [Callers -> {"idle", "Shutdown", "WaitForCacheSync"}]
    OBVIOUS
  <2>4. QED
    BY Zenon, <2>1, <2>2, <2>3 DEF TypeOK
<1>3. QED
  BY Zenon, <1>1, <1>2 DEF FactoryInv

(* InformerFor, of a type that has an informer or has none. *)
LEMMA InformerForKeeps ==
  ASSUME FactoryInv, NEW c \in Callers, NEW t \in Types, InformerFor(c, t)
  PROVE  FactoryInv'
<1> USE FactoryAssumption DEF FactoryInv, InformerFor, Call, MakeInformer, Shapes, outside, callers
<1>1. Shapes'
  OBVIOUS
<1>2. \A u \in Types : informers[u] # 0 => informers'[u] = informers[u]
  BY Zenon
<1>3. StartedInformers' = StartedInformers
  BY <1>2 DEF StartedInformers, TypeOK, Known
<1>4. TypeOK'
  BY <1>3 DEF TypeOK, Known
<1>5. Numbered'
  <2>1. CASE informers[t] = 0 /\ MakeInformer(t)
    <3>1. /\ \A u \in Types : informers'[u] = IF u = t THEN made + 1 ELSE informers[u]
          /\ \A u \in Types : given'[u] = IF u = t THEN {made + 1} ELSE given[u]
      BY <2>1, Zenon DEF Numbered
    <3>2. made' = made + 1 /\ \A u \in Types : informers[u] \in Nat /\ informers[u] <= made
      BY Zenon, <2>1 DEF Numbered
    <3>3. \A u \in Types : informers'[u] <= made'
      BY <3>1, <3>2
    <3>4. \A u, v \in Types : informers'[u] = informers'[v] /\ informers'[u] # 0 => u = v
      BY <3>1, <3>2 DEF Numbered
    <3>5. \A u \in Types : given'[u] = IF informers'[u] = 0 THEN {} ELSE {informers'[u]}
      <4>1. given'[t] = {informers'[t]} /\ informers'[t] # 0
        BY <3>1
      <4>2. ASSUME NEW u \in Types, u # t
            PROVE  given'[u] = IF informers'[u] = 0 THEN {} ELSE {informers'[u]}
        <5>1. given'[u] = given[u] /\ informers'[u] = informers[u]
          BY Zenon, <3>1, <4>2
        <5>2. QED
          BY <5>1, Zenon DEF Numbered
      <4>3. QED
        BY <4>1, <4>2, Zenon
    <3>6. QED
      BY Zenon, <3>3, <3>4, <3>5 DEF Numbered
  <2>2. CASE informers[t] # 0
    <3>1. given' = given /\ UNCHANGED <<informers, made>>
      BY <2>2, ZenonT(30) DEF Numbered
    <3>2. QED
      BY Zenon, <3>1 DEF Numbered
  <2>3. QED
    BY Zenon, <2>1, <2>2
<1>6. RunOnce'
  BY <1>2 DEF RunOnce, TypeOK, Known
<1>7. Quiesced' /\ Returned'
  BY Zenon DEF Quiesced, Returned, Running
<1>8. QED
  BY Zenon, <1>1, <1>4, <1>5, <1>6, <1>7

(* Steps that make no informer and start or end no goroutine. *)
LEMMA OthersKeep ==
  ASSUME FactoryInv,
         UNCHANGED <<informers, made, startedInformers, given, goroutines>>,
         \/ \E c \in Callers : Shutdown(c) \/ WaitLoop(c)
         \/ \E c \in Callers, channel \in Channels : WaitForCacheSync(c, channel)
         \/ \E channel \in Channels : Close(channel)
         \/ \E g \in goroutines : Sync(g)
         \/ UNCHANGED <<factory, outside, callers, down>>
  PROVE  FactoryInv'
<1> USE FactoryAssumption DEF FactoryInv, Shapes, factory, outside, callers
<1>1. Numbered' /\ RunOnce'
  BY Zenon DEF Numbered, RunOnce
<1>2. StartedInformers' = StartedInformers /\ Known' = Known /\ Running' = Running
  BY Zenon DEF StartedInformers, Known, Running
<1>3. ASSUME NEW c \in Callers, Shutdown(c)
      PROVE  Shapes' /\ TypeOK' /\ Quiesced' /\ Returned'
  <2>1. /\ shuttingDown' \in BOOLEAN /\ down' \in BOOLEAN
        /\ pc' \in [Callers -> {"idle", "Shutdown", "WaitForCacheSync"}]
    BY <1>3, Zenon DEF Shutdown, Call, TypeOK
  <2>2. UNCHANGED <<synced, closed, ch, waiting, res, asked>>
    BY Zenon, <1>3 DEF Shutdown
  <2>3. \A d \in Callers : pc'[d] = "WaitForCacheSync" <=> pc[d] = "WaitForCacheSync"
    BY Zenon, <1>3 DEF Shutdown, Call, TypeOK
  <2>4. TypeOK' /\ Shapes' /\ Returned'
    BY Zenon, <1>2, <2>1, <2>2, <2>3 DEF TypeOK, Returned
  <2>5. Quiesced'
    BY <1>2, <1>3 DEF Shutdown, Call, TypeOK, Quiesced
  <2>6. QED
    BY Zenon, <2>4, <2>5
<1>4. ASSUME NEW c \in Callers, WaitLoop(c)
      PROVE  Shapes' /\ TypeOK' /\ Quiesced' /\ Returned'
  <2>1. UNCHANGED <<shuttingDown, synced, closed, down>>
    BY Zenon, <1>4 DEF WaitLoop
  <2>2. CASE waiting[c] = {} /\ UNCHANGED waiting
    <3>1. /\ pc[c] = "WaitForCacheSync"
          /\ pc' = [pc EXCEPT ![c] = "idle"]
          /\ ch' = [ch EXCEPT ![c] = Nil]
          /\ res' = [res EXCEPT ![c] = {}]
          /\ asked' = [asked EXCEPT ![c] = {}]
      BY Zenon, <1>4, <2>2 DEF WaitLoop
    <3>2. Shapes'
      BY <3>1, <2>2, SMTT(30)
    <3>3. /\ pc' \in [Callers -> {"idle", "Shutdown", "WaitForCacheSync"}]
          /\ \A d \in Callers : pc'[d] = "WaitForCacheSync" <=> ch'[d] \in Channels
      BY Zenon, <3>1 DEF TypeOK
    <3>4. \A d \in Callers : /\ waiting'[d] \cup res'[d] \subseteq asked'[d]
                            /\ asked'[d] \subseteq 1..made
      BY Zenon, <3>1, <2>2 DEF TypeOK
    <3>5. TypeOK'
      BY Zenon, <1>2, <2>1, <3>3, <3>4 DEF TypeOK
    <3>6. Quiesced' /\ Returned'
      BY Zenon, <1>2, <2>1, <3>1 DEF TypeOK, Quiesced, Returned
    <3>7. QED
      BY Zenon, <3>2, <3>5, <3>6
  <2>3. ASSUME NEW i \in waiting[c], Poll(c, i),
               waiting' = [waiting EXCEPT ![c] = @ \ {i}], UNCHANGED <<pc, ch, asked>>
        PROVE  Shapes' /\ TypeOK' /\ Quiesced' /\ Returned'
    <3>1. i \in Nat /\ i \in asked[c]
      BY Zenon, <2>3 DEF TypeOK
    <3>2. res' = [res EXCEPT ![c] = @ \cup {i}] \/ res' = res
      BY Zenon, <2>3 DEF Poll
    <3>3. Shapes'
      BY <2>3, <3>1, <3>2, SMTT(30)
    <3>4. \A d \in Callers : waiting'[d] \cup res'[d] \subseteq asked'[d]
      BY <2>3, <3>1, <3>2, SMTT(30) DEF TypeOK
    <3>5. TypeOK'
      BY Zenon, <1>2, <2>1, <2>3, <3>4 DEF TypeOK
    <3>6. Quiesced' /\ Returned'
      BY Zenon, <1>2, <2>1, <2>3 DEF Quiesced, Returned
    <3>7. QED
      BY Zenon, <3>3, <3>5, <3>6
  <2>4. QED
    BY Zenon, <1>4, <2>2, <2>3 DEF WaitLoop
<1>5. ASSUME NEW c \in Callers, NEW channel \in Channels, WaitForCacheSync(c, channel)
      PROVE  Shapes' /\ TypeOK' /\ Quiesced' /\ Returned'
  <2>1. asked'[c] = StartedInformers /\ StartedInformers \subseteq 1..made
    <3>1. StartedInformers = {g.informer : g \in goroutines}
      BY SMTT(30) DEF TypeOK
    <3>2. asked' = [asked EXCEPT ![c] = StartedInformers]
      BY <1>5, <3>1, SMTT(30) DEF WaitForCacheSync
    <3>3. {g.informer : g \in goroutines} \subseteq 1..made
      BY DEF TypeOK
    <3>4. QED
      BY Zenon, <3>1, <3>2, <3>3
  <2>2. Shapes'
    <3>1. StartedInformers \in SUBSET Nat
      BY <2>1, SMTT(30)
    <3>2. /\ waiting' = [waiting EXCEPT ![c] = StartedInformers]
          /\ asked' = [asked EXCEPT ![c] = StartedInformers]
          /\ ch' = [ch EXCEPT ![c] = channel] /\ res' = res
      BY <1>5, SMTT(30) DEF WaitForCacheSync, TypeOK
    <3>3. QED
      BY Zenon, <3>1, <3>2
  <2>3. TypeOK'
    BY <1>2, <1>5, <2>1, SMTT(30) DEF WaitForCacheSync, Call, TypeOK, Returned
  <2>4. Quiesced' /\ Returned'
    BY <1>2, <1>5, SMTT(30) DEF WaitForCacheSync, Call, TypeOK, Quiesced, Returned
  <2>5. QED
    BY <2>2, <2>3, <2>4, SMTT(30)
<1>6. ASSUME NEW channel \in Channels, Close(channel)
      PROVE  Shapes' /\ TypeOK' /\ Quiesced' /\ Returned'
  <2>1. closed' \subseteq Channels
    BY Zenon, <1>6 DEF Close, TypeOK
  <2>2. UNCHANGED <<synced, pc, ch, waiting, res, asked, shuttingDown, down>>
    BY <1>6, SMTT(30) DEF Close
  <2>3. QED
    BY <1>2, <2>1, <2>2, SMTT(30) DEF TypeOK, Quiesced, Returned
<1>7. ASSUME NEW g \in goroutines, Sync(g)
      PROVE  Shapes' /\ TypeOK' /\ Quiesced' /\ Returned'
  <2>1. synced' \subseteq 1..made
    BY Zenon, <1>7 DEF Sync, TypeOK
  <2>2. UNCHANGED <<closed, pc, ch, waiting, res, asked, shuttingDown, down>>
    BY <1>7, SMTT(30) DEF Sync
  <2>3. QED
    BY <1>2, <2>1, <2>2, SMTT(30) DEF TypeOK, Quiesced, Returned
<1>8. CASE UNCHANGED <<factory, outside, callers, down>>
  BY <1>2, <1>8, SMTT(30) DEF TypeOK, Numbered, RunOnce, Quiesced, Returned
<1>9. QED
  BY Zenon, <1>1, <1>3, <1>4, <1>5, <1>6, <1>7, <1>8

(* Start: a goroutine for each informer that has none. *)
LEMMA StartKeeps ==
  ASSUME FactoryInv, NEW c \in Callers, NEW channel \in Channels, Start(c, channel)
  PROVE  FactoryInv'
<1> USE FactoryAssumption DEF FactoryInv, Start, Call, Shapes, callers
<1>1. CASE shuttingDown
  BY Zenon, <1>1, OthersKeep DEF factory, outside
<1>2. CASE ~shuttingDown
  <2> DEFINE run(t) == [informer |-> informers[t], channel |-> channel, runs |-> TRUE]
             fresh  == Known \ startedInformers
  <2>1. /\ goroutines' = goroutines \cup {run(t) : t \in fresh}
        /\ startedInformers' = startedInformers \cup Known
    BY Zenon, <1>2 DEF Spawn
  <2>2. \A t \in fresh : /\ run(t) \in Goroutine /\ run(t).informer = informers[t]
                         /\ t \in Types /\ informers[t] # 0
    BY Zenon DEF Known, Goroutine
  <2>3. Shapes'
    BY <2>1, <2>2, SMTT(30)
  <2>4. Known' = Known /\ startedInformers' = startedInformers \cup fresh
    BY <2>1, SMTT(30) DEF Known, TypeOK
  <2> HIDE DEF run
  <2>5. StartedInformers' = {g.informer : g \in goroutines'}
    <3>1. StartedInformers' = StartedInformers \cup {informers[t] : t \in fresh}
      BY Zenon, <2>4 DEF StartedInformers
    <3>2. {g.informer : g \in goroutines'} = {g.informer : g \in goroutines} \cup {informers[t] : t \in fresh}
      BY <2>1, <2>2
    <3>3. QED
      BY <3>1, <3>2, Zenon DEF TypeOK
  <2>6. \A g \in goroutines' : g.informer \in 1..made
    BY <2>1, <2>2 DEF TypeOK, Numbered
  <2>7. TypeOK'
    BY Zenon, <2>3, <2>4, <2>5, <2>6 DEF TypeOK, Goroutine
  <2>8. Numbered' /\ Returned'
    BY Zenon DEF Numbered, Returned
  <2>9. RunOnce'
    <3>1. \A g \in goroutines' : \E t \in startedInformers' : informers[t] = g.informer
      BY <2>1, <2>2, <2>4, SMTT(30) DEF RunOnce
    <3>2. \A g \in goroutines, t \in fresh : g.informer # informers[t]
      BY <2>2 DEF RunOnce, Numbered, TypeOK, Known
    <3>3. \A t, u \in fresh : informers[t] = informers[u] => t = u
      BY Zenon, <2>2 DEF Numbered
    <3>4. QED
      BY <2>1, <2>2, <3>1, <3>2, <3>3 DEF RunOnce
  <2>10. Quiesced'
    BY Zenon, <1>2 DEF Quiesced
  <2>11. QED
    BY Zenon, <2>3, <2>7, <2>8, <2>9, <2>10
<1>3. QED
  BY Zenon, <1>1, <1>2

(* Run returns: its goroutine ends. *)
LEMMA RunReturnsKeeps ==
  ASSUME FactoryInv, NEW g \in goroutines, RunReturns(g)
  PROVE  FactoryInv'
<1> USE FactoryAssumption DEF FactoryInv, RunReturns, Shapes, Running, factory, callers
<1>1. PICK ended \in Goroutine :
        /\ ended.informer = g.informer /\ ended.channel = g.channel /\ ended.runs = FALSE
        /\ goroutines' = (goroutines \ {g}) \cup {ended}
  BY Zenon DEF Goroutine
<1>2. Shapes'
  BY Zenon, <1>1
<1>3. {h.informer : h \in goroutines'} = {h.informer : h \in goroutines}
  BY Zenon, <1>1
<1>4. \A h \in goroutines' : h.informer \in 1..made
  BY Zenon, <1>1 DEF TypeOK
<1>5. Known' = Known /\ StartedInformers' = StartedInformers
  BY Zenon DEF Known, StartedInformers
<1>6. TypeOK'
  BY <1>2, <1>3, <1>4, <1>5, Zenon DEF TypeOK, Goroutine
<1>7. Numbered' /\ Returned'
  BY Zenon DEF Numbered, Returned
<1>8. RunOnce'
  <2>1. \A h \in goroutines' : \E t \in startedInformers : informers[t] = h.informer
    BY Zenon, <1>1 DEF RunOnce
  <2>2. \A h, i \in goroutines' : h.informer = i.informer => h = i
    BY <1>1 DEF RunOnce
  <2>3. QED
    BY Zenon, <2>1, <2>2 DEF RunOnce
<1>9. Quiesced'
  BY Zenon, <1>1 DEF Quiesced
<1>10. QED
  BY Zenon, <1>2, <1>6, <1>7, <1>8, <1>9

(* Every step keeps the invariant. *)
LEMMA FactoryNext == FactoryInv /\ [Next]_vars => FactoryInv'
<1> SUFFICES ASSUME FactoryInv, [Next]_vars
             PROVE  FactoryInv'
  BY Zenon
<1>1. ASSUME NEW c \in Callers, NEW t \in Types, InformerFor(c, t) \/ ForResource(c, t)
      PROVE  FactoryInv'
  BY Zenon, <1>1, InformerForKeeps, OthersKeep DEF ForResource, factory, outside
<1>2. ASSUME NEW c \in Callers, NEW channel \in Channels, Start(c, channel)
      PROVE  FactoryInv'
  BY <1>2, StartKeeps, SMTT(30)
<1>3. ASSUME NEW c \in Callers, Shutdown(c) \/ WaitLoop(c)
      PROVE  FactoryInv'
  BY <1>3, OthersKeep, Zenon DEF Shutdown, WaitLoop, factory, outside
<1>4. ASSUME NEW c \in Callers, NEW channel \in Channels, WaitForCacheSync(c, channel)
      PROVE  FactoryInv'
  BY <1>4, OthersKeep, Zenon DEF WaitForCacheSync, factory, outside
<1>5. ASSUME NEW g \in goroutines, Sync(g) \/ RunReturns(g)
      PROVE  FactoryInv'
  BY Zenon, <1>5, OthersKeep, RunReturnsKeeps DEF Sync, factory
<1>6. ASSUME NEW channel \in Channels, Close(channel)
      PROVE  FactoryInv'
  BY Zenon, <1>6, OthersKeep DEF Close, factory
<1>7. CASE UNCHANGED vars
  BY Zenon, <1>7, OthersKeep DEF vars, factory, outside
<1>8. QED
  BY Zenon, <1>1, <1>2, <1>3, <1>4, <1>5, <1>6, <1>7 DEF Next

(* Hence it holds at any time. *)
LEMMA FactoryCorrect == Spec => []FactoryInv
BY FactoryInit, FactoryNext, PTL DEF Spec

-----------------------------------------------------------------------------
(* Every variable of the factory has its type, and what it has marked as started is
   what Start has started. *)
THEOREM FactoryTypes == Spec => []TypeOK
BY FactoryCorrect, PTL DEF FactoryInv

(* All callers of InformerFor get the same informer for a type, and Start runs it once,
   whatever channels it is called with. *)
THEOREM OneInformer == Spec => []OneInformerPerType
<1>1. FactoryInv => OneInformerPerType
  <2> SUFFICES ASSUME FactoryInv PROVE OneInformerPerType
    BY Zenon
  <2>1. ASSUME NEW t \in Types PROVE Cardinality(given[t]) <= 1
    <3>1. given[t] = {} \/ \E i \in Nat : given[t] = {i}
      BY Zenon DEF FactoryInv, Numbered, Shapes
    <3>2. CASE given[t] = {}
      BY <3>2, FS_EmptySet
    <3>3. CASE \E i \in Nat : given[t] = {i}
      BY <3>3, FS_Singleton
    <3>4. QED
      BY Zenon, <3>1, <3>2, <3>3
  <2>2. QED
    BY Zenon, <2>1 DEF OneInformerPerType, FactoryInv, RunOnce
<1>2. QED
  BY <1>1, FactoryCorrect, PTL

(* Once a call of Shutdown has returned no informer runs: the flag is set before it
   waits, and Start looks at the flag under the same lock. *)
THEOREM ShutdownFinal == Spec => []ShutdownIsFinal
<1>1. FactoryInv => ShutdownIsFinal
  BY Zenon DEF FactoryInv, Quiesced, ShutdownIsFinal
<1>2. QED
  BY <1>1, FactoryCorrect, PTL

-----------------------------------------------------------------------------
(* What a WaitForCacheSync reports as synced is; what it neither reports nor has yet to
   wait for, it gave up on because its channel was closed. *)
Waited ==
  \A c \in Callers :
    /\ res[c] \subseteq synced
    /\ \A i \in asked[c] : i \in waiting[c] \cup res[c] \/ ch[c] \in closed

(* Nothing that has synced or is closed ceases to be. *)
LEMMA OnlyMore ==
  ASSUME [Next]_vars
  PROVE  synced \subseteq synced' /\ closed \subseteq closed'
<1>1. ASSUME NEW c \in Callers, NEW t \in Types, InformerFor(c, t) \/ ForResource(c, t)
      PROVE  UNCHANGED <<synced, closed>>
  BY Zenon, <1>1 DEF InformerFor, ForResource, outside
<1>2. ASSUME NEW c \in Callers, NEW channel \in Channels, Start(c, channel) \/ WaitForCacheSync(c, channel)
      PROVE  UNCHANGED <<synced, closed>>
  BY Zenon, <1>2 DEF Start, WaitForCacheSync, outside
<1>3. ASSUME NEW c \in Callers, Shutdown(c) \/ WaitLoop(c)
      PROVE  UNCHANGED <<synced, closed>>
  BY Zenon, <1>3 DEF Shutdown, WaitLoop, outside
<1>4. ASSUME NEW g \in goroutines, Sync(g) \/ RunReturns(g)
      PROVE  synced \subseteq synced' /\ closed' = closed
  BY Zenon, <1>4 DEF Sync, RunReturns
<1>5. ASSUME NEW channel \in Channels, Close(channel)
      PROVE  synced' = synced /\ closed \subseteq closed'
  BY Zenon, <1>5 DEF Close
<1>6. CASE UNCHANGED vars
  BY Zenon, <1>6 DEF vars, outside
<1> QED
  BY Zenon, <1>1, <1>2, <1>3, <1>4, <1>5, <1>6 DEF Next

(* The locals of WaitForCacheSync are touched by it alone. *)
LEMMA OthersLeaveLocals ==
  ASSUME [Next]_vars
  PROVE  \/ UNCHANGED <<ch, waiting, res, asked>>
         \/ \E c \in Callers : WaitLoop(c)
         \/ \E c \in Callers, channel \in Channels : WaitForCacheSync(c, channel)
<1>1. ASSUME NEW c \in Callers, NEW t \in Types, InformerFor(c, t) \/ ForResource(c, t)
      PROVE  UNCHANGED callers
  BY Zenon, <1>1 DEF InformerFor, ForResource
<1>2. ASSUME NEW c \in Callers, NEW channel \in Channels, Start(c, channel)
      PROVE  UNCHANGED callers
  BY Zenon, <1>2 DEF Start
<1>3. ASSUME NEW c \in Callers, Shutdown(c)
      PROVE  UNCHANGED <<ch, waiting, res, asked>>
  BY Zenon, <1>3 DEF Shutdown
<1>4. ASSUME NEW g \in goroutines, Sync(g) \/ RunReturns(g)
      PROVE  UNCHANGED callers
  BY Zenon, <1>4 DEF Sync, RunReturns
<1>5. ASSUME NEW channel \in Channels, Close(channel)
      PROVE  UNCHANGED callers
  BY Zenon, <1>5 DEF Close
<1>6. CASE UNCHANGED vars
  BY Zenon, <1>6 DEF vars, callers
<1> QED
  BY Zenon, <1>1, <1>2, <1>3, <1>4, <1>5, <1>6 DEF Next, callers

(* WaitForCacheSync drops an informer from what it waits for only for one of the two
   reasons. *)
LEMMA WaitedNext == FactoryInv /\ Waited /\ [Next]_vars => Waited'
<1> SUFFICES ASSUME FactoryInv, Waited, [Next]_vars, NEW d \in Callers
             PROVE  /\ res'[d] \subseteq synced'
                    /\ \A i \in asked'[d] : i \in waiting'[d] \cup res'[d] \/ ch'[d] \in closed'
  BY Zenon DEF Waited
<1>1. synced \subseteq synced' /\ closed \subseteq closed'
  BY Zenon, OnlyMore
<1>2. /\ res[d] \subseteq synced
      /\ \A i \in asked[d] : i \in waiting[d] \cup res[d] \/ ch[d] \in closed
  BY Zenon DEF Waited
<1>3. CASE UNCHANGED <<ch, waiting, res, asked>>
  BY Zenon, <1>1, <1>2, <1>3
<1>4. ASSUME NEW c \in Callers, NEW channel \in Channels, WaitForCacheSync(c, channel)
      PROVE  /\ res'[d] \subseteq synced'
             /\ \A i \in asked'[d] : i \in waiting'[d] \cup res'[d] \/ ch'[d] \in closed'
  <2>1. /\ ch' = [ch EXCEPT ![c] = channel] /\ res' = res
        /\ waiting' = [waiting EXCEPT ![c] = StartedInformers]
        /\ asked' = [asked EXCEPT ![c] = StartedInformers]
    <3>1. StartedInformers = {g.informer : g \in goroutines}
      BY Zenon DEF FactoryInv, TypeOK
    <3> QED
      BY <1>4, <3>1, Zenon DEF WaitForCacheSync
  <2>2. CASE d = c
    BY Zenon, <1>1, <1>2, <2>1, <2>2 DEF FactoryInv, Shapes
  <2>3. CASE d # c
    <3>1. ch'[d] = ch[d] /\ waiting'[d] = waiting[d] /\ asked'[d] = asked[d] /\ res'[d] = res[d]
      BY Zenon, <2>1, <2>3 DEF FactoryInv, Shapes
    <3> QED
      BY Zenon, <1>1, <1>2, <3>1
  <2> QED
    BY Zenon, <2>2, <2>3
<1>5. ASSUME NEW c \in Callers, WaitLoop(c)
      PROVE  /\ res'[d] \subseteq synced'
             /\ \A i \in asked'[d] : i \in waiting'[d] \cup res'[d] \/ ch'[d] \in closed'
  <2>1. ASSUME NEW i \in waiting[c], Poll(c, i),
               waiting' = [waiting EXCEPT ![c] = @ \ {i}], UNCHANGED <<ch, asked>>
        PROVE  /\ res'[d] \subseteq synced'
               /\ \A j \in asked'[d] : j \in waiting'[d] \cup res'[d] \/ ch'[d] \in closed'
    <3>1. waiting'[d] = IF d = c THEN waiting[d] \ {i} ELSE waiting[d]
      BY Zenon, <2>1 DEF FactoryInv, Shapes
    <3>2. \/ i \in synced /\ res'[d] = IF d = c THEN res[d] \cup {i} ELSE res[d]
          \/ ch[c] \in closed /\ res'[d] = res[d]
      BY Zenon, <2>1 DEF Poll, FactoryInv, Shapes
    <3> QED
      BY <1>1, <1>2, <2>1, <3>1, <3>2
  <2>2. CASE /\ ch' = [ch EXCEPT ![c] = Nil]
             /\ res' = [res EXCEPT ![c] = {}]
             /\ asked' = [asked EXCEPT ![c] = {}]
             /\ UNCHANGED waiting
    <3>1. CASE d = c
      BY Zenon, <2>2, <3>1 DEF FactoryInv, Shapes
    <3>2. CASE d # c
      <4>1. ch'[d] = ch[d] /\ waiting'[d] = waiting[d] /\ asked'[d] = asked[d] /\ res'[d] = res[d]
        BY Zenon, <2>2, <3>2 DEF FactoryInv, Shapes
      <4> QED
        BY Zenon, <1>1, <1>2, <4>1
    <3> QED
      BY Zenon, <3>1, <3>2
  <2> QED
    BY Zenon, <1>5, <2>1, <2>2 DEF WaitLoop
<1> QED
  BY Zenon, <1>3, <1>4, <1>5, OthersLeaveLocals

(* A WaitForCacheSync that returns has waited for every informer that was started when it
   was called: it reports those that have synced, and gives up on others only if its
   channel is closed. *)
THEOREM WaitsRightly == Spec => WaitsForStarted
<1> DEFINE Step == \A c \in Callers : pc[c] = "WaitForCacheSync" /\ pc'[c] = "idle" =>
                     \A i \in asked[c] : IF i \in res[c] THEN i \in synced ELSE ch[c] \in closed
<1>1. Init => Waited
  BY Zenon DEF Init, Waited
<1>2. ASSUME FactoryInv, Waited, [Next]_vars
      PROVE  [Step]_vars
  <2> SUFFICES ASSUME NEW c \in Callers, pc[c] = "WaitForCacheSync", pc'[c] = "idle",
                      NEW i \in asked[c]
               PROVE  IF i \in res[c] THEN i \in synced ELSE ch[c] \in closed
    BY Zenon
  <2>1. waiting[c] = {}
    <3>1. pc' # pc
      BY Zenon
    <3>2. ASSUME NEW d \in Callers, WaitLoop(d)
          PROVE  waiting[c] = {}
      BY Zenon, <1>2, <3>2, <3>1 DEF WaitLoop, FactoryInv, TypeOK
    <3>3. ASSUME NEW d \in Callers, NEW channel \in Channels, WaitForCacheSync(d, channel)
          PROVE  FALSE
      BY Zenon, <1>2, <3>3 DEF WaitForCacheSync, Call, FactoryInv, TypeOK
    <3>4. ASSUME NEW d \in Callers, Shutdown(d)
          PROVE  FALSE
      BY Zenon, <1>2, <3>4 DEF Shutdown, Call, FactoryInv, TypeOK
    <3>5. ASSUME NEW d \in Callers, NEW t \in Types, InformerFor(d, t) \/ ForResource(d, t)
          PROVE  FALSE
      BY Zenon, <3>1, <3>5 DEF InformerFor, ForResource, callers
    <3>6. ASSUME NEW d \in Callers, NEW channel \in Channels, Start(d, channel)
          PROVE  FALSE
      BY Zenon, <3>1, <3>6 DEF Start, callers
    <3>7. ASSUME NEW g \in goroutines, Sync(g) \/ RunReturns(g)
          PROVE  FALSE
      BY Zenon, <3>1, <3>7 DEF Sync, RunReturns, callers
    <3>8. ASSUME NEW channel \in Channels, Close(channel)
          PROVE  FALSE
      BY Zenon, <3>1, <3>8 DEF Close, callers
    <3>9. CASE UNCHANGED vars
      BY Zenon, <3>1, <3>9 DEF vars, callers
    <3> QED
      BY Zenon, <1>2, <3>2, <3>3, <3>4, <3>5, <3>6, <3>7, <3>8, <3>9 DEF Next
  <2> QED
    BY Zenon, <1>2, <2>1 DEF Waited
<1> QED
  BY <1>1, <1>2, FactoryCorrect, WaitedNext, PTL DEF Spec, WaitsForStarted
=============================================================================
