# A TLA+ verification of tilt-apiserver

tilt-apiserver serves Kubernetes-style objects out of memory or out of a
directory.  It keeps the REST layer of `k8s.io/apiserver` and replaces etcd by
its own storage, in `src/pkg/storage/filepath`.  What etcd used to guarantee
(compare-and-swap on the resourceVersion, ordered watches, deletion with
finalizers) is the job of some 1,200 lines of Go, called by as many goroutines
as there are requests.  That code is the core of this project.

## Inventory

| part | code | state | operations |
|---|---|---|---|
| in-memory file system | `fs.go` `MemoryFS` | tree of versioned bytes, `rev`, one mutex | Exists, Read, Write, Remove, EnsureDir, VisitDir |
| file system on disk | `fs.go` `RealFS` | files, `rev`, one mutex | the same |
| REST handlers | `jsonfile_rest.go`, `version.go` | none but the locals of each request | Get, List, Create, Update/guaranteedUpdate, Delete, DeleteCollection, Watch |
| watch fan-out | `watchset.go` | set of nodes, RWMutex, three channels and a goroutine per watch | newWatch, Start, notifyWatchers, Stop |
| update strategies | `builder/rest/strategy.go`, `status.go` | none | PrepareForCreate, PrepareForUpdate, Validate, ValidateUpdate |
| builder | `builder*.go`, `storage_provider.go` | the registry of types and storage | WithResource..., WithSubResource..., ToServerOptions |
| serving options | `options/serving.go` | certificate and key on disk, the listener | Validate, MaybeDefaultWithSelfSignedCerts, ApplyTo |
| start-up, API server | `start/`, `apiserver/` | none after start-up | Complete, Config, Run |
| OpenAPI definitions | `generated/openapi` | none: a table | GetOpenAPIDefinitions |
| informers | `generated/informers` | map of informers, which are started, one mutex, a goroutine per informer | InformerFor, ForResource, Start, Shutdown, WaitForCacheSync |
| types, helpers, controller scaffold, generated clients | `apis/`, `resource/`, `controllers/`, `generated/` | none | none |

How they interact: the builder makes one `filepathREST` per resource and one
per status subresource.  The two share the file system and the WatchSet.  A
request runs in its own goroutine through one `filepathREST`: it calls the file
system a few times, with the mutex released in between, and then calls
`notifyWatchers`.  A watch request registers with the WatchSet, lists the
directory while it holds the WatchSet's lock, and from then on consumes what its
goroutine passes on.  A program that uses the server keeps copies of the objects in
informers, which list and then watch; the generated factory hands them out.

What makes it hard is listed, line by line, in the "hazards" of `PROJECT.json`:
state read in one critical section and used in another (updates, deletes,
collections), check and act in two steps (Create), retries, deletion in two
phases with two resources writing one file, unbuffered channels filled under a
read lock, announcements made after the file system has been let go of, a counter of
revisions that does not survive a restart, certificates in two files that several
servers share, a registry that stays open after the codec has been built, and an
informer factory that is started and shut down from several goroutines.

## Modules

| module | models | kind |
|---|---|---|
| `Objects` | objects and the pure functions that an update runs on them | operators |
| `MemoryFS` | `MemoryFS`: each method is one critical section | state functions, actions |
| `FilepathREST` | the write handlers over MemoryFS, their properties and the inductive invariant | specification |
| `FilepathREST_proofs` | types, what a step does to the store, versions and updates, the lives of objects | proofs |
| `VersionedStore` | what the handlers promise of the store | abstract specification |
| `StoreRefinement`, `StoreRefinement_proofs` | the mapping from the handlers to that store, what removals promise; the proofs of both, and of what announcements, retries and drained updates promise | refinement, proofs |
| `WatchSet`, `WatchSet_proofs` | `WatchSet`, the goroutines of the watches, the watch handler and the writers; its theorems | specification, proofs |
| `Informer`, `Informer_proofs` | `FilepathREST` and `WatchSet` put together, with an informer as their client; its theorems | composition, proofs |
| `InformerFactory`, `InformerFactory_proofs` | the generated `sharedInformerFactory` and the goroutines that use it; its theorems | specification, proofs |
| `RealFS` | `RealFS`, with a Write that truncates and then fills its file | state functions, actions |
| `DiskREST`, `DiskREST_proofs` | the handlers over RealFS, crashes and restarts of the server; its theorems | specification, proofs |
| `Serving`, `Serving_proofs` | the start of a server: validation, listeners, certificates, TLS; its theorems | specification, proofs |
| `OpenAPI` | the generated definitions and how a document is built from them | operators |
| `Builder`, `Builder_proofs` | the registry of the builder, its schemes and codec, the installation of the APIs and the document; its theorems | specification, proofs |
| `MCFilepathREST`, `MCWatchSet`, `MCInformer`, `MCInformerFactory`, `MCDiskREST`, `MCServing`, `MCBuilder` | instances for TLC | model checking |

### Objects and MemoryFS

An object is a record with its UID, its spec (whatever the main resource may
change, labels included), its status, its finalizers, and whether its deletion
timestamp is set.  The resourceVersion stands beside it, as `versionedData` keeps
it beside the serialised bytes.  `Write` compares objects without their version,
because the code serialises a copy without one: an update that changes nothing
is accepted and makes no new version.  The values of timestamps are left out, so
a second Delete of a dying object is such an unchanged write.  In the code it is
one too, unless the clock has been set back; the grace period is then already
zero.

### FilepathREST

Every request has a program counter `pc`, which holds its reply once it is
answered, and the locals `arg`, `out`, `tries` and `todo`.  A step is one critical
section of the file system with the computation around it, so requests
interleave exactly where the code has released the mutex:

| action | code |
|---|---|
| `Create`, `CreateWrite` | Create up to its Exists; its Write |
| `Update`, `UpdateRetry` | an attempt of guaranteedUpdate up to its Write: Get and the closure of Update (`TryUpdate`) |
| `UpdateWrite`, `UpdateRemove` | the Write of an attempt, with retry or giving up; the Remove of a final update |
| `Delete`, `DeleteWrite`, `DeleteRemove` | its Get; the deletion timestamp; the Remove |
| `DeleteCollection`, `Visit`, `VisitDone` | the snapshot of VisitDir; one call of visitFunc; the reply |
| `Notify` | the notifyWatchers that ends a successful write |
| `Refuse` | validation, admission or a cancelled context |

`history`, `removals` and `born` are history variables: the accepted writes with
the version each replaced, the removed files with the object their remover took
them to be, the revision at which a request began.  `events` is the set of events
passed to notifyWatchers, `reported` what DeleteCollection answers.

### VersionedStore and StoreRefinement

`VersionedStore` has an object per key, a clock and the UIDs used so far, and three
steps: Create, Replace, Remove.  Each write takes the next version.  A replacement
keeps the UID, changes the status or the rest but not both, and once deletion has
begun only drops finalizers.  The mapping takes `files` for the store, `rev` for the
clock and the UIDs of `history` for those used.  Every step of a handler is then one
step of the store or none.  The abstract store does not say which copy an update was
computed from; that is `OneUpdatePerVersion`.

`UpdateRemovesDrained` and `ReportedAreGone` are what holds of two removals that
compare no version.  The final update of a two-phase delete removes an object that is
drained, or one that has taken the name since.  What DeleteCollection lists is gone,
though not always by its own hand.

### WatchSet

The RWMutex is modelled with Go's preference for writers: a waiting Lock shuts
out new readers.  A send on an unbuffered channel is one step of both sides.
`Deliver` and `Drop` are the two branches of the goroutine's `select`; it may
take either when both are ready.  A writer stores one object and calls
notifyWatchers, and names the event; what the handlers do before that is in
`FilepathREST`.  A watch has the objects its selectors match (`Selects`) and the
directory its initial List reads (`InDir`).  The code filters later events by the
selectors only.

### Informer

`Informer` extends `FilepathREST` with the variables of the watches and of the informer,
and instantiates `WatchSet` with expressions over them all: where a writer is follows from the request's `pc`, what is
stored is what `files` holds.  `Notify`, one step in `FilepathREST`, is here RLock,
a send per watch and RUnlock.  The informer is client-go's reflector as far as this
server sees it: it asks for a watch that also lists, is refused (`start.go:136-147`
switches that feature off), lists, and watches; when a watch ends it opens another or
lists again.

`CacheFollowsStore` says that when nothing is on its way, the informer's copy is the
store's.  Each exception it makes is needed: without it TLC finds a counterexample.

- `raced`: two changes of one object overlapped.  Handlers announce after they have
  let go of the file system, so a watch can receive the announcements in the other
  order and keep the older object, or one that is gone, until it lists again.
- `deaf`, for objects that are gone: the removal was announced while the informer had
  no watch in the set, or was on its way in a watch that ended; or DeleteCollection
  removed the object, and announces nothing.  A new watch begins with what is stored,
  whatever resourceVersion it asks for, and says nothing of what is not.

### InformerFactory

Each call of the factory holds its mutex once and is one step.  What Shutdown and
WaitForCacheSync do afterwards, without the mutex, are steps of their own.  A
goroutine of Start runs its informer until the channel it was given is closed.
`ShutdownIsFinal`, `WaitsForStarted` and, for Shutdown, `CallsReturn` are sentences of
the comments in `factory.go`.  For WaitForCacheSync `CallsReturn` has an exception that
they do not mention: an informer that was stopped before it synced keeps it waiting if
it was given another channel.

### RealFS and DiskREST

A file on disk holds an object with its version; or it does not exist, is empty
(`Empty`), or has a part of an object in it (`Torn`).  `Truncate`, `Part` and `Fill`
are `ioutil.WriteFile`, all under the mutex, so that `Restart` or an error of the
operating system (`FillFails`) may come in between.  `CallFails` is a Write that fails
before it has touched the file, or a Remove that fails.  An error is the request's
answer and the server goes on.  `Restart` resets what is in memory and leaves the disk
as it is.  EnsureDir is taken in the step of the
read that follows or precedes it: directories are only ever added.
`DeleteCollection` stops at `"visit"` with the mutex in hand; no step leads on,
since the Remove it calls needs that mutex.  `written`, `writes`, `current`, `cut`
and `overlap` are history variables.

What a cut-off write leaves depends on how far it came (`CutFilesStay`).  A part of an
object stays for good: Create finds that it exists, Update and Delete cannot decode it,
and List of its directory fails.  An empty file is no error: the codec, which is the
legacy codec of the scheme, falls back to YAML, and there nothing is null.  Get
answers with an object that has no name, UID or version.  Create finds that the file
exists, and Update refuses since the object has no version (`Conflict` or `Invalid`);
but it has no finalizers either, so that Delete removes it.  A request that had read the
file before the other's write was cut off is past these checks and may still write or
remove it; hence `InHand` in `Stuck` and `Blank`.

### Serving

Each server is a process that goes from `"down"` to `"serving"` or `"failed"`
through the steps of Config and RunTiltServer.  A pair is a number; a certificate
and a key match if they are the same pair.  Each file is truncated and filled in
two steps, read in one, and none of it is locked.  `Listen`, `ApplyTo` and
`Config` carry every early return with the error it gives (`why`).  TLSConfig reads
the files again, which is what `LoopbackTrusts` is about.  `Expire` lets the pairs
come within a month of their end while no start is under way.

### Builder

The registry is the builder's own maps and lists; a provider is the file system,
WatchSet and strategy that its storage will have.  `ToServerOptions` takes the
schemes and the codec's versions from the registry as it is then, whereas the
options share the map of APIs.  A registration in between is therefore
half known: its group may be refused, or, if the group has other versions, the new
version is passed over without an error.  `ServesWhatItKnows` and
`FailsForAReason` say what is left of the guarantees.  ToServerCommand builds the same
options, and the model builds them once.

`OpenAPI` keeps of each of the 58 schemas the models its fields refer to and the
Dependencies beside it, and the table that names them.  Many schemas have neither and
are a `Leaf`: their fields' types, formats and descriptions are data that no property
here tells apart.  The generated file is a third of the
implementation's lines and more than half of the lines in the map, though a single
property, `DocumentClosed`, depends on it, and that one is about a fixed table.  The map
covers about half of all lines with it, and about a third of the lines outside it.
The document holds what is reached along Dependencies from the models of the routes
(`RouteModels`), so `DocumentClosed` asks whether the two agree wherever
they are followed.  `OneKindPerModel` is the reason, given at `builder.go:57-60`, for
keeping two schemes.

## Runs

| run | what it asks | result |
|---|---|---|
| `handlers` | creates, PUTs, applies, status updates, deletes and DeleteCollections of two keys, with and without a finalizer, 4 requests: is optimistic concurrency kept, are main and status kept apart, is deletion final, is a drained object on its way out, is every stored state announced, does an update give up only when others progressed, what may a final update remove, does anything removed come back, is everything listed gone, is `VersionedStore` implemented? Also the invariant `IInv` | holds |
| `fan_out` | 3 watches (one fails to start), 2 writers, fairness: no send on a closed channel, no object missed; objects arrive, writers and Stop return | holds |
| `informer` | 2 requests, an object that may exist before them, 2 watches of one informer: does its copy follow the store, can it go back, can everybody wait on everybody? | holds |
| `factory` | 2 callers, 6 calls, 2 types, 2 channels, fairness: one informer per type, run once; is Shutdown final, does WaitForCacheSync wait for the right ones, do both return? | holds |
| `disk` | 3 requests of all kinds over RealFS, writes and removes that fail, a restart, fairness: who sees a file that is not complete and what becomes of it, when is an update lost or a version given out twice, is each request answered? | holds |
| `serving` | 2 servers, all ports, listeners and certificate options, 4 starts, a crash: does a server come up with a bad pair, does an undisturbed start lack one, does the loopback client reach and trust its server, who can panic? | holds |
| `registry` | 3 registrations and OpenAPI definitions in any order, unfit types and orphans included: file systems, WatchSets and codec versions of the APIs served; the models of the document; why does a server not come up? | holds |
| `finalizers` | `FinalizersHonoured` | violated: Delete's Remove compares no version |
| `watch_failed` | `FailedWatchReleased` | violated: Start leaves a failed watch registered |
| `disk_collection` | `CollectionAnswered` | violated: Remove waits for VisitDir's mutex |
| `serving_crash` | `GeneratesPair` | violated: a crash between certificate and key is never repaired |
| `registry_versions` | `VersionsShareStorage` | violated: the server never sees the singletonProvider |

The violated ones are statements of a comment, a test, a flag or an interface that
the code does not keep.  "findings" in `PROJECT.json` quotes each.  The last one supposes
that a resource is registered in two versions, which the note at
`builder_resource.go:45` advises against and no code prevents; `StorageSharedRightly`, in
`registry`, says nothing of such pairs.

Seven more such statements stand at the end of their modules and belong to no run.
TLC refutes each in the configuration named, with the statement as the only
`INVARIANT` there:

| statement | says | configuration | what the code does |
|---|---|---|---|
| `UpdateRemovesItsOwnWrite` | "we allow this update to go through and then delete it" (`jsonfile_rest.go:298`) | `MCFilepathREST_finalizers` | the Remove of a final update compares no version: an update accepted between its Write and its Remove is removed with the file, and the older state announced |
| `RemovedObjectsAreListed` | "On success, returns a list of deleted objects" (apiserver's `rest.go:197`) | `MCFilepathREST_finalizers` | DeleteCollection removes by path, so what was created anew after its snapshot is removed and the old object listed |
| `CreateOnUpdate` | "some objects allow create-on-update semantics, so NotFound is not terminal" (`jsonfile_rest.go:503`) | `MCFilepathREST_finalizers` | BeforeUpdate fails on the nil object that stands for the missing one |
| `VersionTellsChange` | a version "can be used by clients to determine when objects have changed" (apimachinery's `types.go:161`) | `MCDiskREST_collection` with `Spec` | RealFS counts from 1 again after a restart; `VersionsPerStart` is what holds |
| `PortIgnoredWithListener` | "BindPort is ignored when Listener is set, will serve https even with 0" (`serving.go:49`) | `MCServing_crash` | with port 0, loopbackClientConfig panics |
| `PortShared` | PermitPortSharing "allows more than one instance to bind on the same address and port" (`serving.go:80`) | `MCServing_crash`, `Servers = {v1, v2}` | the option is never read |
| `LoopbackTrusts` | LoopbackClientConfig "is required for proper functioning of the PostStartHooks" (apiserver's `config.go:122`) | `MCServing_crash`, `Servers = {v1, v2}` | TLSConfig reads the files again, and another start may have replaced them; `UndisturbedLoopbackTrusts` is what holds |

**Bounds.**  Requests are one-shot and symmetric, so 4 of them are a create, a
delete and two racing updates, or a create, two deletes and the update that
drains.  `maxAttempts` is 2 for the code's 100: one retry and giving up both
happen.  Two keys share `rev`, the UID counter and a DeleteCollection.  The updates
are a PUT that changes the spec and adds a finalizer, a PUT of the status, and a forced
apply that drops the finalizer and names no version, so that it is the one that retries.  A writer of `WatchSet` makes
one event; two of them contend for a watch.  `fan_out` switches deadlock checking off, since a watch
that failed to start blocks writers for ever; its liveness properties make an exception
for that case only (`Orphaned`).  Since a writer notifies once and a watch is stopped
once, "there is always a later moment at which none is underway" is that each returns.

In `informer` the store is empty or holds one object, with or without a finalizer, as
an earlier Create would leave it; two requests then overlap on it in every way, and
two watches are one that ends and one that follows.  Every behaviour ends, with all
requests answered and the informer waiting, so that liveness is the invariant
`InformerSettles`: unless the informer is up to date, something that has begun can go
on.  Six calls of `factory` are two informers asked for and started, and a wait and a
shutdown.  It switches deadlock checking off: after the last call, calls may wait for
channels that nobody closes.

In `DiskREST` the server is started at most twice, which is enough for one crash
and the life after it; three requests are a create and two racing updates, or a create
whose write fails and two that meet what it left; any call may fail.  One
file suffices since the mutex is one for all files; a second, empty namespace makes
a walk fail.  `NoLostUpdate` is about the behaviours in which no two requests that
write have overlapped (`overlap`), the assumption that the comment at
`fs.go:69-72` makes: RealFS's Write compares nothing.  `RequestsAnswered` makes an
exception for a DeleteCollection that holds the mutex.  Both disk runs switch
deadlock checking off because such a DeleteCollection really does stop the server.
In `Serving` four starts and one crash let a server meet the remains of a crash, a
pair that another one is writing, and a pair that has expired.  `disturbed` records
a crash or two starts at one time, after which a start may fail for good
(`serving_crash`).  There are 64 ways to listen and 96 to come by a
certificate, for the first two starts; with more starts, or a crash, both servers use
the certificate directory (`ManyStartsInDir`).  Three calls of `Builder` are two
versions and a repetition, or a resource, its subresource and a late registration.

**Fairness** (`WatchSet`, `DiskREST`, `InformerFactory`).  Weak fairness of each goroutine's own steps
is Go's scheduler; a call of Lock or RLock returns in the end because Go's
RWMutex lets neither side starve.  A client need not open a watch or write, so
there is none on those.  While an event is offered, `Deliver \/ Stop` is fair,
because the HTTP handler of a watch reads its channel until the connection ends
and then stops the watch.  A watch that offers nothing may stay open for ever.
In `DiskREST` a request that has begun goes on (`Proceed`), well or with an error: its
goroutine is scheduled, and
Go's mutex hands itself to a waiter that has waited too long.  In `InformerFactory`
a call that has begun and a goroutine go on, and an informer that is not stopped syncs
in the end, which supposes a server that answers its List.  Nobody need close a channel.

## Proofs

For any sets of requests, keys, drafts and changes and any `maxAttempts`; any sets of
watches and writers; any sets of callers, types and channels; any set of servers and of
options; any resources; and any number of calls, starts, restarts and crashes:

| module | theorem | statement |
|---|---|---|
| `FilepathREST_proofs` | `TypeCorrect` | `Spec => [](TypeOK /\ LocalsSet)` |
| | `OneUpdate` | `Spec => []OneUpdatePerVersion` |
| | `VersionsNameStates` | `Spec => []VersionNamesState` |
| | `SubresourcesIsolated` | `Spec => []SubresourceIsolation` |
| | `DeletionsAreFinal` | `Spec => []DeletionIsFinal` |
| | `NoZombies` | `Spec => []NoZombie` |
| | `CreatedSurvive` | `Spec => []CreatedObjectsSurvive` |
| `StoreRefinement_proofs` | `StoreImplemented` | `Spec => ImplementsStore` |
| | `UpdateRemoves` | `Spec => []UpdateRemovesDrained` |
| | `ReportedGone` | `Spec => []ReportedAreGone` |
| | `DrainedRemoved` | `Spec => []DrainedIsBeingRemoved` |
| | `StateAnnounced` | `Spec => []LiveStateAnnounced` |
| | `GivesUpRightly` | `Spec => []GivesUpOnlyUnderContention` |
| | `HandlersCorrect` | `Spec => []IInv` |
| `WatchSet_proofs` | `SendsOnOpenChannels` | `Spec => []NoSendOnClosed` |
| | `NothingMissed` | `Spec => []NoMissedObject` |
| | `FanTypes` | `Spec => []TypeOK`, if `Writers \subseteq Events` |
| `Informer_proofs` | `SystemIsStore` | `SystemSpec => Spec` |
| | `InformerTypes` | `SystemSpec => []SystemTypeOK` |
| | `FollowsStore` | `SystemSpec => []CacheFollowsStore` |
| | `NeverGoesBack` | `SystemSpec => CacheNeverGoesBack` |
| | `SystemSendsOnOpen` | `SystemSpec => []W!NoSendOnClosed` |
| `InformerFactory_proofs` | `FactoryTypes` | `Spec => []TypeOK` |
| | `OneInformer` | `Spec => []OneInformerPerType` |
| | `ShutdownFinal` | `Spec => []ShutdownIsFinal` |
| | `WaitsRightly` | `Spec => WaitsForStarted` |
| `DiskREST_proofs` | `TypeCorrect` | `Spec => []TypeOK` |
| | `CutByFailure` | `Spec => []CutOnlyByFailure` |
| | `VersionsUnique` | `Spec => []VersionsPerStart` |
| | `UpdatesKept` | `Spec => []NoLostUpdate` |
| | `CutStays` | `Spec => CutFilesStay` |
| `Serving_proofs` | `TypeCorrect` | `Spec => []TypeOK` |
| | `DialsListener` | `Spec => []LoopbackDialsListener` |
| | `PanicNeedsListener` | `Spec => []PanicNeedsOwnListener` |
| | `FindsItsPair` | `Spec => []UndisturbedFindsPair` |
| | `LoopbackTrusted` | `Spec => []UndisturbedLoopbackTrusts` |
| | `ComesUpWithGoodPair` | `Spec => ServesGoodPair` |
| `Builder_proofs` | `TypeCorrect` | `Spec => []TypeOK` |
| | `SharedRightly` | `Spec => []StorageSharedRightly` |
| | `ServesKnown` | `Spec => []ServesWhatItKnows` |
| | `OneKind` | `Spec => []OneKindPerModel` |

### The handlers

The theorems assume `RESTAssumption`, and `ErrNotExistAssumption` of `Objects`: that the
absence of a file is no content.  The argument has stages.  `TypeInv` is
types and locals.  `StoreInv` adds what makes the first four properties inductive:
versions grow and are given out once (`HistoryOrdered`), each accepted write
succeeds legally the one whose version it replaced (`HistoryLegal`), a file is the
latest of its key, with no write based on it yet (`FilesCurrent`), a Create holds a
UID nobody else has (`CreateFresh`), a request about to write holds a legal
successor of a version in the history (`WritersBased`), and whatever is announced
or removed is in the history (`CopiesNamed`).  `FilesCurrent` is the heart: a write
is accepted only if the version in hand is the file's, and nothing was based on
that version before, so no version is replaced twice.  Only Write changes the
history; `WriteStore` and `WriteStep` say what it adds.  A step which gives out no version keeps
the invariant (`KeepStep`), and `StoreNext` goes through the actions.

Next, a step writes one file, removes one, or leaves the store alone (`Moves`).  A file
that is written has a new UID or that of the file it replaces, and UIDs of different
keys differ, so nothing removed comes back; and a created object is there until a
removal that is on record.  A second view of steps (`OneSteps`) says what one request's
step means for the others: it reads, writes, removes or visits.  From it follow the
properties of updates.  Whoever drains an object goes on to remove it.  A write that
others may see is announced, or will be.  A failed attempt has met a version newer than
the one it read, so that `rev` has grown by one for each attempt.  Together they are all
of `IInv`, the invariant that the run `handlers` checks.

`StoreRefinement_proofs` uses `StoreInv` again: `FilesCurrent` and `HistoryLegal` make
each accepted write a Create or a Replace of the abstract store.  `UpdateRemoves` rests on
`StaysDrained`: once an update is about to remove its object, nobody can take back the
deletion or add a finalizer, so what is there under this UID is drained; under another UID it is
there because the first was removed.  For `ReportedGone`,
what DeleteCollection has yet to visit was once stored (`TodoNamed`), and what was
stored is there or was removed; a visit removes what it finds, or finds nothing.

### Watches and informers

`WatchSet_proofs` assumes `WatchAssumption`.  Its invariant `FanInv` says who holds the
lock (`Locks`), that a watch is in the set as long as it serves and that updateCh is
closed only after it has left (`Registered`), that a writer sends to watches that are
in the set, and its own event (`Sending`), and that a goroutine which waits for an
event has none left to pass on (`Drained`).  A watch leaves the set only when no
writer is inside the read lock, which keeps `Sending`.  `NoMissedObject` is inductive
together with it: Start queues what is stored, and whoever stores later takes the read
lock after the watch is in the set.

`Informer_proofs` assumes what the handlers' proofs do and `InformerAssumption`, that `Nil`
is no watch.  A step of the system is a step of a request or leaves the handlers'
variables alone, so `SystemIsStore` carries every theorem on `Spec` over to the system,
and with it `TypeInv` and `StoreInv`.  `CacheFollowsStore` by itself is far from
inductive: it speaks only of quiet states.  `InformerInv` says what is on its way in the
others.  `Sessions` ties the queue of each watch to the state of its goroutine and says
that it holds at most one event for a key, and that the session's channels are open.  For
each key that is not in `raced`, `CopiesCurrent` says that whoever has yet to announce a
change holds the state that is stored, or the object is gone and a removal is what it
announces.  `CacheKept` is the heart: a request will still tell the session; or the object
exists and, if the session serves, the cache has the state or the session is about to pass
it on (`Tracks`); or the object is gone and the informer is deaf to it, or tracks it.  An object
that exists needs no promise while no session serves, since Start lists it; one that is
gone does, since nobody lists it, which is why `deaf` must grow at RLock, at End
and with each object that DeleteCollection removes.  `VersionsGrow`
orders cache, queue and file by version, so that neither List nor Receive takes the
informer back.  TLC confirmed `InformerInv` in the configuration of `informer` first.
`Sending` is the part of `WatchSet`'s argument that keeps notifyWatchers from a closed
channel, here with the handlers' requests for writers.

`InformerFactory_proofs` assumes `FactoryAssumption`.  Its invariant `FactoryInv` says
that informers are numbered in the order they were made and every caller was given the
one in the map (`Numbered`), that a goroutine runs an informer of a started type and
no two run the same (`RunOnce`), that `shuttingDown` is set while a Shutdown waits and
no goroutine runs once one has returned (`Quiesced`), and that a caller outside
WaitForCacheSync asks about nothing (`Returned`).  Since Start tests the flag under the
mutex that sets it, no goroutine is added behind a waiting Shutdown.  `WaitsRightly` needs
`Waited` besides: what a call has stopped waiting for has synced, or the channel is closed.

### The disk

`DiskREST_proofs` assumes `ErrNotExistAssumption` and `DiskAssumption`: besides the types of
the constants, that a torn file is neither content nor absence, that an object nothing was
decoded into has no finalizers, and that `Nil`, the owner of a free mutex, is no request.
`CutInv` says that a file is cut off because a request is between `Truncate` and the end of
its Write, or because it is in `cut`, and that a Write which has begun has cut off its file.
`CutByFailure` is part of it: whoever reads takes the mutex, and finds no Write under way.
`CutStays` is about steps.  A request gets a file in hand only by reading it, and each of
them turns down a part of an object; an empty file it turns down too, or goes on to remove
it, since the object of an empty file has no version and no finalizers.  `VersionInv` ties the
versions given out since the last start to `rev`.  For `UpdatesKept`, `DiskInv` says
that a file that is whole (`Whole`) holds the write `current` names, and `ReadInv` that, as long as
no writing requests have overlapped, at most one is under way (`Alone`) and the write that its
client read in this start is still the current one (`FindsRead`): the compare that
RealFS leaves out is not missed then.  The lemma `StepShape` sorts steps by what they do to
the disk: those of a Write or a Remove, failing ones included (`Writes`), `Restart`, or
nothing (`Quiet`).

### Serving

`Serving_proofs` assumes `ServingAssumption`: besides types, that the special contents of
files are no numbered pairs, that a torn file is neither a missing one nor a pair generated
in memory, and that `Nil` is none of the values it stands for the absence of.  `ListenInv` says what a server is bound to at each point
of its start.  `PairInv` says that what a server has loaded, or is about to, is not
near its end (`PairFresh`); here the model's premise that no start takes months is used.  For
undisturbed starts `CalmInv` adds that at most one server is on its way
(`OneAtATime`), that certificate and key in the directory are one pair or both missing
except while that server writes them (`FilesPaired`), and that it therefore finds what
it has checked for (`FindsPair`).  `disturbed` is never reset, so `CalmInv` speaks of all that came before.
`ServesGoodPair` needs no calm: X509KeyPair compares certificate and key at the step that
loads them.

### The builder

`Builder_proofs` assumes `BuilderAssumption`: a Go type belongs to one resource, and has one
list type and one set of methods, the status subresource among them; a list type is not
itself a resource; no resource calls its version "__internal", which the scheme reserves for
internal types.  Without them, registering one resource with and then without a status
would leave the old status behind with its WatchSet, or a type would be known under a kind that
is not its own.  All five registrations are one kind of step (`Registers`): some APIs of one
resource are added or replaced.  `StorageInv` says that every stored API is the resource or
its status, with the WatchSet and the file system of the last registration that stored
the resource; a registration replaces all that was stored of the resource at once, which
is why repeated ones keep it.  Versions of one resource differ in it, and
`SharedRightly` says nothing of them.  `BuiltInv` says that the schemes and the codec were taken from a
consistent registry: a kind in the scheme belongs to a registered type, whose
version the codec has and which the OpenAPI scheme has too.

### Model-checked only

- Liveness: `ObjectsReachWatches`, `NobodyHeldUp`, `RequestsAnswered`, `CallsReturn`.  The
  prover does not do fairness.  Nor ENABLED, of which `InformerSettles` speaks.
- `DocumentClosed` and `FailsForAReason`: both need what `buildDefinitionRecursively`
  computes for any table of definitions, which takes induction over a recursive function.
- The statements that are violated.

## Plan

What would add most next: the informer over `DiskREST`, where a restart takes versions
back; that the watches of `Informer` implement `WatchSet` with writers that write again.

## Not modelled

Generated clients, listers, apply configurations and fakes pass calls on to client-go
and hold no state; deep-copy, conversion and registration files are generated and have
no control.  `builder/rest/rest.go` makes an etcd-backed store that this server never
uses.  Table conversion is presentation, and the controller's Reconcile is an empty
scaffold.  Of the parts that are modelled:
flag parsing, authentication and authorization settings and post-start hooks;
a BindNetwork other than tcp; a program that starts a server again in the same
process after a failure, whose listener is still open then; priorities among the
versions of a group; generic subresources beyond a handler of the caller's own.
In `DiskREST` an object that does not encode is one of the errors of `CallFails`; over
MemoryFS encoding failures do not occur for registered types and are left out.  In
`Serving`, errors of the operating system while the certificate and the key are written
are left out (such a start fails, and leaves on the disk what a crash at that point
leaves); so is `FixtureDirectory` (`serving.go:113-117`, used at line 324), where tests keep
generated pairs.
