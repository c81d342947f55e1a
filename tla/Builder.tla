------------------------------ MODULE Builder ------------------------------
(***************************************************************************)
(* The server builder: resources are registered in any order and with any  *)
(* kind of storage, then the schemes and the codec are built, then the API *)
(* groups are installed.  The server's options hold the builder's own map  *)
(* of APIs, so that a registration after ToServerOptions still reaches the *)
(* server, while the schemes, the codec and the list of functions that     *)
(* prepare its configuration are no longer told of it.                     *)
(***************************************************************************)
EXTENDS OpenAPI, Sequences, Functions

CONSTANTS
  Resources,   \* the resource types that may be registered
  MaxCalls,    \* how many registrations there are
  Definitions, \* what the function given to WithOpenAPIDefinitions returns
  Nil

(* What the builder asks of a resource.Object. *)
Object ==
  [group : STRING, version : STRING, resource : STRING,
   storage : BOOLEAN,      \* IsStorageVersion
   convertible : BOOLEAN,  \* it is a MultiVersionObject
   status : BOOLEAN,       \* it is an ObjectWithStatusSubResource
   generic : SUBSET STRING, \* the GenericSubResources it has
   model : STRING,         \* its Go type
   list : STRING]          \* the Go type of its NewList

(* The resource that the repository itself defines. *)
Manifest ==
  [group |-> "core.tilt.dev", version |-> "v1alpha1", resource |-> "manifests",
   storage |-> TRUE, convertible |-> FALSE, status |-> TRUE, generic |-> {},
   model |-> "v1alpha1.Manifest", list |-> "v1alpha1.ManifestList"]

GroupVersion(o) == <<o.group, o.version>>   \* of an object or of a GVR

GroupResource(gvr) == <<gvr.group, gvr.resource, gvr.sub>>

(* A resource or a subresource of an object or of a GVR. *)
GVR(o, sub) == [group |-> o.group, version |-> o.version, resource |-> o.resource, sub |-> sub]

(* One resource has one Go type, however often it is registered, and a Go type has one
   list type and one set of methods.  A list is no resource, and no resource has the
   name of the internal version for its version. *)
ASSUME BuilderAssumption ==
  /\ Resources \subseteq Object /\ MaxCalls \in Nat
  /\ \A o, p \in Resources : GVR(o, "") = GVR(p, "") <=> o.model = p.model
  /\ \A o, p \in Resources : o.model = p.model => o.list = p.list /\ o.status = p.status
  /\ \A o, p \in Resources : o.list \notin {p.model, p.resource} /\ o.version # "__internal"
  /\ Nil \notin {"memory"} \X Nat

VARIABLES
  orderedGroupVersions,   \* the group versions in the order of registration
  storage,                \* the singletonProvider of each group resource
  apis,                   \* the provider of each resource and subresource
  memoryFS,               \* the MemoryFS of the builder
  made,                   \* how many WatchSets were made; also numbers the file systems
  schemeBuilder,          \* the types that wait for being added to the API scheme
  openapiBuilder,         \* what waits for being added to the OpenAPI scheme
  definitions,            \* whether WithOpenAPIDefinitions was called
  scheme,                 \* the types added: pairs of a group version kind and a type
  openapiScheme,          \* the OpenAPI scheme, likewise
  configured,             \* whether the options prepare an OpenAPI configuration
  codec,                  \* the group versions that the codec encodes to
  prioritized,            \* the group versions that have a priority in the scheme
  phase,                  \* registering, built, serving or failed
  installed,              \* the storage that the server was given for each API
  document,               \* the models of the OpenAPI document it serves
  calls

types == <<schemeBuilder, openapiBuilder>>
registry == <<orderedGroupVersions, storage, apis, memoryFS, made, types, definitions>>
built == <<scheme, openapiScheme, configured, codec, prioritized>>
served == <<installed, document>>
vars == <<registry, built, phase, served, calls>>

NewServerBuilder ==
  /\ orderedGroupVersions = <<>>
  /\ storage = <<>> /\ apis = <<>>
  /\ memoryFS = Nil /\ made = 0
  /\ schemeBuilder = <<>> /\ openapiBuilder = {} /\ definitions = FALSE
  /\ scheme = {} /\ openapiScheme = {} /\ configured = FALSE
  /\ codec = <<>> /\ prioritized = {}

Init ==
  /\ NewServerBuilder
  /\ phase = "registering" /\ installed = <<>> /\ document = {} /\ calls = 0

-----------------------------------------------------------------------------
(* The function m with new values on the domain of n. *)
Put(m, n) == [x \in DOMAIN m \cup DOMAIN n |-> IF x \in DOMAIN n THEN n[x] ELSE m[x]]

(* Faulty variants: a version is listed again, or only if its group is new. *)
withGroupVersionsAgain(gv) == orderedGroupVersions' = Append(orderedGroupVersions, gv)

withGroup(gv) ==
  orderedGroupVersions' = IF \E i \in DOMAIN orderedGroupVersions : orderedGroupVersions[i][1] = gv[1]
                          THEN orderedGroupVersions
                          ELSE Append(orderedGroupVersions, gv)

withGroupVersions(gv) ==
  orderedGroupVersions' = IF gv \in Range(orderedGroupVersions) THEN orderedGroupVersions
                          ELSE Append(orderedGroupVersions, gv)

(* forGroupVersionResource for some APIs of one group version.  The first provider
   of a group resource stays in storage; apis gets the provider as it is. *)
forGroupVersionResource(o, new) ==
  /\ withGroupVersions(GroupVersion(o))
  /\ storage' = Put([gr \in {GroupResource(g) : g \in DOMAIN new} |->
                       new[CHOOSE g \in DOMAIN new : GroupResource(g) = gr]], storage)
  /\ apis' = Put(apis, new)

(* The provider of NewJSONFilepathStorageProvider: the file system and the WatchSet
   of the filepathREST it makes, and the strategy. *)
Provider(fs, ws, strategy) == [fs |-> fs, ws |-> ws, strategy |-> strategy]

Handler == Provider(Nil, Nil, "handler")   \* a provider of the caller's own

(* A faulty variant: the status subresource gets a WatchSet of its own. *)
withOwnWatchSet(o, fs, ws) ==
  IF o.status THEN [g \in {GVR(o, "status")} |-> Provider(fs, -ws, "status")] ELSE <<>>

(* withSubresources: the APIs it adds next to the resource's. *)
withSubresources(o, fs, ws) ==
  Put(IF o.status THEN [g \in {GVR(o, "status")} |-> Provider(fs, ws, "status")] ELSE <<>>,
      [g \in {GVR(o, name) : name \in o.generic} |-> Handler])

(* Scheme.AddKnownTypes of an object and its list: pairs of a group version kind and
   the Go type; and of the object alone. *)
KnownTypes(o, version) ==
  {<<<<o.group, version, o.resource>>, o.model>>, <<<<o.group, version, o.list>>, o.list>>}

KnownType(o) == {<<<<o.group, o.version, o.resource>>, o.model>>}

(* AddToScheme: the types under their own version and, if it is the storage version,
   as the internal version. *)
AddToScheme(o) ==
  KnownTypes(o, o.version) \cup (IF o.storage THEN KnownTypes(o, "__internal") ELSE {})

(* Faulty variants: nothing is registered with the builders, or the OpenAPI scheme
   is built like the API scheme. *)
RegisterNothing(o, known) == UNCHANGED types

RegisterAlike(o, known) ==
  /\ schemeBuilder' = Append(schemeBuilder, o)
  /\ openapiBuilder' = openapiBuilder \cup AddToScheme(o)

(* The API scheme gets the type the way of AddToScheme, the OpenAPI scheme only under
   its own version. *)
Register(o, known) ==
  /\ schemeBuilder' = Append(schemeBuilder, o)
  /\ openapiBuilder' = openapiBuilder \cup known

Call(o) == calls < MaxCalls /\ calls' = calls + 1 /\ phase \in {"registering", "built"}

(* A resource that is stored in fs, with a WatchSet made for it. *)
WithStorage(o, fs, ws) ==
  /\ Register(o, KnownTypes(o, o.version))
  /\ forGroupVersionResource(o, Put([g \in {GVR(o, "")} |-> Provider(fs, ws, "main")],
                                    withSubresources(o, fs, ws)))

WithResourceFileStorage(o) ==
  /\ Call(o)
  /\ WithStorage(o, <<"disk", made + 1>>, made + 1)
  /\ made' = made + 1
  /\ UNCHANGED <<memoryFS, definitions, built, phase, served>>

WithResourceMemoryStorage(o) ==
  /\ Call(o)
  /\ memoryFS' = IF memoryFS = Nil THEN <<"memory", made + 1>> ELSE memoryFS
  /\ WithStorage(o, memoryFS', made + 1)
  /\ made' = made + 1
  /\ UNCHANGED <<definitions, built, phase, served>>

(* A handler of the caller's own; the status subresource is not registered. *)
WithResourceAndHandler(o) ==
  /\ Call(o)
  /\ Register(o, KnownTypes(o, o.version))
  /\ forGroupVersionResource(o, [g \in {GVR(o, "")} |-> Handler])
  /\ UNCHANGED <<memoryFS, made, definitions, built, phase, served>>

WithResource(o) ==
  /\ Call(o)
  /\ Register(o, KnownType(o))
  /\ withGroupVersions(GroupVersion(o))
  /\ UNCHANGED <<storage, apis, memoryFS, made, definitions, built, phase, served>>

(* A subresource with a handler of the caller's own; the type is not registered. *)
WithSubResourceAndHandler(o) ==
  /\ Call(o)
  /\ forGroupVersionResource(o, [g \in {GVR(o, "sub")} |-> Handler])
  /\ UNCHANGED <<memoryFS, made, types, definitions, built, phase, served>>

(* The definitions are those of one call; they are looked up once the server starts. *)
WithOpenAPIDefinitions ==
  /\ phase \in {"registering", "built"}
  /\ ~definitions   \* a bound: the caller gives definitions once
  /\ definitions' = TRUE
  /\ UNCHANGED <<orderedGroupVersions, storage, apis, memoryFS, made, types, built, phase, served,
                 calls>>

-----------------------------------------------------------------------------
APIScheme == UNION {AddToScheme(schemeBuilder[i]) : i \in DOMAIN schemeBuilder}

(* A type that is neither the storage version nor convertible is an error; two
   types of one kind are a panic of the scheme. *)
SchemeFails ==
  \/ \E i \in DOMAIN schemeBuilder : ~schemeBuilder[i].storage /\ ~schemeBuilder[i].convertible
  \/ \E k, l \in APIScheme : k[1] = l[1] /\ k[2] # l[2]

(* buildCodec and the options of the server. *)
ToServerOptions ==
  /\ phase = "registering"
  /\ \/ SchemeFails /\ phase' = "failed" /\ UNCHANGED built
     \/ /\ ~SchemeFails
        /\ phase' = "built"
        /\ scheme' = APIScheme /\ openapiScheme' = openapiBuilder
        /\ configured' = definitions
        /\ codec' = orderedGroupVersions
        /\ prioritized' = {GroupVersion(g) : g \in DOMAIN apis} \cup Range(orderedGroupVersions)
  /\ UNCHANGED <<registry, served, calls>>

Known(gvr) == \E k \in scheme : k[1] = <<gvr.group, gvr.version, gvr.resource>>

Orphan(gvr) == GVR(gvr, "") \notin DOMAIN apis

(* The storage of each API, which its provider makes, by group. *)
buildAPIGroupInfos ==
  [group \in {g.group : g \in DOMAIN apis} |->
     [g \in {h \in DOMAIN apis : h.group = group} |-> apis[g]]]

(* The APIs of the versions that have a priority; others are passed over. *)
Prioritized == {g \in DOMAIN apis : GroupVersion(g) \in prioritized}

InstallFails ==
  \/ \E group \in DOMAIN buildAPIGroupInfos : \A gv \in prioritized : gv[1] # group
  \/ \E g \in Prioritized : ~Known(g) \/ Orphan(g)

ObjectOf(gvr) == CHOOSE o \in Resources : GVR(o, "") = GVR(gvr, "")

(* The models that the routes of the installed APIs, of the discovery and of the
   version speak of. *)
RouteModels ==
  {ObjectOf(g).model : g \in Prioritized}
  \cup {ObjectOf(g).list : g \in {p \in Prioritized : p.sub = ""}}
  \cup (IF Prioritized = {} THEN {}
        ELSE {"v1.Status", "v1.DeleteOptions", "v1.Patch", "v1.WatchEvent",
              "v1.APIGroup", "v1.APIResourceList"})
  \cup {"v1.APIGroupList", "version.Info"}

(* The models of the document that PrepareRun builds along the routes. *)
Document == IF configured THEN buildDefinitionRecursively(Definitions, RouteModels) ELSE {}

(* InstallAPIGroup needs an OpenAPI configuration and the models of the resources;
   PrepareRun ends the process for a model of a route that is not defined. *)
OpenAPIFails ==
  \/ ~configured /\ Prioritized # {}
  \/ ~(Document \subseteq DOMAIN Definitions)

(* The server is made: every provider is called once, and each group is installed. *)
New ==
  /\ phase = "built"
  /\ \/ (InstallFails \/ OpenAPIFails) /\ phase' = "failed" /\ UNCHANGED served
     \/ /\ ~(InstallFails \/ OpenAPIFails)
        /\ phase' = "serving"
        /\ installed' = [g \in Prioritized |-> buildAPIGroupInfos[g.group][g]]
        /\ document' = Document
  /\ UNCHANGED <<registry, built, calls>>

Finished == phase \in {"serving", "failed"} /\ UNCHANGED vars

Next ==
  \/ \E o \in Resources :
       \/ WithResourceFileStorage(o)
       \/ WithResourceMemoryStorage(o)
       \/ WithResourceAndHandler(o)
       \/ WithResource(o)
       \/ WithSubResourceAndHandler(o)
  \/ WithOpenAPIDefinitions
  \/ ToServerOptions
  \/ New
  \/ Finished

Spec == Init /\ [][Next]_vars

-----------------------------------------------------------------------------
Stored(m) == {g \in DOMAIN m : m[g].strategy # "handler"}

SameResource(g, h) == GVR(g, "") = GVR(h, "")

(* The registry is consistent: every type and every API has its group version in
   the list, once, and every API has a singletonProvider. *)
TypeOK ==
  /\ IsInjective(orderedGroupVersions)
  /\ Range(orderedGroupVersions) = {GroupVersion(o) : o \in Range(schemeBuilder) \cup DOMAIN apis}
  /\ DOMAIN storage = {GroupResource(g) : g \in DOMAIN apis}
  /\ memoryFS = Nil \/ memoryFS \in {"memory"} \X (1..made)
  /\ phase \in {"registering", "built", "serving", "failed"}

(* "Each type should have its own WatchSet, but subresources (like the status
   subresource) should share a WatchSet with their parent", and its file system too,
   whatever the order of registrations and of repeated ones.  All resources in memory
   share one file system, hence one counter of revisions; a resource on disk shares its
   own with no other resource. *)
StorageSharedRightly ==
  \A g, h \in Stored(installed) :
    /\ SameResource(g, h) =>
         installed[g].ws = installed[h].ws /\ installed[g].fs = installed[h].fs
    /\ <<g.group, g.resource>> # <<h.group, h.resource>> =>
         /\ installed[g].ws # installed[h].ws
         /\ installed[g].fs = installed[h].fs <=>
              installed[g].fs[1] = "memory" /\ installed[h].fs[1] = "memory"

(* A server that comes up serves every API whose type the scheme knows, and its
   codec encodes to the version of each API that it serves, late registrations
   included. *)
ServesWhatItKnows ==
  phase = "serving" =>
    /\ \A g \in DOMAIN apis : Known(g) => g \in DOMAIN installed
    /\ \A g \in DOMAIN installed : GroupVersion(g) \in Range(codec)

(* A server fails to come up only for a type that cannot be added to the scheme, one
   that was registered after ToServerOptions, a subresource without its resource, a
   call of WithOpenAPIDefinitions that never came or came after ToServerOptions, or a
   registered type that the definitions do not define. *)
FailsForAReason ==
  phase = "failed" =>
    \/ SchemeFails
    \/ \E o \in Range(schemeBuilder) : ~(AddToScheme(o) \subseteq scheme)
    \/ \E g \in DOMAIN apis : Orphan(g)
    \/ ~configured
    \/ \E o \in Range(schemeBuilder) : ~({o.model, o.list} \subseteq DOMAIN Definitions)

EachDocumentClosed == \A m \in DOMAIN Definitions : Closed(Definitions, buildDefinitionRecursively(Definitions, {m}))

(* The document that a server serves has every model that its models refer to, and so
   would the document of any single type that is defined: no $ref dangles. *)
DocumentClosed == phase = "serving" => Closed(Definitions, document) /\ EachDocumentClosed

(* "causes problems for the openapi generator, because it gets confused that the same
   reflect.Type is registered twice": the document names the model of each served API
   by the kind of that API and by no other, whichever calls registered the type. *)
OneKindPerModel ==
  \A g \in DOMAIN installed :
    LET model == ObjectOf(g).model
    IN  {k[1] : k \in {l \in openapiScheme : l[2] = model}}
          = {<<g.group, g.version, g.resource>>}

-----------------------------------------------------------------------------
(* "singletonProvider ensures different versions of the same resource share
   storage": the providers that the server calls are those of apis, and it never sees
   the singletonProvider. *)
VersionsShareStorage ==
  \A g, h \in Stored(installed) :
    GroupResource(g) = GroupResource(h) =>
      installed[g].fs = installed[h].fs /\ installed[g].ws = installed[h].ws
=============================================================================
