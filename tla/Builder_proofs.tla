--------------------------- MODULE Builder_proofs ---------------------------
(***************************************************************************)
(* Whatever is registered, in whatever order and however often, the        *)
(* registry is consistent, storage is shared as it should be, and a server *)
(* that comes up serves what its scheme knows, under one kind per type.    *)
(***************************************************************************)
EXTENDS Builder, TLAPS

(* An API of a resource: the resource itself or a subresource. *)
APIOf(o, g) == g = GVR(o, g.sub)

(* What is stored of a resource: itself, and its status if it has one. *)
StoredAs(o, g) == g = GVR(o, "") \/ (g = GVR(o, "status") /\ o.status)

(* The variables that registrations change have their types. *)
RegistryType ==
  /\ orderedGroupVersions \in Seq({GroupVersion(o) : o \in Resources})
  /\ schemeBuilder \in Seq(Resources)
  /\ \A g \in DOMAIN apis : \E o \in Resources : APIOf(o, g)
  /\ made \in Nat

(* An API that is stored has the WatchSet and the file system of the registration that
   was the last to store its resource. *)
StoredAPI(g) ==
  /\ \E o \in Resources : StoredAs(o, g)
  /\ apis[g].ws \in 1..made
  /\ \/ apis[g].fs = <<"disk", apis[g].ws>>
     \/ apis[g].fs = memoryFS /\ memoryFS # Nil

StorageInv ==
  /\ \A g \in Stored(apis) : StoredAPI(g)
  /\ \A g, h \in Stored(apis) : apis[g].ws = apis[h].ws <=> SameResource(g, h)
  /\ \A g, h \in Stored(apis) : SameResource(g, h) => apis[g].fs = apis[h].fs

(* Each type waits under its own version for the OpenAPI scheme. *)
OpenAPIInv ==
  /\ \A k \in openapiBuilder : \E o \in Resources : k \in KnownTypes(o, o.version)
  /\ \A i \in DOMAIN schemeBuilder : KnownType(schemeBuilder[i]) \subseteq openapiBuilder

(* What was built, was built from a consistent registry. *)
BuiltInv ==
  /\ phase \in {"built", "serving"} =>
       /\ prioritized = Range(codec) /\ codec \in Seq({GroupVersion(o) : o \in Resources})
       /\ \A k \in scheme :
            \E o \in Resources : /\ k \in AddToScheme(o)
                                 /\ GroupVersion(o) \in Range(codec)
                                 /\ KnownType(o) \subseteq openapiScheme
       /\ \A k \in openapiScheme : \E o \in Resources : k \in KnownTypes(o, o.version)
  /\ phase # "serving" => installed = <<>>
  /\ phase = "serving" =>
       /\ DOMAIN installed = Prioritized
       /\ \A g \in Prioritized : installed[g] = apis[g] /\ Known(g)

BuilderInv == TypeOK /\ RegistryType /\ StorageInv /\ OpenAPIInv /\ BuiltInv

-----------------------------------------------------------------------------
(* What a registration does, whichever call it is: it adds the APIs on the domain of
   new, all of them of the resource o. *)
AddsAPIs(o, new) ==
  /\ \A g \in DOMAIN new : APIOf(o, g)
  /\ DOMAIN apis' = DOMAIN apis \cup DOMAIN new
  /\ \A g \in DOMAIN apis' : apis'[g] = IF g \in DOMAIN new THEN new[g] ELSE apis[g]
  /\ DOMAIN storage' = DOMAIN storage \cup {GroupResource(g) : g \in DOMAIN new}
  /\ withGroupVersions(GroupVersion(o))

(* The type is registered with both schemes, or there is an API of it. *)
AddsTypes(o, new) ==
  \/ /\ schemeBuilder' = Append(schemeBuilder, o)
     /\ openapiBuilder' \in {openapiBuilder \cup KnownType(o),
                             openapiBuilder \cup KnownTypes(o, o.version)}
  \/ UNCHANGED types /\ DOMAIN new # {}

(* The resource, with its status if it has one, gets one new WatchSet and one file
   system; or everything that is added has a handler of the caller's own. *)
AddsStorage(o, new, fs) ==
  /\ made' = made + 1
  /\ memoryFS' = memoryFS \/ (memoryFS = Nil /\ memoryFS' = <<"memory", made + 1>>)
  /\ fs = <<"disk", made + 1>> \/ (fs = memoryFS' /\ memoryFS' # Nil)
  /\ \A g : StoredAs(o, g) => g \in DOMAIN new
  /\ \A g \in DOMAIN new :
       \/ new[g].strategy = "handler"
       \/ StoredAs(o, g) /\ new[g].fs = fs /\ new[g].ws = made + 1

AddsHandlers(new) ==
  /\ UNCHANGED <<made, memoryFS>>
  /\ \A g \in DOMAIN new : new[g].strategy = "handler"

Registers(o, new) ==
  /\ phase \in {"registering", "built"}
  /\ AddsAPIs(o, new) /\ AddsTypes(o, new)
  /\ AddsHandlers(new) \/ \E fs : AddsStorage(o, new, fs)
  /\ UNCHANGED <<built, phase, served>>

(* forGroupVersionResource adds the APIs that it is given. *)
LEMMA ForAdds ==
  ASSUME NEW o, NEW new, \A g \in DOMAIN new : APIOf(o, g),
         forGroupVersionResource(o, new)
  PROVE  AddsAPIs(o, new)
<1> DEFINE first == [gr \in {GroupResource(g) : g \in DOMAIN new} |->
                       new[CHOOSE g \in DOMAIN new : GroupResource(g) = gr]]
<1>1. storage' = Put(first, storage)
  BY Zenon DEF forGroupVersionResource
<1>2. DOMAIN first = {GroupResource(g) : g \in DOMAIN new}
  BY Zenon
<1> HIDE DEF first
<1>3. DOMAIN storage' = DOMAIN storage \cup {GroupResource(g) : g \in DOMAIN new}
  BY Zenon, <1>1, <1>2 DEF Put
<1>4. /\ DOMAIN apis' = DOMAIN apis \cup DOMAIN new
      /\ \A g \in DOMAIN apis' : apis'[g] = IF g \in DOMAIN new THEN new[g] ELSE apis[g]
  BY Zenon DEF forGroupVersionResource, Put
<1> QED
  BY Zenon, <1>3, <1>4 DEF AddsAPIs, forGroupVersionResource

(* What a registration with storage adds, subresources included. *)
StorageAPIs(o, fs, ws) ==
  Put([g \in {GVR(o, "")} |-> Provider(fs, ws, "main")], withSubresources(o, fs, ws))

(* A registration with storage adds the resource and its status with that file system
   and that WatchSet, and else handlers only. *)
LEMMA StorageAdds ==
  ASSUME NEW o \in Resources, NEW fs, NEW ws
  PROVE  LET new == StorageAPIs(o, fs, ws) IN
         /\ \A g \in DOMAIN new : APIOf(o, g)
         /\ \A g : StoredAs(o, g) => g \in DOMAIN new
         /\ \A g \in DOMAIN new :
              \/ new[g].strategy = "handler"
              \/ StoredAs(o, g) /\ new[g].fs = fs /\ new[g].ws = ws
<1> DEFINE main    == [g \in {GVR(o, "")} |-> Provider(fs, ws, "main")]
           status  == IF o.status THEN [g \in {GVR(o, "status")} |-> Provider(fs, ws, "status")]
                      ELSE <<>>
           generic == [g \in {GVR(o, name) : name \in o.generic} |-> Handler]
           subs    == withSubresources(o, fs, ws)
           new     == StorageAPIs(o, fs, ws)
<1>2. DOMAIN main = {GVR(o, "")} /\ main[GVR(o, "")] = Provider(fs, ws, "main")
  BY Zenon
<1>3. /\ o.status => /\ DOMAIN status = {GVR(o, "status")}
                     /\ status[GVR(o, "status")] = Provider(fs, ws, "status")
      /\ ~o.status => DOMAIN status = {}
  <2>1. CASE o.status
    BY Zenon, <2>1
  <2>2. CASE ~o.status
    BY <2>2
  <2> QED
    BY Zenon, <2>1, <2>2
<1>4. /\ DOMAIN generic = {GVR(o, name) : name \in o.generic}
      /\ \A g \in DOMAIN generic : generic[g] = Handler
  BY Zenon
<1>5. subs = Put(status, generic)
  BY Zenon DEF withSubresources
<1>6. new = Put(main, subs)
  BY Zenon DEF StorageAPIs
<1> HIDE DEF main, status, generic, subs, new
<1>7. /\ DOMAIN subs = DOMAIN status \cup DOMAIN generic
      /\ \A g \in DOMAIN subs : subs[g] = IF g \in DOMAIN generic THEN generic[g] ELSE status[g]
  BY Zenon, <1>5 DEF Put
<1>8. /\ DOMAIN new = DOMAIN main \cup DOMAIN subs
      /\ \A g \in DOMAIN new : new[g] = IF g \in DOMAIN subs THEN subs[g] ELSE main[g]
  BY Zenon, <1>6 DEF Put
<1>9. \A g \in DOMAIN new : APIOf(o, g)
  <2>1. \A sub : APIOf(o, GVR(o, sub))
    BY Zenon DEF APIOf, GVR
  <2>2. \A g \in DOMAIN status : g = GVR(o, "status")
    BY Zenon, <1>3
  <2>3. \A g \in DOMAIN generic : \E name : g = GVR(o, name)
    BY Zenon, <1>4
  <2>4. ASSUME NEW g \in DOMAIN new
        PROVE  \E name : g = GVR(o, name)
    BY ZenonT(40), <2>2, <2>3, <1>2, <1>7, <1>8
  <2> QED
    BY <2>1, <2>4, Zenon
<1>10. ASSUME NEW g, StoredAs(o, g)
       PROVE  g \in DOMAIN new
  <2>1. GVR(o, "") \in DOMAIN new
    BY Zenon, <1>2, <1>8
  <2>2. o.status => GVR(o, "status") \in DOMAIN new
    BY Zenon, <1>3, <1>7, <1>8
  <2> QED
    BY <1>10, <2>1, <2>2, Zenon DEF StoredAs
<1>11. ASSUME NEW g \in DOMAIN new
       PROVE  \/ new[g].strategy = "handler"
              \/ StoredAs(o, g) /\ new[g].fs = fs /\ new[g].ws = ws
  <2>1. CASE g \in DOMAIN generic
    <3>1. new[g].strategy = "handler"
      BY <2>1, <1>4, <1>7, <1>8 DEF Handler, Provider
    <3> QED
      BY <3>1, Zenon
  <2>2. CASE g \notin DOMAIN generic /\ g \in DOMAIN status
    <3>1. o.status /\ g = GVR(o, "status")
      BY Zenon, <2>2, <1>3
    <3>2. new[g].fs = fs /\ new[g].ws = ws
      BY <3>1, <2>2, <1>3, <1>7, <1>8 DEF Provider
    <3> QED
      BY <3>1, <3>2, Zenon DEF StoredAs
  <2>3. CASE g \notin DOMAIN generic /\ g \notin DOMAIN status
    <3>1. g = GVR(o, "")
      BY Zenon, <2>3, <1>2, <1>7, <1>8
    <3>3. new[g] = Provider(fs, ws, "main")
      BY ZenonT(40), <3>1, <2>3, <1>2, <1>7, <1>8
    <3>2. new[g].fs = fs /\ new[g].ws = ws
      BY <3>3 DEF Provider
    <3> QED
      BY <3>1, <3>2, Zenon DEF StoredAs
  <2> QED
    BY Zenon, <2>1, <2>2, <2>3
<1> QED
  BY Zenon, <1>9, <1>10, <1>11 DEF new

(* Every registration is of this shape. *)
LEMMA RegistrationShape ==
  ASSUME NEW o \in Resources, made \in Nat,
         \/ WithResourceFileStorage(o) \/ WithResourceMemoryStorage(o)
         \/ WithResourceAndHandler(o) \/ WithResource(o) \/ WithSubResourceAndHandler(o)
  PROVE  \E new : Registers(o, new)
<1>1. ASSUME NEW fs, WithStorage(o, fs, made + 1), made' = made + 1,
             memoryFS' = memoryFS \/ (memoryFS = Nil /\ memoryFS' = <<"memory", made + 1>>),
             fs = <<"disk", made + 1>> \/ (fs = memoryFS' /\ memoryFS' # Nil),
             phase \in {"registering", "built"}, UNCHANGED <<built, phase, served>>
      PROVE  \E new : Registers(o, new)
  <2> DEFINE new == StorageAPIs(o, fs, made + 1)
  <2>1. forGroupVersionResource(o, new) /\ Register(o, KnownTypes(o, o.version))
    BY Zenon, <1>1 DEF WithStorage, StorageAPIs
  <2>2. /\ \A g \in DOMAIN new : APIOf(o, g)
        /\ \A g : StoredAs(o, g) => g \in DOMAIN new
        /\ \A g \in DOMAIN new :
             \/ new[g].strategy = "handler"
             \/ StoredAs(o, g) /\ new[g].fs = fs /\ new[g].ws = made + 1
    BY Zenon, StorageAdds
  <2> HIDE DEF new
  <2>3. AddsAPIs(o, new)
    BY Zenon, <2>1, <2>2, ForAdds
  <2>4. AddsTypes(o, new)
    BY Zenon, <2>1 DEF AddsTypes, Register
  <2>5. AddsStorage(o, new, fs)
    BY Zenon, <1>1, <2>2 DEF AddsStorage
  <2> QED
    BY <1>1, <2>3, <2>4, <2>5 DEF Registers
<1>2. CASE WithResourceFileStorage(o)
  <2>1. /\ WithStorage(o, <<"disk", made + 1>>, made + 1) /\ made' = made + 1
        /\ memoryFS' = memoryFS
        /\ phase \in {"registering", "built"} /\ UNCHANGED <<built, phase, served>>
    BY Zenon, <1>2 DEF WithResourceFileStorage, Call
  <2> QED
    BY Zenon, <2>1, <1>1
<1>3. CASE WithResourceMemoryStorage(o)
  <2>1. /\ WithStorage(o, memoryFS', made + 1) /\ made' = made + 1
        /\ memoryFS' = IF memoryFS = Nil THEN <<"memory", made + 1>> ELSE memoryFS
        /\ phase \in {"registering", "built"} /\ UNCHANGED <<built, phase, served>>
    BY Zenon, <1>3 DEF WithResourceMemoryStorage, Call
  <2>2. <<"memory", made + 1>> # Nil
    <3>1. Nil \notin {"memory"} \X Nat
      BY BuilderAssumption, Zenon
    <3>2. <<"memory", made + 1>> \in {"memory"} \X Nat
      OBVIOUS
    <3> QED
      BY Zenon, <3>1, <3>2
  <2>3. memoryFS' # Nil
    BY Zenon, <2>1, <2>2
  <2> QED
    BY Zenon, <2>1, <2>3, <1>1
<1>4. ASSUME NEW sub \in {"", "sub"}, forGroupVersionResource(o, [g \in {GVR(o, sub)} |-> Handler])
      PROVE  \E new : /\ AddsAPIs(o, new) /\ DOMAIN new # {}
                      /\ \A g \in DOMAIN new : new[g].strategy = "handler"
  <2> DEFINE new == [g \in {GVR(o, sub)} |-> Handler]
  <2>1. DOMAIN new = {GVR(o, sub)} /\ \A g \in DOMAIN new : new[g].strategy = "handler"
    BY Zenon DEF Handler, Provider
  <2>4. \A g \in DOMAIN new : APIOf(o, g)
    <3>1. APIOf(o, GVR(o, sub))
      BY Zenon DEF APIOf, GVR
    <3> QED
      BY Zenon, <2>1, <3>1
  <2>2. forGroupVersionResource(o, new)
    BY Zenon, <1>4
  <2> HIDE DEF new
  <2>3. AddsAPIs(o, new)
    BY Zenon, <2>4, <2>2, ForAdds
  <2> QED
    BY Zenon, <2>1, <2>3
<1>5. CASE WithResourceAndHandler(o)
  <2>1. PICK new : /\ AddsAPIs(o, new) /\ DOMAIN new # {}
                   /\ \A g \in DOMAIN new : new[g].strategy = "handler"
    BY Zenon, <1>5, <1>4 DEF WithResourceAndHandler
  <2>2. AddsTypes(o, new) /\ AddsHandlers(new)
    BY Zenon, <1>5, <2>1 DEF WithResourceAndHandler, AddsTypes, AddsHandlers, Register
  <2>3. phase \in {"registering", "built"} /\ UNCHANGED <<built, phase, served>>
    BY Zenon, <1>5 DEF WithResourceAndHandler, Call
  <2> QED
    BY <2>1, <2>2, <2>3 DEF Registers
<1>6. CASE WithResource(o)
  <2> DEFINE new == <<>>
  <2>1. DOMAIN new = {}
    OBVIOUS
  <2>2. /\ apis' = apis /\ storage' = storage /\ withGroupVersions(GroupVersion(o))
        /\ Register(o, KnownType(o)) /\ UNCHANGED <<made, memoryFS>>
        /\ phase \in {"registering", "built"} /\ UNCHANGED <<built, phase, served>>
    BY Zenon, <1>6 DEF WithResource, Call
  <2> HIDE DEF new
  <2>3. AddsAPIs(o, new)
    BY Zenon, <2>1, <2>2 DEF AddsAPIs
  <2>4. AddsTypes(o, new) /\ AddsHandlers(new)
    BY Zenon, <2>1, <2>2 DEF AddsTypes, AddsHandlers, Register
  <2> QED
    BY <2>2, <2>3, <2>4 DEF Registers
<1>7. CASE WithSubResourceAndHandler(o)
  <2>1. PICK new : /\ AddsAPIs(o, new) /\ DOMAIN new # {}
                   /\ \A g \in DOMAIN new : new[g].strategy = "handler"
    BY Zenon, <1>7, <1>4 DEF WithSubResourceAndHandler
  <2>2. AddsTypes(o, new) /\ AddsHandlers(new)
    BY Zenon, <1>7, <2>1 DEF WithSubResourceAndHandler, AddsTypes, AddsHandlers
  <2>3. phase \in {"registering", "built"} /\ UNCHANGED <<built, phase, served>>
    BY Zenon, <1>7 DEF WithSubResourceAndHandler, Call
  <2> QED
    BY <2>1, <2>2, <2>3 DEF Registers
<1> QED
  BY Zenon, <1>2, <1>3, <1>5, <1>6, <1>7

-----------------------------------------------------------------------------
(* Adding a value to a sequence unless it is there. *)
AddNew(s, e) == IF e \in Range(s) THEN s ELSE Append(s, e)

(* A sequence of distinct values stays one. *)
LEMMA AppendNew ==
  ASSUME NEW S, NEW s \in Seq(S), NEW e \in S, IsInjective(s)
  PROVE  /\ AddNew(s, e) \in Seq(S) /\ IsInjective(AddNew(s, e))
         /\ Range(AddNew(s, e)) = Range(s) \cup {e}
<1> DEFINE t == AddNew(s, e)
<1>1. CASE e \in Range(s)
  BY Zenon, <1>1 DEF AddNew
<1>2. CASE e \notin Range(s)
  <2>1. /\ t \in Seq(S) /\ DOMAIN s = 1..Len(s) /\ DOMAIN t = 1..(Len(s) + 1)
        /\ Len(s) \in Nat
        /\ \A i \in 1..Len(s) : t[i] = s[i] /\ s[i] # e
        /\ t[Len(s) + 1] = e
    BY <1>2 DEF Range, AddNew
  <2> HIDE DEF t
  <2>2. IsInjective(t)
    BY <2>1 DEF IsInjective
  <2>3. Range(t) = Range(s) \cup {e}
    BY <2>1 DEF Range
  <2> QED
    BY Zenon, <2>1, <2>2, <2>3 DEF t
<1> QED
  BY Zenon, <1>1, <1>2

(* Appending to a sequence adds to its range. *)
LEMMA AppendRange ==
  ASSUME NEW S, NEW s \in Seq(S), NEW e \in S
  PROVE  /\ Append(s, e) \in Seq(S)
         /\ Range(Append(s, e)) = Range(s) \cup {e}
         /\ \A i \in DOMAIN Append(s, e) :
              \/ i \in DOMAIN s /\ Append(s, e)[i] = s[i]
              \/ Append(s, e)[i] = e
<1>1. /\ Append(s, e) \in Seq(S)
      /\ DOMAIN s = 1..Len(s) /\ DOMAIN Append(s, e) = 1..(Len(s) + 1) /\ Len(s) \in Nat
      /\ \A i \in 1..Len(s) : Append(s, e)[i] = s[i]
      /\ Append(s, e)[Len(s) + 1] = e
  OBVIOUS
<1>2. Range(Append(s, e)) = Range(s) \cup {e}
  BY <1>1 DEF Range
<1> QED
  BY <1>1, <1>2

(* What is stored of a resource is an API of it. *)
LEMMA StoredResource ==
  ASSUME NEW o, NEW g, StoredAs(o, g)
  PROVE  GVR(g, "") = GVR(o, "")
<1>1. \A sub : GVR(GVR(o, sub), "") = GVR(o, "")
  BY Zenon DEF GVR
<1>2. g = GVR(o, "") \/ g = GVR(o, "status")
  BY Zenon DEF StoredAs
<1> QED
  BY <1>1, <1>2, Zenon

(* One resource has one set of APIs that are stored. *)
LEMMA StoredAgain ==
  ASSUME NEW o \in Resources, NEW p \in Resources, NEW g, NEW h,
         StoredAs(o, g), StoredAs(p, h), SameResource(g, h)
  PROVE  StoredAs(o, h)
<1>1. GVR(o, "") = GVR(p, "")
  BY StoredResource, Zenon DEF SameResource
<1>2. o.model = p.model
  BY <1>1, BuilderAssumption, Zenon
<1>3. o.status = p.status
  BY <1>2, BuilderAssumption, Zenon
<1>4. GVR(o, "status") = GVR(p, "status")
  BY Zenon, <1>1 DEF GVR
<1> QED
  BY <1>1, <1>3, <1>4, Zenon DEF StoredAs

(* Whatever is stored of one resource is of the same resource. *)
LEMMA StoredSame ==
  ASSUME NEW o, NEW g, NEW h, StoredAs(o, g), StoredAs(o, h)
  PROVE  SameResource(g, h)
BY StoredResource, Zenon DEF SameResource

-----------------------------------------------------------------------------
(* A registration keeps the registry consistent. *)
LEMMA RegisterType ==
  ASSUME NEW o \in Resources, NEW new, Registers(o, new), TypeOK, RegistryType
  PROVE  TypeOK' /\ RegistryType'
<1> DEFINE GVs == {GroupVersion(p) : p \in Resources}
<1>1. /\ orderedGroupVersions' \in Seq(GVs) /\ IsInjective(orderedGroupVersions')
      /\ Range(orderedGroupVersions') = Range(orderedGroupVersions) \cup {GroupVersion(o)}
  <2>1. orderedGroupVersions' = AddNew(orderedGroupVersions, GroupVersion(o))
    BY Zenon DEF Registers, AddsAPIs, withGroupVersions, AddNew
  <2>2. orderedGroupVersions \in Seq(GVs) /\ GroupVersion(o) \in GVs
    BY Zenon DEF RegistryType
  <2>3. IsInjective(orderedGroupVersions)
    BY Zenon DEF TypeOK
  <2> HIDE DEF GVs
  <2> QED
    BY <2>1, <2>2, <2>3, AppendNew, Zenon
<1>2. DOMAIN apis' = DOMAIN apis \cup DOMAIN new
  BY Zenon DEF Registers, AddsAPIs
<1>3. \A g \in DOMAIN new : APIOf(o, g) /\ GroupVersion(g) = GroupVersion(o)
  BY DEF Registers, AddsAPIs, APIOf, GVR, GroupVersion
<1>4. /\ schemeBuilder' \in Seq(Resources)
      /\ \/ Range(schemeBuilder') = Range(schemeBuilder) \cup {o}
         \/ Range(schemeBuilder') = Range(schemeBuilder) /\ DOMAIN new # {}
  <2>1. schemeBuilder \in Seq(Resources)
    BY Zenon DEF RegistryType
  <2>2. CASE schemeBuilder' = Append(schemeBuilder, o)
    BY <2>1, <2>2, AppendRange
  <2>3. CASE schemeBuilder' = schemeBuilder /\ DOMAIN new # {}
    BY Zenon, <2>1, <2>3
  <2> QED
    BY Zenon, <2>2, <2>3 DEF Registers, AddsTypes, types
<1>5. Range(orderedGroupVersions') = {GroupVersion(p) : p \in Range(schemeBuilder') \cup DOMAIN apis'}
  <2>1. Range(orderedGroupVersions) = {GroupVersion(p) : p \in Range(schemeBuilder) \cup DOMAIN apis}
    BY Zenon DEF TypeOK
  <2> QED
    BY Zenon, <1>1, <1>2, <1>3, <1>4, <2>1
<1>6. DOMAIN storage' = {GroupResource(g) : g \in DOMAIN apis'}
  BY <1>2 DEF Registers, AddsAPIs, TypeOK
<1>7. made' \in Nat /\ (memoryFS' = Nil \/ memoryFS' \in {"memory"} \X (1..made'))
  <2>1. made \in Nat /\ (memoryFS = Nil \/ memoryFS \in {"memory"} \X (1..made))
    BY Zenon DEF RegistryType, TypeOK
  <2>2. CASE AddsHandlers(new)
    BY Zenon, <2>1, <2>2 DEF AddsHandlers
  <2>3. ASSUME NEW fs, AddsStorage(o, new, fs)
        PROVE  made' \in Nat /\ (memoryFS' = Nil \/ memoryFS' \in {"memory"} \X (1..made'))
    BY <2>1, <2>3 DEF AddsStorage
  <2> QED
    BY Zenon, <2>2, <2>3 DEF Registers
<1>8. phase' \in {"registering", "built", "serving", "failed"}
  BY Zenon DEF Registers
<1>9. \A g \in DOMAIN apis' : \E p \in Resources : APIOf(p, g)
  BY Zenon, <1>2, <1>3 DEF RegistryType
<1> QED
  BY Zenon, <1>1, <1>4, <1>5, <1>6, <1>7, <1>8, <1>9 DEF TypeOK, RegistryType

(* A registration keeps the storage of each resource together and apart from that of
   the others: all that was stored of the resource is replaced at once. *)
LEMMA RegisterStorage ==
  ASSUME NEW o \in Resources, NEW new, Registers(o, new), TypeOK, RegistryType, StorageInv
  PROVE  StorageInv'
<1>1. /\ DOMAIN apis' = DOMAIN apis \cup DOMAIN new
      /\ \A g \in DOMAIN apis' : apis'[g] = IF g \in DOMAIN new THEN new[g] ELSE apis[g]
  BY Zenon DEF Registers, AddsAPIs
<1>2. made \in Nat
  BY Zenon DEF RegistryType
<1>3. \A g \in Stored(apis)' :
        \/ g \notin DOMAIN new /\ g \in Stored(apis) /\ apis'[g] = apis[g]
        \/ g \in DOMAIN new /\ new[g].strategy # "handler" /\ apis'[g] = new[g]
  BY Zenon, <1>1 DEF Stored
<1>4. CASE AddsHandlers(new)
  <2>1. \A g \in Stored(apis)' : g \in Stored(apis) /\ apis'[g] = apis[g]
    BY Zenon, <1>3, <1>4 DEF AddsHandlers
  <2>2. made' = made /\ memoryFS' = memoryFS
    BY Zenon, <1>4 DEF AddsHandlers
  <2> QED
    BY <2>1, <2>2 DEF StorageInv, StoredAPI
<1>5. ASSUME NEW fs, AddsStorage(o, new, fs)
      PROVE  StorageInv'
  <2>1. /\ made' = made + 1
        /\ memoryFS' = memoryFS \/ memoryFS = Nil
        /\ fs = <<"disk", made + 1>> \/ (fs = memoryFS' /\ memoryFS' # Nil)
        /\ \A g : StoredAs(o, g) => g \in DOMAIN new
    BY Zenon, <1>5 DEF AddsStorage
  <2>2. ASSUME NEW g \in Stored(apis)', g \in DOMAIN new
        PROVE  StoredAs(o, g) /\ apis'[g].fs = fs /\ apis'[g].ws = made + 1
    BY Zenon, <2>2, <1>3, <1>5 DEF AddsStorage
  <2>3. ASSUME NEW g \in Stored(apis)', g \notin DOMAIN new
        PROVE  g \in Stored(apis) /\ apis'[g] = apis[g] /\ StoredAPI(g)
    BY Zenon, <2>3, <1>3 DEF StorageInv
  <2>4. ASSUME NEW g \in Stored(apis)', NEW h \in Stored(apis)',
               g \in DOMAIN new, h \notin DOMAIN new
        PROVE  /\ ~SameResource(g, h) /\ ~SameResource(h, g)
               /\ apis'[g].ws # apis'[h].ws
    <3>1. PICK p \in Resources : StoredAs(p, h)
      BY Zenon, <2>3, <2>4 DEF StoredAPI
    <3>2. StoredAs(o, g) /\ ~StoredAs(o, h)
      BY Zenon, <2>1, <2>2, <2>4
    <3>3. ~SameResource(g, h)
      BY Zenon, <3>1, <3>2, StoredAgain
    <3>4. ~SameResource(h, g)
      BY Zenon, <3>3 DEF SameResource
    <3>5. apis'[h].ws \in 1..made
      BY Zenon, <2>3, <2>4 DEF StoredAPI
    <3>6. apis'[g].ws = made + 1
      BY Zenon, <2>2, <2>4
    <3> QED
      BY <3>3, <3>4, <3>5, <3>6, <1>2
  <2>5. ASSUME NEW g \in Stored(apis)'
        PROVE  StoredAPI(g)'
    <3>1. CASE g \in DOMAIN new
      <4>1. StoredAs(o, g) /\ apis'[g].fs = fs /\ apis'[g].ws = made + 1
        BY Zenon, <2>2, <3>1
      <4>2. apis'[g].ws \in 1..made'
        BY <4>1, <2>1, <1>2
      <4> QED
        BY Zenon, <4>1, <4>2, <2>1 DEF StoredAPI
    <3>2. CASE g \notin DOMAIN new
      <4>1. apis'[g] = apis[g] /\ StoredAPI(g)
        BY Zenon, <2>3, <3>2
      <4>2. apis'[g].ws \in 1..made'
        BY <4>1, <2>1, <1>2 DEF StoredAPI
      <4> QED
        BY Zenon, <4>1, <4>2, <2>1 DEF StoredAPI
    <3> QED
      BY Zenon, <3>1, <3>2
  <2>6. ASSUME NEW g \in Stored(apis)', NEW h \in Stored(apis)'
        PROVE  /\ apis'[g].ws = apis'[h].ws <=> SameResource(g, h)
               /\ SameResource(g, h) => apis'[g].fs = apis'[h].fs
    <3>1. CASE g \in DOMAIN new /\ h \in DOMAIN new
      <4>1. SameResource(g, h)
        BY Zenon, <3>1, <2>2, StoredSame
      <4> QED
        BY Zenon, <4>1, <3>1, <2>2
    <3>2. CASE g \notin DOMAIN new /\ h \notin DOMAIN new
      BY <3>2, <2>3 DEF StorageInv
    <3>3. CASE g \in DOMAIN new /\ h \notin DOMAIN new
      BY Zenon, <3>3, <2>4
    <3>4. CASE g \notin DOMAIN new /\ h \in DOMAIN new
      BY Zenon, <3>4, <2>4
    <3> QED
      BY Zenon, <3>1, <3>2, <3>3, <3>4
  <2> QED
    BY Zenon, <2>5, <2>6 DEF StorageInv
<1> QED
  BY Zenon, <1>4, <1>5 DEF Registers

(* A registration tells the OpenAPI scheme of a type under its own version only. *)
LEMMA RegisterOpenAPI ==
  ASSUME NEW o \in Resources, NEW new, Registers(o, new), RegistryType, OpenAPIInv
  PROVE  OpenAPIInv'
<1>1. CASE UNCHANGED types
  BY Zenon, <1>1 DEF types, OpenAPIInv
<1>2. CASE /\ schemeBuilder' = Append(schemeBuilder, o)
           /\ openapiBuilder' \in {openapiBuilder \cup KnownType(o),
                                   openapiBuilder \cup KnownTypes(o, o.version)}
  <2>1. KnownType(o) \subseteq KnownTypes(o, o.version)
    BY Zenon DEF KnownType, KnownTypes
  <2>2. /\ openapiBuilder \subseteq openapiBuilder' /\ KnownType(o) \subseteq openapiBuilder'
        /\ \A k \in openapiBuilder' : k \in openapiBuilder \/ k \in KnownTypes(o, o.version)
    BY Zenon, <1>2, <2>1
  <2>3. \A k \in openapiBuilder' : \E p \in Resources : k \in KnownTypes(p, p.version)
    BY Zenon, <2>2 DEF OpenAPIInv
  <2>4. schemeBuilder \in Seq(Resources)
    BY Zenon DEF RegistryType
  <2>5. \A i \in DOMAIN schemeBuilder' :
          \/ i \in DOMAIN schemeBuilder /\ schemeBuilder'[i] = schemeBuilder[i]
          \/ schemeBuilder'[i] = o
    BY <1>2, <2>4, AppendRange
  <2>6. \A i \in DOMAIN schemeBuilder' : KnownType(schemeBuilder'[i]) \subseteq openapiBuilder'
    BY Zenon, <2>2, <2>5 DEF OpenAPIInv
  <2> QED
    BY Zenon, <2>3, <2>6 DEF OpenAPIInv
<1> QED
  BY Zenon, <1>1, <1>2 DEF Registers, AddsTypes

(* A registration after ToServerOptions leaves alone what was built. *)
LEMMA RegisterBuilt ==
  ASSUME NEW o \in Resources, NEW new, Registers(o, new), BuiltInv
  PROVE  BuiltInv'
<1>1. /\ phase' = phase /\ phase # "serving" /\ UNCHANGED <<scheme, openapiScheme, codec, prioritized>>
      /\ installed' = installed
  BY Zenon DEF Registers, built, served
<1> QED
  BY Zenon, <1>1 DEF BuiltInv

(* A step registers a resource, builds, starts or fails to start the server, or leaves
   all that the invariant speaks of as it is. *)
LEMMA StepShape ==
  ASSUME RegistryType, [Next]_vars
  PROVE  \/ \E o \in Resources : \E new : Registers(o, new)
         \/ ToServerOptions
         \/ New
         \/ UNCHANGED <<orderedGroupVersions, storage, apis, memoryFS, made, types, built, phase, served>>
<1>1. made \in Nat
  BY Zenon DEF RegistryType
<1>2. CASE WithOpenAPIDefinitions
  BY Zenon, <1>2 DEF WithOpenAPIDefinitions
<1>3. CASE UNCHANGED vars
  BY Zenon, <1>3 DEF vars, registry
<1>4. CASE Finished
  BY Zenon, <1>4, <1>3 DEF Finished
<1> QED
  BY Zenon, <1>1, <1>2, <1>3, <1>4, RegistrationShape DEF Next

(* Building from a consistent registry. *)
LEMMA BuildKeeps ==
  ASSUME ToServerOptions, BuilderInv
  PROVE  BuilderInv'
<1>1. UNCHANGED <<orderedGroupVersions, storage, apis, memoryFS, made, schemeBuilder, openapiBuilder, installed>>
      /\ phase = "registering"
  BY Zenon DEF ToServerOptions, registry, types, served
<1>2. phase' \in {"failed", "built"}
  BY Zenon DEF ToServerOptions
<1>3. TypeOK'
  BY Zenon, <1>1, <1>2 DEF BuilderInv, TypeOK
<1>4. RegistryType' /\ StorageInv' /\ OpenAPIInv'
  BY <1>1 DEF BuilderInv, RegistryType, StorageInv, StoredAPI, Stored, OpenAPIInv
<1>5. installed' = <<>>
  BY Zenon, <1>1 DEF BuilderInv, BuiltInv
<1>6. CASE phase' = "failed"
  BY Zenon, <1>3, <1>4, <1>5, <1>6 DEF BuilderInv, BuiltInv
<1>7. CASE phase' = "built"
  <2>1. /\ scheme' = APIScheme /\ openapiScheme' = openapiBuilder
        /\ codec' = orderedGroupVersions
        /\ prioritized' = {GroupVersion(g) : g \in DOMAIN apis} \cup Range(orderedGroupVersions)
    BY Zenon, <1>7 DEF ToServerOptions
  <2>2. Range(orderedGroupVersions) = {GroupVersion(o) : o \in Range(schemeBuilder) \cup DOMAIN apis}
    BY Zenon DEF BuilderInv, TypeOK
  <2>3. prioritized' = Range(codec')
    BY Zenon, <2>1, <2>2
  <2>7. codec' \in Seq({GroupVersion(o) : o \in Resources})
    BY Zenon, <2>1 DEF BuilderInv, RegistryType
  <2>4. ASSUME NEW k \in scheme'
        PROVE  \E o \in Resources : /\ k \in AddToScheme(o)
                                     /\ GroupVersion(o) \in Range(codec')
                                     /\ KnownType(o) \subseteq openapiScheme'
    <3>1. PICK i \in DOMAIN schemeBuilder : k \in AddToScheme(schemeBuilder[i])
      BY Zenon, <2>1 DEF APIScheme
    <3>2. schemeBuilder \in Seq(Resources)
      BY Zenon DEF BuilderInv, RegistryType
    <3>3. schemeBuilder[i] \in Resources /\ schemeBuilder[i] \in Range(schemeBuilder)
      BY <3>2 DEF Range
    <3>4. GroupVersion(schemeBuilder[i]) \in Range(codec')
      BY Zenon, <2>1, <2>2, <3>3
    <3>5. KnownType(schemeBuilder[i]) \subseteq openapiScheme'
      BY Zenon, <2>1 DEF BuilderInv, OpenAPIInv
    <3> QED
      BY Zenon, <3>1, <3>3, <3>4, <3>5
  <2>5. \A k \in openapiScheme' : \E o \in Resources : k \in KnownTypes(o, o.version)
    BY Zenon, <2>1 DEF BuilderInv, OpenAPIInv
  <2>6. BuiltInv'
    BY Zenon, <1>5, <1>7, <2>3, <2>4, <2>5, <2>7 DEF BuiltInv
  <2> QED
    BY Zenon, <1>3, <1>4, <2>6 DEF BuilderInv
<1> QED
  BY Zenon, <1>2, <1>6, <1>7

(* Starting the server from what was built and from the APIs as they are then. *)
LEMMA NewKeeps ==
  ASSUME New, BuilderInv
  PROVE  BuilderInv'
<1>1. /\ UNCHANGED <<orderedGroupVersions, storage, apis, memoryFS, made, schemeBuilder, openapiBuilder>>
      /\ UNCHANGED <<scheme, openapiScheme, codec, prioritized>>
      /\ phase = "built"
  BY Zenon DEF New, registry, types, built
<1>2. phase' \in {"failed", "serving"}
  BY Zenon DEF New
<1>3. TypeOK'
  BY Zenon, <1>1, <1>2 DEF BuilderInv, TypeOK
<1>4. RegistryType' /\ StorageInv' /\ OpenAPIInv'
  BY <1>1 DEF BuilderInv, RegistryType, StorageInv, StoredAPI, Stored, OpenAPIInv
<1>5. CASE phase' = "failed"
  <2>1. installed' = installed
    BY Zenon, <1>5 DEF New, served
  <2>2. BuiltInv'
    BY Zenon, <1>1, <1>5, <2>1 DEF BuilderInv, BuiltInv
  <2> QED
    BY <1>3, <1>4, <2>2 DEF BuilderInv
<1>6. CASE phase' = "serving"
  <2>1. installed' = [g \in Prioritized |-> buildAPIGroupInfos[g.group][g]] /\ ~InstallFails
    BY Zenon, <1>6 DEF New
  <2>2. Prioritized' = Prioritized /\ \A g : Known(g)' <=> Known(g)
    BY Zenon, <1>1 DEF Prioritized, Known
  <2>3. \A g \in Prioritized : Known(g)
    BY Zenon, <2>1 DEF InstallFails
  <2>4. ASSUME NEW g \in Prioritized
        PROVE  installed'[g] = apis'[g]
    <3>1. g \in DOMAIN apis
      BY Zenon DEF Prioritized
    <3>2. buildAPIGroupInfos[g.group][g] = apis[g]
      BY Zenon, <3>1 DEF buildAPIGroupInfos
    <3> QED
      BY Zenon, <1>1, <2>1, <3>2
  <2>5. DOMAIN installed' = Prioritized'
    BY Zenon, <2>1, <2>2
  <2>6. BuiltInv'
    BY Zenon, <1>1, <1>6, <2>2, <2>3, <2>4, <2>5 DEF BuilderInv, BuiltInv
  <2> QED
    BY <1>3, <1>4, <2>6 DEF BuilderInv
<1> QED
  BY Zenon, <1>2, <1>5, <1>6

(* The invariant holds of a new builder. *)
LEMMA InvInit == Init => BuilderInv
<1> SUFFICES ASSUME Init PROVE BuilderInv
  BY Zenon
<1> USE DEF Init, NewServerBuilder
<1>1. DOMAIN apis = {} /\ DOMAIN storage = {} /\ DOMAIN schemeBuilder = {}
      /\ DOMAIN orderedGroupVersions = {}
  OBVIOUS
<1>2. TypeOK
  BY Zenon, <1>1 DEF TypeOK, IsInjective, Range
<1>3. RegistryType
  BY <1>1 DEF RegistryType
<1>4. StorageInv
  BY Zenon, <1>1 DEF StorageInv, Stored
<1>5. OpenAPIInv
  BY Zenon, <1>1 DEF OpenAPIInv
<1>6. BuiltInv
  BY Zenon DEF BuiltInv
<1> QED
  BY Zenon, <1>2, <1>3, <1>4, <1>5, <1>6 DEF BuilderInv

(* Every step keeps it. *)
LEMMA InvNext == BuilderInv /\ [Next]_vars => BuilderInv'
<1> SUFFICES ASSUME BuilderInv, [Next]_vars PROVE BuilderInv'
  BY Zenon
<1>1. ASSUME NEW o \in Resources, NEW new, Registers(o, new)
      PROVE  BuilderInv'
  BY Zenon, <1>1, RegisterType, RegisterStorage, RegisterOpenAPI, RegisterBuilt DEF BuilderInv
<1>2. CASE ToServerOptions
  BY Zenon, <1>2, BuildKeeps
<1>3. CASE New
  BY <1>3, NewKeeps
<1>4. CASE UNCHANGED <<orderedGroupVersions, storage, apis, memoryFS, made, types, built, phase, served>>
  <2>1. UNCHANGED <<orderedGroupVersions, storage, apis, memoryFS, made, schemeBuilder, openapiBuilder>>
        /\ UNCHANGED <<scheme, openapiScheme, codec, prioritized, phase, installed>>
    BY Zenon, <1>4 DEF types, built, served
  <2>2. TypeOK' /\ RegistryType' /\ StorageInv' /\ OpenAPIInv'
    <3>1. TypeOK'
      BY Zenon, <2>1 DEF BuilderInv, TypeOK
    <3>2. RegistryType' /\ OpenAPIInv'
      BY Zenon, <2>1 DEF BuilderInv, RegistryType, OpenAPIInv
    <3>3. StorageInv'
      BY SMT, <2>1 DEF BuilderInv, StorageInv, StoredAPI, Stored
    <3>4. QED
      BY Zenon, <3>1, <3>2, <3>3
  <2>3. BuiltInv'
    BY Zenon, <2>1 DEF BuilderInv, BuiltInv, Prioritized, Known
  <2> QED
    BY Zenon, <2>2, <2>3 DEF BuilderInv
<1> QED
  BY Zenon, <1>1, <1>2, <1>3, <1>4, StepShape DEF BuilderInv

(* Hence it holds at any time. *)
LEMMA Invariant == Spec => []BuilderInv
<1> QED
  BY InvInit, InvNext, PTL DEF Spec

-----------------------------------------------------------------------------
(* A type that the scheme knows under the version of an API is that of the API's own
   resource: not a list, and not another version stored as the internal one. *)
LEMMA KnownOwn ==
  ASSUME BuilderInv, phase = "serving", NEW g \in DOMAIN apis, Known(g)
  PROVE  \E o \in Resources : /\ GVR(o, "") = GVR(g, "")
                              /\ GroupVersion(g) \in Range(codec)
                              /\ KnownType(o) \subseteq openapiScheme
<1>1. PICK k \in scheme : k[1] = <<g.group, g.version, g.resource>>
  BY Zenon DEF Known
<1>2. PICK o \in Resources : /\ k \in AddToScheme(o)
                             /\ GroupVersion(o) \in Range(codec)
                             /\ KnownType(o) \subseteq openapiScheme
  BY Zenon DEF BuilderInv, BuiltInv
<1>3. PICK p \in Resources : g = GVR(p, g.sub)
  BY Zenon DEF BuilderInv, RegistryType, APIOf
<1>4. g.version = p.version /\ g.resource = p.resource
  BY <1>3 DEF GVR
<1>5. g.version # "__internal" /\ g.resource # o.list
  BY <1>4, BuilderAssumption, Zenon
<1>6. \/ k \in KnownTypes(o, o.version)
      \/ k \in KnownTypes(o, "__internal")
  BY Zenon, <1>2 DEF AddToScheme
<1>7. k[1] = <<o.group, o.version, o.resource>>
  BY <1>1, <1>5, <1>6 DEF KnownTypes
<1>8. g.group = o.group /\ g.version = o.version /\ g.resource = o.resource
  BY <1>1, <1>7
<1> QED
  BY ZenonT(40), <1>2, <1>8 DEF GVR, GroupVersion

(* The object of an API is one of its resource. *)
LEMMA ObjectOfOwn ==
  ASSUME NEW g, \E o \in Resources : GVR(o, "") = GVR(g, "")
  PROVE  ObjectOf(g) \in Resources /\ GVR(ObjectOf(g), "") = GVR(g, "")
BY Zenon DEF ObjectOf

-----------------------------------------------------------------------------
(* The registry is consistent at any time: every type and every API has its group
   version in the list, once, and every API has its singletonProvider. *)
THEOREM TypeCorrect == Spec => []TypeOK
<1>1. BuilderInv => TypeOK
  BY Zenon DEF BuilderInv
<1> QED
  BY <1>1, Invariant, PTL

(* A server that is up has one WatchSet and one file system per resource, which its
   status shares; resources that are not versions of each other share no WatchSet, and
   a file system only if both are in memory. *)
THEOREM SharedRightly == Spec => []StorageSharedRightly
<1>1. ASSUME BuilderInv
      PROVE  StorageSharedRightly
  <2>1. CASE phase # "serving"
    <3>1. Stored(installed) = {}
      BY <1>1, <2>1 DEF BuilderInv, BuiltInv, Stored
    <3> QED
      BY Zenon, <3>1 DEF StorageSharedRightly
  <2>2. CASE phase = "serving"
    <3> SUFFICES ASSUME NEW g \in Stored(installed), NEW h \in Stored(installed)
                 PROVE  /\ SameResource(g, h) =>
                             installed[g].ws = installed[h].ws /\ installed[g].fs = installed[h].fs
                        /\ <<g.group, g.resource>> # <<h.group, h.resource>> =>
                             /\ installed[g].ws # installed[h].ws
                             /\ installed[g].fs = installed[h].fs <=>
                                  installed[g].fs[1] = "memory" /\ installed[h].fs[1] = "memory"
      BY Zenon DEF StorageSharedRightly
    <3>1. /\ g \in Stored(apis) /\ installed[g] = apis[g]
          /\ h \in Stored(apis) /\ installed[h] = apis[h]
      BY Zenon, <1>1, <2>2 DEF BuilderInv, BuiltInv, Stored, Prioritized
    <3>2. /\ apis[g].ws = apis[h].ws <=> SameResource(g, h)
          /\ SameResource(g, h) => apis[g].fs = apis[h].fs
      BY Zenon, <1>1, <3>1 DEF BuilderInv, StorageInv
    <3>3. /\ apis[g].fs = <<"disk", apis[g].ws>> \/ (apis[g].fs = memoryFS /\ memoryFS # Nil)
          /\ apis[h].fs = <<"disk", apis[h].ws>> \/ (apis[h].fs = memoryFS /\ memoryFS # Nil)
      BY Zenon, <1>1, <3>1 DEF BuilderInv, StorageInv, StoredAPI
    <3>4. memoryFS = Nil \/ memoryFS[1] = "memory"
      BY Zenon, <1>1 DEF BuilderInv, TypeOK
    <3>5. SameResource(g, h) => <<g.group, g.resource>> = <<h.group, h.resource>>
      BY DEF SameResource, GVR
    <3> QED
      BY <3>1, <3>2, <3>3, <3>4, <3>5
  <2> QED
    BY Zenon, <2>1, <2>2
<1> QED
  BY <1>1, Invariant, PTL

(* A server that is up serves every API whose type its scheme knows, and its codec
   encodes to the version of each API that it serves. *)
THEOREM ServesKnown == Spec => []ServesWhatItKnows
<1>1. ASSUME BuilderInv
      PROVE  ServesWhatItKnows
  <2> SUFFICES ASSUME phase = "serving"
               PROVE  /\ \A g \in DOMAIN apis : Known(g) => g \in DOMAIN installed
                      /\ \A g \in DOMAIN installed : GroupVersion(g) \in Range(codec)
    BY Zenon DEF ServesWhatItKnows
  <2>1. /\ DOMAIN installed = Prioritized /\ prioritized = Range(codec)
        /\ codec \in Seq({GroupVersion(o) : o \in Resources})
    BY Zenon, <1>1 DEF BuilderInv, BuiltInv
  <2>2. \A g \in DOMAIN apis : Known(g) => g \in DOMAIN installed
    BY ZenonT(40), <1>1, <2>1, KnownOwn DEF Prioritized
  <2>3. ASSUME NEW g \in DOMAIN installed
        PROVE  GroupVersion(g) \in Range(codec)
    <3>1. GroupVersion(g) \in Range(codec)
      BY Zenon, <2>1, <2>3 DEF Prioritized
    <3>2. DOMAIN codec = 1..Len(codec)
      BY <2>1
    <3> QED
      BY Zenon, <3>1, <3>2 DEF Range
  <2> QED
    BY Zenon, <2>2, <2>3
<1> QED
  BY <1>1, Invariant, PTL

(* The OpenAPI scheme has the model of each API that a server serves under the kind of
   that API, and under no other. *)
THEOREM OneKind == Spec => []OneKindPerModel
<1>1. ASSUME BuilderInv
      PROVE  OneKindPerModel
  <2>1. CASE phase # "serving"
    <3>1. DOMAIN installed = {}
      BY <1>1, <2>1 DEF BuilderInv, BuiltInv
    <3> QED
      BY Zenon, <3>1 DEF OneKindPerModel
  <2>2. CASE phase = "serving"
    <3> SUFFICES ASSUME NEW g \in DOMAIN installed
                 PROVE  {k[1] : k \in {l \in openapiScheme : l[2] = ObjectOf(g).model}}
                          = {<<g.group, g.version, g.resource>>}
      BY Zenon DEF OneKindPerModel
    <3> DEFINE p == ObjectOf(g)
    <3>1. g \in DOMAIN apis /\ Known(g)
      BY Zenon, <1>1, <2>2 DEF BuilderInv, BuiltInv, Prioritized
    <3>2. PICK o \in Resources : GVR(o, "") = GVR(g, "") /\ KnownType(o) \subseteq openapiScheme
      BY ZenonT(40), <1>1, <2>2, <3>1, KnownOwn
    <3>3. p \in Resources /\ GVR(p, "") = GVR(g, "")
      BY Zenon, <3>2, ObjectOfOwn
    <3> HIDE DEF p
    <3>4. o.model = p.model
      <4>1. GVR(o, "") = GVR(p, "")
        BY ZenonT(40), <3>2, <3>3
      <4> QED
        BY <4>1, <3>3, BuilderAssumption, Zenon
    <3>5. \A q : GVR(q, "") = GVR(g, "") =>
                  <<q.group, q.version, q.resource>> = <<g.group, g.version, g.resource>>
      BY Zenon DEF GVR
    <3>6. <<<<g.group, g.version, g.resource>>, p.model>> \in openapiScheme
      BY ZenonT(40), <3>2, <3>4, <3>5 DEF KnownType
    <3>7. ASSUME NEW k \in openapiScheme, k[2] = p.model
          PROVE  k[1] = <<g.group, g.version, g.resource>>
      <4>1. PICK q \in Resources : k \in KnownTypes(q, q.version)
        BY Zenon, <1>1, <2>2 DEF BuilderInv, BuiltInv
      <4>2. q.list # p.model
        BY <3>3, BuilderAssumption, Zenon
      <4>3. k = <<<<q.group, q.version, q.resource>>, q.model>>
        BY <3>7, <4>1, <4>2 DEF KnownTypes
      <4>4. q.model = p.model
        BY Zenon, <3>7, <4>3
      <4>5. GVR(q, "") = GVR(g, "")
        BY <3>3, <4>4, BuilderAssumption, Zenon
      <4> QED
        BY ZenonT(40), <3>5, <4>3, <4>5
    <3> QED
      BY Zenon, <3>6, <3>7 DEF p
  <2> QED
    BY <2>1, <2>2
<1> QED
  BY <1>1, Invariant, PTL
=============================================================================
