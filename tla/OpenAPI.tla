------------------------------ MODULE OpenAPI ------------------------------
(***************************************************************************)
(* The generated OpenAPI definitions, and how the server builds a document *)
(* from them.  Of a schema the model keeps what the document is built      *)
(* along: the models its fields refer to, and the Dependencies that the    *)
(* generator lists beside it.  A model is named by its Go type.            *)
(***************************************************************************)
EXTENDS Integers, FiniteSets, TLC

(* common.OpenAPIDefinition: the references inside of Schema, and Dependencies. *)
Definition(refs, dependencies) == [refs |-> refs, dependencies |-> dependencies]

(* A schema of plain values only. *)
Leaf == Definition({}, {})

-----------------------------------------------------------------------------
(* A faulty variant: the generator's list misses the entries of managedFields. *)
ObjectMetaUnlisted ==
  Definition({"v1.ManagedFieldsEntry", "v1.OwnerReference", "v1.Time"},
             {"v1.OwnerReference", "v1.Time"})

schema_pkg_apis_core_v1alpha1_Manifest ==
  Definition({"v1.ObjectMeta", "v1alpha1.ManifestSpec", "v1alpha1.ManifestStatus"},
             {"v1.ObjectMeta", "v1alpha1.ManifestSpec", "v1alpha1.ManifestStatus"})
schema_pkg_apis_core_v1alpha1_ManifestList ==
  Definition({"v1.ListMeta", "v1alpha1.Manifest"}, {"v1.ListMeta", "v1alpha1.Manifest"})
schema_pkg_apis_meta_v1_APIGroup ==
  Definition({"v1.GroupVersionForDiscovery", "v1.ServerAddressByClientCIDR"},
             {"v1.GroupVersionForDiscovery", "v1.ServerAddressByClientCIDR"})
schema_pkg_apis_meta_v1_APIGroupList == Definition({"v1.APIGroup"}, {"v1.APIGroup"})
schema_pkg_apis_meta_v1_APIResourceList ==
  Definition({"v1.APIResource"}, {"v1.APIResource"})
schema_pkg_apis_meta_v1_APIVersions ==
  Definition({"v1.ServerAddressByClientCIDR"}, {"v1.ServerAddressByClientCIDR"})
schema_pkg_apis_meta_v1_Condition == Definition({"v1.Time"}, {"v1.Time"})
schema_pkg_apis_meta_v1_DeleteOptions ==
  Definition({"v1.Preconditions"}, {"v1.Preconditions"})
schema_pkg_apis_meta_v1_LabelSelector ==
  Definition({"v1.LabelSelectorRequirement"}, {"v1.LabelSelectorRequirement"})
schema_pkg_apis_meta_v1_List ==
  Definition({"runtime.RawExtension", "v1.ListMeta"},
             {"runtime.RawExtension", "v1.ListMeta"})
schema_pkg_apis_meta_v1_ManagedFieldsEntry ==
  Definition({"v1.FieldsV1", "v1.Time"}, {"v1.FieldsV1", "v1.Time"})
schema_pkg_apis_meta_v1_ObjectMeta ==
  Definition({"v1.ManagedFieldsEntry", "v1.OwnerReference", "v1.Time"},
             {"v1.ManagedFieldsEntry", "v1.OwnerReference", "v1.Time"})
schema_pkg_apis_meta_v1_PartialObjectMetadata ==
  Definition({"v1.ObjectMeta"}, {"v1.ObjectMeta"})
schema_pkg_apis_meta_v1_PartialObjectMetadataList ==
  Definition({"v1.ListMeta", "v1.PartialObjectMetadata"},
             {"v1.ListMeta", "v1.PartialObjectMetadata"})
schema_pkg_apis_meta_v1_Status ==
  Definition({"v1.ListMeta", "v1.StatusDetails"}, {"v1.ListMeta", "v1.StatusDetails"})
schema_pkg_apis_meta_v1_StatusDetails ==
  Definition({"v1.StatusCause"}, {"v1.StatusCause"})
schema_pkg_apis_meta_v1_Table ==
  Definition({"v1.ListMeta", "v1.TableColumnDefinition", "v1.TableRow"},
             {"v1.ListMeta", "v1.TableColumnDefinition", "v1.TableRow"})
schema_pkg_apis_meta_v1_TableRow ==
  Definition({"runtime.RawExtension", "v1.TableRowCondition"},
             {"runtime.RawExtension", "v1.TableRowCondition"})
schema_pkg_apis_meta_v1_WatchEvent ==
  Definition({"runtime.RawExtension"}, {"runtime.RawExtension"})

schema_pkg_apis_core_v1alpha1_ManifestSpec == Leaf
schema_pkg_apis_core_v1alpha1_ManifestStatus == Leaf
schema_apimachinery_pkg_api_resource_Quantity == Leaf
schema_pkg_apis_meta_v1_APIResource == Leaf
schema_pkg_apis_meta_v1_ApplyOptions == Leaf
schema_pkg_apis_meta_v1_CreateOptions == Leaf
schema_pkg_apis_meta_v1_Duration == Leaf
schema_pkg_apis_meta_v1_FieldSelectorRequirement == Leaf
schema_pkg_apis_meta_v1_FieldsV1 == Leaf
schema_pkg_apis_meta_v1_GetOptions == Leaf
schema_pkg_apis_meta_v1_GroupKind == Leaf
schema_pkg_apis_meta_v1_GroupResource == Leaf
schema_pkg_apis_meta_v1_GroupVersion == Leaf
schema_pkg_apis_meta_v1_GroupVersionForDiscovery == Leaf
schema_pkg_apis_meta_v1_GroupVersionKind == Leaf
schema_pkg_apis_meta_v1_GroupVersionResource == Leaf
schema_pkg_apis_meta_v1_InternalEvent == Leaf
schema_pkg_apis_meta_v1_LabelSelectorRequirement == Leaf
schema_pkg_apis_meta_v1_ListMeta == Leaf
schema_pkg_apis_meta_v1_ListOptions == Leaf
schema_pkg_apis_meta_v1_MicroTime == Leaf
schema_pkg_apis_meta_v1_OwnerReference == Leaf
schema_pkg_apis_meta_v1_Patch == Leaf
schema_pkg_apis_meta_v1_PatchOptions == Leaf
schema_pkg_apis_meta_v1_Preconditions == Leaf
schema_pkg_apis_meta_v1_RootPaths == Leaf
schema_pkg_apis_meta_v1_ServerAddressByClientCIDR == Leaf
schema_pkg_apis_meta_v1_StatusCause == Leaf
schema_pkg_apis_meta_v1_TableColumnDefinition == Leaf
schema_pkg_apis_meta_v1_TableOptions == Leaf
schema_pkg_apis_meta_v1_TableRowCondition == Leaf
schema_pkg_apis_meta_v1_Time == Leaf
schema_pkg_apis_meta_v1_Timestamp == Leaf
schema_pkg_apis_meta_v1_TypeMeta == Leaf
schema_pkg_apis_meta_v1_UpdateOptions == Leaf
schema_k8sio_apimachinery_pkg_runtime_RawExtension == Leaf
schema_k8sio_apimachinery_pkg_runtime_TypeMeta == Leaf
schema_k8sio_apimachinery_pkg_runtime_Unknown == Leaf
schema_k8sio_apimachinery_pkg_version_Info == Leaf

GetOpenAPIDefinitions ==
  "v1alpha1.Manifest" :> schema_pkg_apis_core_v1alpha1_Manifest @@
  "v1alpha1.ManifestList" :> schema_pkg_apis_core_v1alpha1_ManifestList @@
  "v1alpha1.ManifestSpec" :> schema_pkg_apis_core_v1alpha1_ManifestSpec @@
  "v1alpha1.ManifestStatus" :> schema_pkg_apis_core_v1alpha1_ManifestStatus @@
  "resource.Quantity" :> schema_apimachinery_pkg_api_resource_Quantity @@
  "v1.APIGroup" :> schema_pkg_apis_meta_v1_APIGroup @@
  "v1.APIGroupList" :> schema_pkg_apis_meta_v1_APIGroupList @@
  "v1.APIResource" :> schema_pkg_apis_meta_v1_APIResource @@
  "v1.APIResourceList" :> schema_pkg_apis_meta_v1_APIResourceList @@
  "v1.APIVersions" :> schema_pkg_apis_meta_v1_APIVersions @@
  "v1.ApplyOptions" :> schema_pkg_apis_meta_v1_ApplyOptions @@
  "v1.Condition" :> schema_pkg_apis_meta_v1_Condition @@
  "v1.CreateOptions" :> schema_pkg_apis_meta_v1_CreateOptions @@
  "v1.DeleteOptions" :> schema_pkg_apis_meta_v1_DeleteOptions @@
  "v1.Duration" :> schema_pkg_apis_meta_v1_Duration @@
  "v1.FieldSelectorRequirement" :> schema_pkg_apis_meta_v1_FieldSelectorRequirement @@
  "v1.FieldsV1" :> schema_pkg_apis_meta_v1_FieldsV1 @@
  "v1.GetOptions" :> schema_pkg_apis_meta_v1_GetOptions @@
  "v1.GroupKind" :> schema_pkg_apis_meta_v1_GroupKind @@
  "v1.GroupResource" :> schema_pkg_apis_meta_v1_GroupResource @@
  "v1.GroupVersion" :> schema_pkg_apis_meta_v1_GroupVersion @@
  "v1.GroupVersionForDiscovery" :> schema_pkg_apis_meta_v1_GroupVersionForDiscovery @@
  "v1.GroupVersionKind" :> schema_pkg_apis_meta_v1_GroupVersionKind @@
  "v1.GroupVersionResource" :> schema_pkg_apis_meta_v1_GroupVersionResource @@
  "v1.InternalEvent" :> schema_pkg_apis_meta_v1_InternalEvent @@
  "v1.LabelSelector" :> schema_pkg_apis_meta_v1_LabelSelector @@
  "v1.LabelSelectorRequirement" :> schema_pkg_apis_meta_v1_LabelSelectorRequirement @@
  "v1.List" :> schema_pkg_apis_meta_v1_List @@
  "v1.ListMeta" :> schema_pkg_apis_meta_v1_ListMeta @@
  "v1.ListOptions" :> schema_pkg_apis_meta_v1_ListOptions @@
  "v1.ManagedFieldsEntry" :> schema_pkg_apis_meta_v1_ManagedFieldsEntry @@
  "v1.MicroTime" :> schema_pkg_apis_meta_v1_MicroTime @@
  "v1.ObjectMeta" :> schema_pkg_apis_meta_v1_ObjectMeta @@
  "v1.OwnerReference" :> schema_pkg_apis_meta_v1_OwnerReference @@
  "v1.PartialObjectMetadata" :> schema_pkg_apis_meta_v1_PartialObjectMetadata @@
  "v1.PartialObjectMetadataList" :> schema_pkg_apis_meta_v1_PartialObjectMetadataList @@
  "v1.Patch" :> schema_pkg_apis_meta_v1_Patch @@
  "v1.PatchOptions" :> schema_pkg_apis_meta_v1_PatchOptions @@
  "v1.Preconditions" :> schema_pkg_apis_meta_v1_Preconditions @@
  "v1.RootPaths" :> schema_pkg_apis_meta_v1_RootPaths @@
  "v1.ServerAddressByClientCIDR" :> schema_pkg_apis_meta_v1_ServerAddressByClientCIDR @@
  "v1.Status" :> schema_pkg_apis_meta_v1_Status @@
  "v1.StatusCause" :> schema_pkg_apis_meta_v1_StatusCause @@
  "v1.StatusDetails" :> schema_pkg_apis_meta_v1_StatusDetails @@
  "v1.Table" :> schema_pkg_apis_meta_v1_Table @@
  "v1.TableColumnDefinition" :> schema_pkg_apis_meta_v1_TableColumnDefinition @@
  "v1.TableOptions" :> schema_pkg_apis_meta_v1_TableOptions @@
  "v1.TableRow" :> schema_pkg_apis_meta_v1_TableRow @@
  "v1.TableRowCondition" :> schema_pkg_apis_meta_v1_TableRowCondition @@
  "v1.Time" :> schema_pkg_apis_meta_v1_Time @@
  "v1.Timestamp" :> schema_pkg_apis_meta_v1_Timestamp @@
  "v1.TypeMeta" :> schema_pkg_apis_meta_v1_TypeMeta @@
  "v1.UpdateOptions" :> schema_pkg_apis_meta_v1_UpdateOptions @@
  "v1.WatchEvent" :> schema_pkg_apis_meta_v1_WatchEvent @@
  "runtime.RawExtension" :> schema_k8sio_apimachinery_pkg_runtime_RawExtension @@
  "runtime.TypeMeta" :> schema_k8sio_apimachinery_pkg_runtime_TypeMeta @@
  "runtime.Unknown" :> schema_k8sio_apimachinery_pkg_runtime_Unknown @@
  "version.Info" :> schema_k8sio_apimachinery_pkg_version_Info

-----------------------------------------------------------------------------
(* The models that building some models adds to a document: those reached from them
   through the Dependencies, whether they are defined or not. *)
buildDefinitionRecursively(definitions, models) ==
  LET dependencies(m) == IF m \in DOMAIN definitions THEN definitions[m].dependencies ELSE {}
      added[reached \in SUBSET STRING] ==
        LET next == reached \cup UNION {dependencies(m) : m \in reached}
        IN  IF next = reached THEN reached ELSE added[next]
  IN  added[models]

(* A document over definitions has everything that its own models refer to. *)
Closed(definitions, document) ==
  \A m \in document : m \in DOMAIN definitions /\ definitions[m].refs \subseteq document
=============================================================================
