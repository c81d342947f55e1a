----------------------------- MODULE MCBuilder -----------------------------
(***************************************************************************)
(* Instances of Builder for TLC.                                           *)
(***************************************************************************)
EXTENDS Builder

(* Another version of the same resource, converted to the first. *)
ManifestNext ==
  [Manifest EXCEPT !.version = "v1beta1", !.storage = FALSE, !.convertible = TRUE,
                   !.model = "v1beta1.Manifest", !.list = "v1beta1.ManifestList"]

(* Versions that the scheme does not take. *)
ManifestRival == [ManifestNext EXCEPT !.storage = TRUE]
ManifestRigid == [ManifestNext EXCEPT !.convertible = FALSE]

(* A resource without a status, but with a subresource of its own. *)
Session == [Manifest EXCEPT !.resource = "sessions", !.status = FALSE, !.generic = {"logs"},
                            !.model = "v1alpha1.Session", !.list = "v1alpha1.SessionList"]

(* A resource of another group, of which the generator was not told. *)
Metric == [Manifest EXCEPT !.group = "metrics", !.model = "v1.Metric", !.list = "v1.MetricList"]

AllResources == {Manifest, ManifestNext, ManifestRival, ManifestRigid, Session, Metric}

(* The definitions of this repository, and those that a server with more resources
   has generated for them. *)
ObjectDefinition == Definition({"v1.ObjectMeta"}, {"v1.ObjectMeta"})
ListDefinition(model) == Definition({"v1.ListMeta", model}, {"v1.ListMeta", model})

AllDefinitions ==
  GetOpenAPIDefinitions @@
  [m \in {"v1beta1.Manifest", "v1alpha1.Session"} |-> ObjectDefinition] @@
  "v1beta1.ManifestList" :> ListDefinition("v1beta1.Manifest") @@
  "v1alpha1.SessionList" :> ListDefinition("v1alpha1.Session")
=============================================================================
