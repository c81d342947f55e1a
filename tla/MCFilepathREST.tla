--------------------------- MODULE MCFilepathREST ---------------------------
(***************************************************************************)
(* Instances of FilepathREST for TLC: the bodies of requests are taken     *)
(* from small sets that each configuration names.                          *)
(***************************************************************************)
EXTENDS StoreRefinement, TLC

CONSTANTS s1, s2, t1, t2, f1

MCSpecs == {s1, s2}
MCStatuses == {t1, t2}
MCFinalizers == {f1}

Plain == [spec |-> s1, status |-> t1, finalizers |-> {}]
Guarded == [spec |-> s1, status |-> t1, finalizers |-> {f1}]

Put(draft) == [put |-> TRUE, force |-> FALSE, fields |-> Fields, draft |-> draft,
               sub |-> "main"]

Patch(field, draft) == [put |-> FALSE, force |-> FALSE, fields |-> {field},
                        draft |-> draft, sub |-> "main"]

Status(change) == [change EXCEPT !.sub = "status"]

Apply(change) == [change EXCEPT !.force = TRUE]

(* A PUT of another spec that has the finalizer, a PUT of the status, and an apply,
   which names no version, that takes the finalizer off. *)
PutGuarded == Put([spec |-> s2, status |-> t1, finalizers |-> {f1}])
PutStatus == Status(Put([spec |-> s2, status |-> t2, finalizers |-> {}]))
ApplyDrain == Apply(Patch("finalizers", Plain))

Symmetry == Permutations(Requests) \cup Permutations(Keys)
Everything == {MCSpecs}
BothDrafts == {Plain, Guarded}
AllDirs == {Keys}
AllChanges == {PutGuarded, PutStatus, ApplyDrain}
=============================================================================
