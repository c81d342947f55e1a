----------------------------- MODULE MCDiskREST -----------------------------
(***************************************************************************)
(* Instances of DiskREST for TLC.                                          *)
(***************************************************************************)
EXTENDS DiskREST, TLC

CONSTANTS k1, s0, s1, s2, t1, f1

MCSpecs == {s0, s1, s2}
MCStatuses == {t1}
MCFinalizers == {f1}

(* An object with no fields set; no request sends one. *)
MCZero == [spec |-> s0, status |-> t1, finalizers |-> {}]

Plain == [spec |-> s1, status |-> t1, finalizers |-> {}]
Guarded == [spec |-> s1, status |-> t1, finalizers |-> {f1}]

Put(draft) == [put |-> TRUE, force |-> FALSE, fields |-> Fields, draft |-> draft,
               sub |-> "main"]

Patch(field, draft) == [put |-> FALSE, force |-> FALSE, fields |-> {field},
                        draft |-> draft, sub |-> "main"]

PutOther == Put([Plain EXCEPT !.spec = s2])
ApplyDrain == [Patch("finalizers", Plain) EXCEPT !.force = TRUE]

BothDrafts == {Plain, Guarded}
PlainOnly == {Plain}
AllChanges == {PutOther, ApplyDrain}
PutOnly == {PutOther}

(* The namespace of k1, and one in which nothing was ever created. *)
MCNamespaces == {{k1}, {}}
SomeSelector == {{s1}}
=============================================================================
