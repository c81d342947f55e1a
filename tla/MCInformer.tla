----------------------------- MODULE MCInformer -----------------------------
(***************************************************************************)
(* Instances of Informer for TLC.                                          *)
(***************************************************************************)
EXTENDS Informer, TLC

CONSTANTS s1, s2, t1, f1

MCSpecs == {s1, s2}
Plain == [spec |-> s1, status |-> t1, finalizers |-> {}]
Guarded == [Plain EXCEPT !.finalizers = {f1}]

PatchSpec == [put |-> FALSE, force |-> FALSE, fields |-> {"spec"},
              draft |-> [Plain EXCEPT !.spec = s2], sub |-> "main"]
PatchDrain == [PatchSpec EXCEPT !.fields = {"finalizers"}]

OneDraft == {Plain}
SpecOrDrain == {PatchSpec, PatchDrain}
AllDirs == {Keys}
Everything == {MCSpecs}

(* A Create has been answered before the informer begins: what the store is after
   it, as one request more than the instance has would leave it. *)
Created(k, draft) ==
  LET data == FillObjectMetaSystemFields(draft, 1)
      obj  == [version |-> 2, data |-> data]
  IN  /\ files = [j \in Keys |-> IF j = k THEN obj ELSE ErrNotExist]
      /\ rev = 2 /\ uids = 1
      /\ events = {[type |-> Added, key |-> k, obj |-> obj]}
      /\ history = {[key |-> k, base |-> 0, version |-> 2, data |-> data, sent |-> 0,
                     via |-> "create"]}
      /\ removals = {} /\ reported = {}
      /\ pc = [r \in Requests |-> "idle"]
      /\ arg = [r \in Requests |-> Nil]
      /\ out = [r \in Requests |-> Nil]
      /\ tries = [r \in Requests |-> 0]
      /\ todo = [r \in Requests |-> {}]
      /\ born = [r \in Requests |-> 0]

SeededSpec ==
  /\ SystemInit \/ (Unwatched /\ \E k \in Keys, d \in {Plain, Guarded} : Created(k, d))
  /\ [][SystemNext]_systemVars

RequestSymmetry == Permutations(Requests) \cup Permutations(Watches)
=============================================================================
