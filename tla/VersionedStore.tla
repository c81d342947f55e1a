--------------------------- MODULE VersionedStore ---------------------------
(***************************************************************************)
(* What the handlers promise of the store, with all their steps left out:  *)
(* objects are created, replaced and removed, one object at a time and in  *)
(* one step.  Each write takes the next version.  A created object has a   *)
(* UID that no object had before it.  A replacement starts from the object *)
(* that is there: it keeps the UID, changes the status or the rest and not *)
(* both, and once deletion has begun can only drop finalizers.             *)
(***************************************************************************)
EXTENDS Objects

VARIABLES
  store,   \* the object of each key
  clock,   \* the last version
  used     \* the UIDs of all objects so far

Init ==
  /\ store = [k \in Keys |-> ErrNotExist]
  /\ clock = 1
  /\ used = {}

Put(k, o) ==
  /\ clock' = clock + 1
  /\ store' = [store EXCEPT ![k] = [version |-> clock + 1, data |-> o]]

Create(k, o) ==
  /\ store[k] = ErrNotExist
  /\ o.uid \notin used
  /\ ~o.deleting
  /\ Put(k, o)
  /\ used' = used \cup {o.uid}

MayReplace(old, o) ==
  /\ o # old
  /\ o.uid = old.uid
  /\ o.status = old.status \/ (o.spec = old.spec /\ o.finalizers = old.finalizers)
  /\ old.deleting => o.deleting /\ o.finalizers \subseteq old.finalizers

Replace(k, o) ==
  /\ store[k] # ErrNotExist
  /\ MayReplace(store[k].data, o)
  /\ Put(k, o)
  /\ UNCHANGED used

Remove(k) ==
  /\ store[k] # ErrNotExist
  /\ store' = [store EXCEPT ![k] = ErrNotExist]
  /\ UNCHANGED <<clock, used>>

(* The object that is written is the one that is there afterwards. *)
Next ==
  \E k \in Keys :
    \/ Remove(k)
    \/ /\ store'[k] # ErrNotExist
       /\ Create(k, store'[k].data) \/ Replace(k, store'[k].data)

Spec == Init /\ [][Next]_<<store, clock, used>>
=============================================================================
