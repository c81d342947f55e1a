-------------------------- MODULE StoreRefinement --------------------------
(***************************************************************************)
(* The handlers implement the store that VersionedStore describes: seen    *)
(* through the files, each step of a request is a whole creation,          *)
(* replacement or removal, or changes nothing.                             *)
(***************************************************************************)
EXTENDS FilepathREST

Abstract ==
  INSTANCE VersionedStore WITH
    store <- files, clock <- rev, used <- {w.data.uid : w \in history}

(* However the steps of Create, Update, Delete and DeleteCollection interleave, the
   store goes through a sequence of creations, replacements of the object that is
   there, and removals: no write puts a stale status beside a new spec or the other way
   round, no UID comes back, no deletion is taken back. *)
ImplementsStore == Abstract!Spec

(* An update removes its object only when two-phase deletion has nothing left to wait
   for: what it removes has no finalizer left and is being deleted, or is an object
   that took the name after another removal of the one the update had in hand, between
   the update's write and its Remove. *)
UpdateRemovesDrained ==
  \A m \in removals : m.via = "update" =>
    \/ Drained(m.obj.data)
    \/ \E n \in removals \ {m} : n.obj.data.uid = m.claimed.data.uid

(* Every object in the reply of DeleteCollection is gone: it was removed, if not by
   this request then by another. *)
ReportedAreGone == \A i \in reported : Removed(i.obj.data.uid)
=============================================================================
