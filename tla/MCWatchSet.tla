----------------------------- MODULE MCWatchSet -----------------------------
(***************************************************************************)
(* Instances of WatchSet: the first watch is of everything, the others of  *)
(* some objects only.                                                      *)
(***************************************************************************)
EXTENDS WatchSet, TLC

CONSTANTS w1, w2, w3, n1, n2, n3

MCEvents == Writers

(* The other watches are of the namespace of n1 and n3, and select n1 and n2. *)
MCSelects == [w \in Watches |-> IF w = w1 THEN Writers ELSE Writers \cap {n1, n2}]

MCInDir == [w \in Watches |-> IF w = w1 THEN Writers ELSE Writers \cap {n1, n3}]

AllStart == {}
ThirdFails == Watches \cap {w3}
=============================================================================
