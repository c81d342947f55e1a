------------------------- MODULE MCInformerFactory -------------------------
(***************************************************************************)
(* An instance of InformerFactory for TLC.                                 *)
(***************************************************************************)
EXTENDS InformerFactory
=============================================================================
