-------------------------- MODULE MCEdgeForwarder ---------------------------
(***************************************************************************)
(* Instances of EdgeForwarder for TLC.                                     *)
(***************************************************************************)
EXTENDS EdgeForwarder

WholeOrPartial == BOOLEAN
=============================================================================
