---------------------------- MODULE MCNamespace ----------------------------
(***************************************************************************)
(* Instances of Namespace for TLC.                                         *)
(***************************************************************************)
EXTENDS Namespace

ASSUME Inos = 1..Cardinality(Inos)
=============================================================================
