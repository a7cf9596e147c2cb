------------------------------ MODULE MCXattr -------------------------------
(***************************************************************************)
(* Model-checking instance of Xattr: a block holds ten units behind its    *)
(* header, two short names with empty values fill it exactly, and the      *)
(* longest values need continuation blocks.                                *)
(***************************************************************************)
EXTENDS Xattr, TLC

CONSTANTS i1, n1, n2, LongName

MCInos    == {i1}
MCNames   == {n1, n2}
MCNameLen == n1 :> 1 @@ n2 :> LongName
=============================================================================
