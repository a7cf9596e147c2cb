---------------------------- MODULE MCAllocator ----------------------------
(***************************************************************************)
(* Model-checking instances of Allocator: words of two bits, so that five  *)
(* blocks have three bitmap levels and a last word that is not full.       *)
(***************************************************************************)
EXTENDS Allocator, TLC
=============================================================================
