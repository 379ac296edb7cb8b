---------------------------- MODULE MCPublicPortal ----------------------------
(***************************************************************************)
(* Small instances of PublicPortal for TLC.                                *)
(***************************************************************************)
EXTENDS PublicPortal, TLC

\* The workers are interchangeable.
Symmetry == Permutations(Workers)
=============================================================================
