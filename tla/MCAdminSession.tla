---------------------------- MODULE MCAdminSession ----------------------------
(***************************************************************************)
(* Small instances of AdminSession for TLC.                                *)
(***************************************************************************)
EXTENDS AdminSession, TLC

\* The workers are interchangeable.
Symmetry == Permutations(Workers)
=============================================================================
