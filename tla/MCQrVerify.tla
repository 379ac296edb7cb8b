------------------------------ MODULE MCQrVerify ------------------------------
(* Instances of QrVerify for TLC. *)
EXTENDS QrVerify, TLC

Symmetry == Permutations(Workers)
=============================================================================
