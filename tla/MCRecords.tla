------------------------------- MODULE MCRecords -------------------------------
(* Instances of Records for TLC. *)
EXTENDS Records

CONSTANTS s1, r1, r2

QualifierThenFinal == <<r1, r2>>

SourceOf(n, r) ==
  [sbd |-> s1, cells |-> [name |-> n, dob |-> "a", phone |-> "a", result |-> r]]

\* A file whose row has no SBD, one with a row, one that names the student twice.
Files ==
  {<<[SourceOf("a", "a") EXCEPT !.sbd = NoSbd]>>,
   <<SourceOf("a", "b")>>,
   <<SourceOf("b", "a"), SourceOf("a", "a")>>}

Symmetry == Permutations(Workers)
=============================================================================
