--------------------------- MODULE MCShipmentDraft ---------------------------
(***************************************************************************)
(* Small instances of ShipmentDraft for TLC.                               *)
(***************************************************************************)
EXTENDS ShipmentDraft, TLC

CONSTANTS s1, s2, r1

OneRound == [s \in Students |-> r1]

\* The students of one round, the workers and the codes are interchangeable.
Symmetry == Permutations({s1, s2}) \cup Permutations(Workers) \cup Permutations(Codes)
=============================================================================
