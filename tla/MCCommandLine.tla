----------------------------- MODULE MCCommandLine -----------------------------
(* Instances of CommandLine for TLC. *)
EXTENDS CommandLine, TLC

CONSTANTS s1, s2, s3, s4, p1, p2

\* Three students share a phone, written in three ways; one has none.
Phones ==
  s1 :> [form |-> "domestic", of |-> p1] @@ s2 :> [form |-> "float", of |-> p1]
    @@ s3 :> [form |-> "international", of |-> p1] @@ s4 :> [form |-> "none", of |-> "nobody"]
Moved == {<<s1, [form |-> "domestic", of |-> p2]>>}

Symmetry == Permutations(Threads) \cup Permutations(Runs)
=============================================================================
