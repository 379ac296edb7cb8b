CONSTANTS
  s1 = s1
  s2 = s2
  r1 = r1
  NoCode = NoCode
  Students = {s1}
  Rounds = {r1}
  RoundOf <- OneRound
  Workers = {w1}
  Codes = {c1}
  MaxDrafts = 2
  MaxBatches = 1
SPECIFICATION Spec
INVARIANTS
  CancelNeverConflicts
