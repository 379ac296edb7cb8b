CONSTANTS
  s1 = s1
  s2 = s2
  r1 = r1
  NoCode = NoCode
  Students = {s1}
  Rounds = {r1}
  RoundOf <- OneRound
  Workers = {w1, w2}
  Codes = {c1, c2}
  MaxDrafts = 3
  MaxBatches = 2
SPECIFICATION Spec
SYMMETRY Symmetry
INVARIANTS
  TypeOK
  ExportedIsInItsFile
  DeliveredIsAudited
  ImportNeverConflicts
PROPERTIES
  OnlyStaleExportReopens
