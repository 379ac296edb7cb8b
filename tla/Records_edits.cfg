CONSTANTS
  s1 = s1
  r1 = r1
  r2 = r2
  Students = {s1}
  Rounds <- QualifierThenFinal
  Workers = {w1, w2}
  Texts = {"a", "b"}
  Results = {"a"}
  Fields = {"code", "address"}
  Statuses = {"sent"}
  Sources <- Files
  MaxRequests = 2
SPECIFICATION Spec
SYMMETRY Symmetry
INVARIANTS
  EditsStand
  TrailIsComplete
  PrintedRowIsOwners
