CONSTANTS
  Clients = {u1}
  Kinds = {"search"}
  Workers = {w1, w2, w3}
  Window = 2
  Limit = 2
  CaptchaTTL = 2
  MaxDelay = 2
  MaxTime = 5
  MaxCount = 3
  MaxCaptchas = 0
  MaxUpdates = 0
SPECIFICATION Spec
SYMMETRY Symmetry
INVARIANTS
  WindowLimit
