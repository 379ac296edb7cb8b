CONSTANTS
  Clients = {u1}
  Kinds = {"search", "download", "shipment"}
  Workers = {w1, w2}
  Window = 2
  Limit = 2
  CaptchaTTL = 1
  MaxDelay = 2
  MaxTime = 1
  MaxCount = 2
  MaxCaptchas = 1
  MaxUpdates = 2
SPECIFICATION Spec
SYMMETRY Symmetry
INVARIANTS
  CaptchaAdmitsOnce
  QuotaNeedsCaptcha
  FreezeHolds
