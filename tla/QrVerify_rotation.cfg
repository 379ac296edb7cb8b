CONSTANTS
  Workers = {w1, w2}
  Slug = Slug
  Other = Other
  AgeLimits = {0, 2}
  Tolerance = 2
  MaxSkew = 1
  MaxTime = 5
  MaxKeys = 2
  MaxCerts = 1
SPECIFICATION Spec
SYMMETRY Symmetry
INVARIANTS
  TypeOK
  FreshVerifies
  ValidMeansGenuine
  PairAgrees
