CONSTANTS
  Admins = {a1}
  Passwords = {p1}
  NoAccount = NoAccount
  NoPassword = NoPassword
  Codes = {c1}
  Modes = {"password"}
  Workers = {w1, w2}
  Rate = 2
  TokenTTL = 2
  CodeTTL = 1
  MaxTime = 6
  MaxTokens = 1
  MaxChallenges = 1
SPECIFICATION Spec
SYMMETRY Symmetry
INVARIANTS
  LoggedOutIsDead
PROPERTIES
  RevokedStaysOut
