CONSTANTS
  Admins = {a1}
  Passwords = {p1}
  NoAccount = NoAccount
  NoPassword = NoPassword
  Codes = {c1, c2}
  Modes = {"otp_email", "magic_link"}
  Workers = {w1, w2}
  Rate = 1
  TokenTTL = 1
  CodeTTL = 1
  MaxTime = 1
  MaxTokens = 2
  MaxChallenges = 2
SPECIFICATION Spec
SYMMETRY Symmetry
INVARIANTS
  OneSessionPerChallenge
