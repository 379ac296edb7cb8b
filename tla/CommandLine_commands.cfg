CONSTANTS
  Threads = {t1, t2}
  Tokens = {captcha}
  Counters = {window}
  TTLs = {0, 2}
  MaxTime = 2
  MaxCalls = 4
  RestCalls = 3
  Runs = {r1, r2}
  Scaffold = {config, env}
  s1 = s1
  s2 = s2
  s3 = s3
  s4 = s4
  p1 = p1
  p2 = p2
  Students = {s1, s2, s3, s4}
  Subscribers = {p1, p2}
  Codes = {c1, c2}
  Forms = {"domestic", "float", "international"}
  Directory <- Phones
  Corrections <- Moved
  MaxRows = 2
SPECIFICATION CliSpec
SYMMETRY Symmetry
CHECK_DEADLOCK FALSE
INVARIANTS
  StoreAnswers
  WindowsEnd
  NothingHalfDone
  RowsMatchReference
  StatsAddUp
PROPERTIES
  ImplementsKV
  WindowStands
  FilesStay
