SPECIFICATION QSpec
CONSTANTS
  None = None
  Fallible = {"get", "hGet", "hGetAll", "setEx", "del", "expire", "hSet"}
  MaxFaults = 1
  Threads = {t1}
  Askers = {q1}
  Uids = {u1, u2}
  Tokens = {k1, k2}
  Ops = {"login", "clear", "refresh", "file", "unfile"}
  TokenTtl = 2
  FileTtl = 1
  MaxCrashes = 1
INVARIANTS TokenIndexed AnswersTrue QueriesAgree
SYMMETRY Symmetry
