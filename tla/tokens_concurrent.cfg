SPECIFICATION FairSpec
CONSTANTS
  None = None
  Fallible = {"get", "setEx", "del", "expire", "hSet"}
  MaxFaults = 1
  Threads = {t1, t2}
  Uids = {u1}
  Tokens = {k1, k2}
  Ops = {"login", "clear", "refresh", "file", "unfile"}
  TokenTtl = 2
  FileTtl = 1
  MaxCrashes = 1
INVARIANTS TypeOK MortalUntilCrash
PROPERTIES NoRevival TokensExpire
