SPECIFICATION Spec
CONSTANTS
  None = None
  Fallible = {}
  MaxFaults = 0
  Threads = {t1}
  Uids = {u1}
  Tokens = {k1}
  Ops = {"login"}
  TokenTtl = 2
  FileTtl = 1
  MaxCrashes = 1
INVARIANTS TokensMortal
