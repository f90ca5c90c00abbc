SPECIFICATION Spec
CONSTANTS
  None = None
  Fallible = {}
  MaxFaults = 0
  Threads = {t1, t2}
  Names = {a}
  Instances = {i1, i2}
  Uids = {u1}
  Ops = {"register"}
  Endpoints = {TRUE}
  NodeTtl = 1
  RefreshInTime = FALSE
  MayStop = {}
  MaxCrashes = 0
PROPERTIES NoTakeover
