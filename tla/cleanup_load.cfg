SPECIFICATION Spec
CONSTANTS
  None = None
  Fallible = {}
  MaxFaults = 0
  Threads = {t1}
  Names = {a, b}
  Instances = {i1}
  Uids = {u1}
  Ops = {"register", "bind"}
  Endpoints = {TRUE}
  NodeTtl = 1
  RefreshInTime = FALSE
  MayStop = {}
  MaxCrashes = 0
INVARIANTS CleanupDropsLoad
