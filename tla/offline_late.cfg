SPECIFICATION ServiceSpec
CONSTANTS
  None = None
  Fallible = {}
  MaxFaults = 0
  Threads = {t1}
  Names = {1, 2}
  Instances = {i1}
  Uids = {1}
  Ops = {"bind", "unbind"}
  Endpoints = {TRUE}
  NodeTtl = 1
  RefreshInTime = FALSE
  MayStop = {}
  MaxCrashes = 0
  Workers = {w1, w2}
  ChatNodes = {1, 2}
  Handlers = {"login"}
  MaxCalls = 2
INVARIANTS OfflineEndsOldOnly
