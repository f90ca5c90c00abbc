SPECIFICATION ServiceSpec
CONSTANTS
  None = None
  Fallible = {"get", "sRem", "expire", "sCard"}
  MaxFaults = 1
  Threads = {t1, t2}
  Names = {1, 2}
  Instances = {i1}
  Uids = {u1, u2}
  Ops = {"bind", "unbind", "refresh"}
  Endpoints = {TRUE}
  NodeTtl = 1
  RefreshInTime = FALSE
  MayStop = {}
  MaxCrashes = 0
  Workers = {w1}
  ChatNodes = {1, 2}
  Handlers = {"login", "logout", "unbind", "online"}
  MaxCalls = 2
SYMMETRY Symmetry
INVARIANTS ServiceTypeOK SelectionFresh RouteIndexed NoCallWaits
