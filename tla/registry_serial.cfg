SPECIFICATION Spec
CONSTANTS
  None = None
  Fallible = {}
  MaxFaults = 0
  Threads = {t1}
  Names = {a, b}
  Instances = {i1, None}
  Uids = {u1, u2}
  Ops = {"register", "heartbeat", "unregister", "bind", "unbind", "refresh"}
  Endpoints = {TRUE, FALSE}
  NodeTtl = 2
  RefreshInTime = TRUE
  MayStop = {}
  MaxCrashes = 0
SYMMETRY Symmetry
INVARIANTS TypeOK LoadExact UnregisterLeavesNoRoute
PROPERTIES RoutingSpec
