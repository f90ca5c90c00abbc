SPECIFICATION FairSpec
CONSTANTS
  None = None
  Fallible = {"hSet", "hDel", "hGetAll", "sMembers", "del", "setEx", "sAdd", "sRem", "get", "expire"}
  MaxFaults = 1
  Threads = {t1}
  Names = {a, b}
  Instances = {i1, i2}
  Uids = {u1}
  Ops = {"register", "heartbeat", "unregister", "bind", "unbind", "refresh"}
  Endpoints = {TRUE}
  NodeTtl = 1
  RefreshInTime = FALSE
  MayStop = {a}
  MaxCrashes = 1
PROPERTIES LeaseSpec StoppedNodeForgotten
