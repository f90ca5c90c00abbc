SPECIFICATION Spec
CONSTANTS
  None = None
  Threads = {h1, w1, "main"}
  Modules = {"grpc"}
  Handlers = {h1}
  Endpoints = {e1}
  Workers = {w1}
  MayLack = {}
  MayFail = {}
  MayHang = {}
  MaxCalls = 2
INVARIANT EndsCleanly
CHECK_DEADLOCK FALSE
