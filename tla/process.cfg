SPECIFICATION Spec
CONSTANTS
  None = None
  Threads = {h1, h2, w1, w2, "main"}
  Modules = {"grpc", "registry"}
  Handlers = {h1, h2}
  Endpoints = {e1}
  Workers = {w1, w2}
  MayLack = {"Redis", "StatusServer", "GateServer"}
  MayFail = {"dir", "port"}
  MayHang = {w1}
  MaxCalls = 3
INVARIANTS TypeOK ConnectsOnce ServiceOutlivesCalls NothingDropped
PROPERTIES LinesKept SignalEnds
CHECK_DEADLOCK FALSE
