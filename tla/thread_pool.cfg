SPECIFICATION Spec
CONSTANTS
  None = None
  Workers = {w1, w2}
  Clients = {c1, c2, c3}
  MaxTasks = 5
  MayHang = {2}
INVARIANTS WakeUpsSuffice
PROPERTIES QueueSpec EveryTaskEnds DestructorReturns
CHECK_DEADLOCK FALSE
