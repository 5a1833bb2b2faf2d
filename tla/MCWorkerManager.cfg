CONSTANTS
  Worker = {w1, w2}
  NoWorker = NoWorker
  Task = {t1, t2}
  Requests = {"start", "stop"}
  MaxWorkers = 2
  Exits = {"openvpn", "killed"}
  MaxLeaked = 1
  MaxIndex = 4
  Wrap = 8
SPECIFICATION Spec
SYMMETRY Symmetry
INVARIANTS
  TypeOK
  LeaseExclusive
  WorkerIntact
  FreeIndexClean
  ShutdownLeavesNothing
PROPERTIES
  ImplementsAdmission
CHECK_DEADLOCK FALSE
