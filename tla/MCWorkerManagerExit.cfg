CONSTANTS
  Worker = {w1}
  NoWorker = NoWorker
  Task = {t1}
  Requests = {"start", "stop"}
  MaxWorkers = 1
  Exits = {"openvpn"}
  MaxLeaked = 1
  MaxIndex = 2
  Wrap = 8
SPECIFICATION Spec
INVARIANTS
  CleansEveryOwnedWorker
CHECK_DEADLOCK FALSE
