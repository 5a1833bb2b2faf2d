CONSTANTS
  Worker = {w1}
  NoWorker = NoWorker
  Task = {t1, t2}
  Requests = {"start", "stop", "status"}
  MaxWorkers = 1
  Exits = {"openvpn", "socks", "killed"}
  MaxLeaked = 3
  MaxIndex = 3
  Wrap = 8
SPECIFICATION FairSpec
PROPERTIES
  RequestsEnd
  ShutdownCompletes
CHECK_DEADLOCK FALSE
