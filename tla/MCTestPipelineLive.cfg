CONSTANTS
  Node = {1, 2}
  Op = {o1, o2, o3, o4}
  NoOp = NoOp
  AnyId = FALSE
  QueueCapacity = 1
  MaxParallel = 1
  HistoryLimit = 1
  Snapshots = {{1, 2}}
  Asked = {1}
  Events = {"age", "drop", "shutdown"}
SPECIFICATION FairSpec
PROPERTIES
  OperationsEnd
  AutomaticTestsEnd
  EveryNodeTested
