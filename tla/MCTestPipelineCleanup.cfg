CONSTANTS
  Node = {1}
  Op = {o1, o2, o3}
  NoOp = NoOp
  AnyId = TRUE
  QueueCapacity = 1
  MaxParallel = 1
  HistoryLimit = 1
  Snapshots = {{}, {1}}
  Asked = {1}
  Events = {"age"}
SPECIFICATION Spec
SYMMETRY Symmetry
PROPERTIES
  CleanupRemovesOnlyOld
