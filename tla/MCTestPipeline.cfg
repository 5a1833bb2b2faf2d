CONSTANTS
  Node = {1, 2}
  Op = {o1, o2, o3, o4, o5}
  NoOp = NoOp
  AnyId = TRUE
  QueueCapacity = 1
  MaxParallel = 2
  HistoryLimit = 1
  Snapshots = {{1}, {1, 2}}
  Asked = {2}
  Events = {"unreadable"}
SPECIFICATION Spec
SYMMETRY Symmetry
INVARIANTS
  OneTestPerNode
  CountersAgree
  OperationsVisible
