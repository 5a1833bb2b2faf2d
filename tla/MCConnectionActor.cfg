CONSTANTS
  Node = {1, 2}
  Worker = {w1, w2, w3}
  NoWorker = NoWorker
  Client = {}
  Policy = {TRUE}
  Writer = {"refresh"}
SPECIFICATION Spec
SYMMETRY Symmetry
INVARIANTS
  StateMatchesRelay
  RelayWorkerKept
PROPERTIES
  ImplementsRelay
