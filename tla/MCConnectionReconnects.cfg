CONSTANTS
  Node = {1}
  Worker = {w1, w2}
  NoWorker = NoWorker
  Client = {}
  Policy = {TRUE, FALSE}
  Writer = {"refresh", "test"}
SPECIFICATION AutoFairSpec
PROPERTIES
  AutoReconnects
