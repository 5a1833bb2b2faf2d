CONSTANTS
  Node = {1}
  Worker = {w1, w2}
  NoWorker = NoWorker
  Client = {c1}
  Policy = {TRUE}
  Writer = {"refresh"}
SPECIFICATION FairSpec
INVARIANTS
  DisconnectHolds
  NoLostWakeup
PROPERTIES
  CallsAnswered
