CONSTANTS
  Node = {1, 2}
  Worker = {w1, w2}
  NoWorker = NoWorker
  Client = {c1}
  Policy = {FALSE}
  Writer = {"refresh"}
SPECIFICATION Spec
PROPERTIES
  DisconnectStopsWorker
