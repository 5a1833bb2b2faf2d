CONSTANTS
  Worker = {w1, w2, w3, w4, w5}
  NoWorker = NoWorker
  Task = {t1, t2, t3}
  NoTask = NoTask
  Switcher = actor
  Tester = {p1, p2}
  MaxDraining = 2
  MaxManaged = 64
  MaxLost = 1
SPECIFICATION Spec
SYMMETRY Symmetry
INVARIANTS
  NoSilentLeak
PROPERTIES
  RoomForEveryone
