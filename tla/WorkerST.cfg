CONSTANTS
  Mode = "SingleThreaded"
  MaxFibers = 2
  Tasks = {t1, t2}
  MainTask = t1
  ShutdownTask = stop
  NoTask = none
  SameThread = {}
  RawTasks = {t2}
  Periodic = {}
  Clients = {c1, c2}
  MaxWaits = 2
  MaxSpurious = 1
  MaxTime = 2
SPECIFICATION Spec
SYMMETRY ClientSymmetry
INVARIANTS SwitchTargets BlockedCounted
