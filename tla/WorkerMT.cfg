CONSTANTS
  Mode = "MultiThreaded"
  MaxFibers = 2
  Tasks = {t1, t2}
  MainTask = t1
  ShutdownTask = stop
  NoTask = none
  SameThread = {t2}
  RawTasks = {}
  Periodic = {}
  Clients = {c1, c2}
  MaxWaits = 1
  MaxSpurious = 1
  MaxTime = 1
SPECIFICATION Spec
SYMMETRY ClientSymmetry
INVARIANTS
  TypeOK NumInSync WaitingInSync FiberStates TimeoutNotLost
  NoLostWork NoLostWakeup 
PROPERTIES CreateOnlyWhenAllBlocked
