CONSTANTS
  Mode = "MultiThreaded"
  MaxFibers = 2
  Tasks = {t1, t2}
  MainTask = t1
  ShutdownTask = stop
  NoTask = none
  SameThread = {t2}
  RawTasks = {}
  Periodic = {}
  Clients = {c1}
  MaxWaits = 1
  MaxSpurious = 0
  MaxTime = 1
SPECIFICATION FairSpec
PROPERTIES ExpiredFiberWakes SignalledTaskResumes StopCompletes ImplementsTaskQueue
