CONSTANTS
  N = 2
  Threads = {th1}
  Tasks = {t1, t2}
  Children = {}
  Flagged = {}
  StopTask = stop
  NoTask = none
  Wrap = 4
SPECIFICATION FairSpec
PROPERTIES ScheduledTasksRun EnqueueReturns DestructorReturns
