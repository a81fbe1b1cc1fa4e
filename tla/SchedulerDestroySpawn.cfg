CONSTANTS
  N = 2
  Threads = {th1}
  Tasks = {t1, t2}
  Children = {t2}
  Flagged = {}
  StopTask = stop
  NoTask = none
  Wrap = 4
SPECIFICATION Spec
INVARIANTS AllTasksComplete
