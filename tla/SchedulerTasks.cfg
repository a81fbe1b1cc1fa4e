CONSTANTS
  N = 2
  Threads = {th1, th2}
  Tasks = {t1, t2, t3, t4}
  Children = {t2, t3}
  Flagged = {t3, t4}
  StopTask = stop
  NoTask = none
  Wrap = 4
SPECIFICATION Spec
SYMMETRY ThreadSymmetry
INVARIANTS EachTaskOnce NoLostWork DestructorDrains
PROPERTY SameThreadStays
