CONSTANTS
  Fibers = {f1}
  Threads = {th}
  Timed = {f1}
  Notifiers = {n1}
  Consume = TRUE
  Free = free
SPECIFICATION Spec
INVARIANT FalseMeansFalse
