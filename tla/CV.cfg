CONSTANTS
  Fibers = {f1, f2}
  Threads = {th}
  Timed = {f2}
  Notifiers = {n1, n2}
  Consume = TRUE
  Free = free
SPECIFICATION FairSpec
INVARIANTS NoLostNotifyAll ListedAreWaiting
PROPERTY WaitsReturn
