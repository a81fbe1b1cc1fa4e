\* Thread::Affinity::remove() against its documentation.
CONSTANTS
  Cores = {0, 1, 2}
  Groups = 2
  Handles = {h1, h2}
  MaxThreads = 2
  MaxEdits = 1
  NoThread = nothread
SPECIFICATION Spec
INVARIANT RemoveRemoves
