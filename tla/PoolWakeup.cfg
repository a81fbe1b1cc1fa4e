CONSTANTS
  Users = {u1, u2, u3, u4}
  Greedy = {}
  N = 2
  Batch = 4
  MaxItems = 4
  MaxCalls = 1
  MaxShares = 0
  NoUser = nobody
SPECIFICATION Spec
INVARIANT BlocksOnlyWhenEmpty
CHECK_DEADLOCK FALSE
