CONSTANTS
  Users = {u1, u2}
  Greedy = {u1}
  N = 2
  Batch = 1
  MaxItems = 4
  MaxCalls = 2
  MaxShares = 1
  NoUser = nobody
  Tasks = {t1, t2, t3}
  Sources = {e1}
  AnyEvent = any
  MaxOps = 4
  NoTask = none
  Takers = {p1, p2}
  MaxTickets = 3
  MaxTake = 2
  Null = null
  MaxNodes = 3
  MaxEdges = 4
  MaxFns = 3
  MinGrow = 1
  MaxEntries = 4
  Base = 1
  MinHeap = 3
  Values = {1}
  MaxCount = 5
  Threads = {a1, a2}
  MemSize = 16
  PageSize = 4
  PtrSize = 2
  MallocAlign = 2
  MaxUnits = 2
  MaxAllocs = 2
  Fibers = {main, f1, f2}
  Main = main
  Archs = {"x64", "x86", "aarch64", "arm", "rv64", "loongarch64", "ppc64", "mips64", "ucontext", "windows", "emscripten"}
  StackSize = 64
  MaxVersion = 1
  Tracers = {w1, w2}
  MaxEvents = 4
  MaxScopes = 1
  Cores = {0, 1, 2}
  Groups = 2
  Handles = {h1, h2}
  MaxThreads = 2
  MaxEdits = 1
  NoThread = nothread
SPECIFICATION MCSpec
INVARIANTS
  ItemsAccounted EventDelivers TicketsInOrder GroupsComplete 
  AllocationsSound  TraceComplete ThreadsSound 
CHECK_DEADLOCK FALSE
