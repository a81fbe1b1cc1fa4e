------------------------------- MODULE Worker -------------------------------
(***************************************************************************)
(* One Scheduler::Worker (src/scheduler.cpp): the fibers it runs tasks on, *)
(* its queues of tasks and of unblocked fibers, the fibers blocked with a  *)
(* timeout, and the protocol by which other threads hand it work.          *)
(*                                                                         *)
(* Exactly one fiber of a worker executes at a time, so the worker's       *)
(* control state is currentFiber and, for each fiber, the place in the     *)
(* code where it is or will resume (pc).  The other actors are Clients,    *)
(* the threads that schedule tasks on this worker, steal from it, make the *)
(* predicate of a blocked task true and notify its fiber, or stop it.      *)
(*                                                                         *)
(* A critical section of work.mutex that a client executes is one step, so *)
(* `mutex' records only whether the worker's own thread holds it.  The     *)
(* reads the code makes without the mutex (work.num in steal() and in      *)
(* spinForWorkAndLock()) are re-made under it before anything depends on   *)
(* them.                                                                   *)
(***************************************************************************)
EXTENDS Integers, Sequences, FiniteSets, WaitingFibers

CONSTANTS
  Mode,          \* Worker::Mode: "MultiThreaded" or "SingleThreaded"
  MaxFibers,     \* bound on the fibers the worker creates
  Tasks,         \* the tasks a user may schedule on this worker
  MainTask,      \* SingleThreaded: the code the bound thread itself runs
  ShutdownTask,  \* MultiThreaded: the task stop() enqueues
  NoTask,        \* no task on a fiber's stack
  SameThread,    \* the tasks flagged Task::Flags::SameThread
  Periodic,      \* tasks that never block and schedule themselves again
  Clients,       \* the other threads
  RawTasks,      \* the tasks that block in wait() without lock and predicate
  MaxWaits,      \* bound on the blocking calls of one task
  MaxSpurious,   \* bound on notifications that leave the predicate false
  MaxTime        \* bound on the clock

ASSUME WorkerAssumption ==
  /\ Mode \in {"MultiThreaded", "SingleThreaded"}
  /\ MaxFibers \in Nat /\ MaxWaits \in Nat /\ MaxSpurious \in Nat /\ MaxTime \in Nat
  /\ MainTask \in Tasks /\ SameThread \subseteq Tasks /\ RawTasks \subseteq Tasks
  /\ Periodic \subseteq Tasks
  /\ ShutdownTask \notin Tasks /\ NoTask \notin Tasks \cup {ShutdownTask}
  /\ Clients \cap {"free", "fiber"} = {}

Fibers    == 0..MaxFibers            \* 0 is mainFiber, then in creation order
Main      == 0
NoFiber   == -1
AllTasks  == Tasks \cup {ShutdownTask}
NoTimeout == MaxTime + 1             \* a null timeout: never reached

VARIABLES
  mutex,             \* work.mutex: "free" or held by the "worker"
  num,               \* work.num
  numBlockedFibers,  \* work.numBlockedFibers
  tasks,             \* work.tasks
  fibers,            \* work.fibers
  waiting,           \* work.waiting
  notifyAdded,       \* work.notifyAdded
  woken,             \* a notify_one() of work.added has reached the sleeping worker
  sleepUntil,        \* the time point Work::wait() sleeps until
  scanTime,          \* `now' of enqueueFiberTimeouts()
  currentFiber,      \* Worker::currentFiber
  idleFibers,        \* Worker::idleFibers
  numFibers,         \* workerFibers.size()
  shutdown,          \* Worker::shutdown
  stopped,           \* the worker's thread has returned from run() or stop()
  state,             \* Fiber::state of each fiber
  pc,                \* where each fiber is, or will resume
  task,              \* the task on each fiber's stack
  deadline,          \* the timeout argument of the fiber's wait() call
  pred,              \* has the predicate the task waits for become true?
  waitLock,          \* who holds the lock passed to wait(): "free", "fiber", a client
  registered,        \* the fiber that notifiers of this task's wait() will notify
  waits,             \* blocking calls each task has made
  spurious,          \* notifications so far that left the predicate false
  client,            \* what each client is doing
  now,               \* the clock
  scheduled,         \* tasks ever enqueued on this worker
  stolen,            \* tasks another worker took from it
  done               \* tasks that have returned

workVars   == <<num, numBlockedFibers, tasks, fibers, waiting>>
sleepVars  == <<notifyAdded, woken, sleepUntil, scanTime>>
fiberVars  == <<currentFiber, idleFibers, numFibers, state, task, deadline>>
userVars   == <<pred, waitLock, registered, waits, spurious>>
clientVars == <<client, now>>
taskVars   == <<scheduled, stolen, done>>
ctrlVars   == <<shutdown, stopped>>
vars == <<mutex, workVars, sleepVars, fiberVars, pc, userVars, clientVars,
          taskVars, ctrlVars>>

Multi == Mode = "MultiThreaded"
Idle  == [at |-> "idle", task |-> NoTask]

\* A fiber is built in state Running and enters run(); in SingleThreaded mode
\* run() does not wait for work first.
EntryOfRun == IF Multi THEN "run" ELSE "runUntilShutdown"

\* Worker() and start().  The main fiber of a MultiThreaded worker is about to
\* lock work.mutex and call run(); the one of a SingleThreaded worker is the
\* bound thread, executing user code.
Init ==
  /\ mutex = "free" /\ num = 0 /\ numBlockedFibers = 0
  /\ tasks = <<>> /\ fibers = <<>> /\ waiting = NoneWaiting
  /\ notifyAdded = TRUE /\ woken = FALSE /\ sleepUntil = NoTimeout /\ scanTime = 0
  /\ currentFiber = Main /\ idleFibers = {} /\ numFibers = 0
  /\ shutdown = FALSE /\ stopped = FALSE
  /\ state = [f \in Fibers |-> "Running"]
  /\ pc = [f \in Fibers |-> IF f # Main THEN "none"
                            ELSE IF Multi THEN "start" ELSE "task"]
  /\ task = [f \in Fibers |-> IF f = Main /\ ~Multi THEN MainTask ELSE NoTask]
  /\ deadline = [f \in Fibers |-> NoTimeout]
  /\ pred = [t \in Tasks |-> FALSE]
  /\ waitLock = [t \in Tasks |-> "free"]
  /\ registered = [t \in Tasks |-> NoFiber]
  /\ waits = [t \in Tasks |-> 0] /\ spurious = 0
  /\ client = [c \in Clients |-> Idle] /\ now = 0
  /\ scheduled = IF Multi THEN {} ELSE {MainTask}
  /\ stolen = {} /\ done = {}
-----------------------------------------------------------------------------
(* The worker's thread.  Every action below is a step of currentFiber.     *)

At(place)   == ~stopped /\ pc[currentFiber] = place
Goto(place) == pc' = [pc EXCEPT ![currentFiber] = place]
OnTask      == task[currentFiber] # NoTask

\* The predicates of the two calls of Work::wait(), in run() and waitForWork().
RunPred  == num > 0 \/ IsWaiting(waiting) \/ shutdown
WorkPred == num > 0 \/ (shutdown /\ numBlockedFibers = 0)

\* start(): the thread locks work.mutex and calls run().
Start ==
  /\ At("start") /\ mutex = "free"
  /\ mutex' = "worker" /\ Goto("run")
  /\ UNCHANGED <<workVars, sleepVars, fiberVars, userVars, clientVars, taskVars, ctrlVars>>

\* Mutant: sleep without a time point though fibers wait.
NoTimePoint == NoTimeout

\* Work::wait(): the time point to sleep until, the earliest a fiber waits for.
TimePoint == IF IsWaiting(waiting) THEN NextTimeout(waiting) ELSE NoTimeout

\* Work::wait(f): ask to be notified, then return at once if f() holds, else
\* release the mutex and sleep on `added'.
WorkWait(f, asleep, next) ==
  /\ IF f THEN /\ notifyAdded' = FALSE /\ Goto(next)
               /\ UNCHANGED <<mutex, sleepUntil>>
     ELSE /\ notifyAdded' = TRUE /\ mutex' = "free" /\ Goto(asleep)
          /\ sleepUntil' = TimePoint
  /\ UNCHANGED <<workVars, woken, scanTime, fiberVars, userVars, clientVars,
                 taskVars, ctrlVars>>

\* The sleep in Work::wait() ends and the mutex is locked again.
WorkWaitReturns(next) ==
  /\ mutex' = "worker" /\ notifyAdded' = FALSE /\ Goto(next) /\ sleepUntil' = NoTimeout

\* `added' was notified or the time point was reached.  With f() false and the
\* time point not reached the thread sleeps on.
WakeUp(f, asleep, next) ==
  /\ At(asleep) /\ mutex = "free" /\ (woken \/ now >= sleepUntil)
  /\ IF f \/ now >= sleepUntil THEN WorkWaitReturns(next)
     ELSE UNCHANGED <<mutex, notifyAdded, pc, sleepUntil>>
  /\ woken' = FALSE
  /\ UNCHANGED <<workVars, scanTime, fiberVars, userVars, clientVars,
                 taskVars, ctrlVars>>

\* The condition variable wakes up though nobody notified it.
WakeUpSpuriously(f, asleep, next) ==
  /\ At(asleep) /\ mutex = "free" /\ ~woken /\ now < sleepUntil /\ f
  /\ WorkWaitReturns(next)
  /\ UNCHANGED <<workVars, woken, scanTime, fiberVars, userVars, clientVars,
                 taskVars, ctrlVars>>

\* run(): the initial wait of a MultiThreaded fiber.
Run == At("run") /\ WorkWait(RunPred, "runAsleep", "runUntilShutdown")
RunWakes == WakeUp(RunPred, "runAsleep", "runUntilShutdown")
RunWakesSpuriously == WakeUpSpuriously(RunPred, "runAsleep", "runUntilShutdown")

\* Mutants: leave with fibers still blocked; never leave.
KeepsRunningNoBlocked == ~shutdown \/ num > 0
KeepsRunningOffByOne  == ~shutdown \/ num > 0 \/ numBlockedFibers >= 0

\* runUntilShutdown(): the condition of the loop.
KeepsRunning == ~shutdown \/ num > 0 \/ numBlockedFibers > 0

\* runUntilShutdown(): the loop test, and what follows the loop.  The code
\* returns to run(), or in SingleThreaded mode possibly to stop(); both then
\* leave through the main fiber.
RunUntilShutdown ==
  /\ At("runUntilShutdown")
  /\ Goto(IF KeepsRunning THEN "waitForWork" ELSE "exit")
  /\ UNCHANGED <<mutex, workVars, sleepVars, fiberVars, userVars, clientVars,
                 taskVars, ctrlVars>>

\* run(): switchToFiber(mainFiber) after the loop.  On the main fiber itself
\* that is no switch: run() or stop() returns, and the lock is released.
Exit ==
  /\ At("exit")
  /\ IF currentFiber = Main
     THEN /\ stopped' = TRUE /\ mutex' = "free"
          /\ UNCHANGED <<currentFiber, pc>>
     ELSE /\ currentFiber' = Main /\ Goto("exited")
          /\ UNCHANGED <<stopped, mutex>>
  /\ UNCHANGED <<workVars, sleepVars, idleFibers, numFibers, state, task, deadline,
                 userVars, clientVars, taskVars, shutdown>>

\* Where waitForWork() returns to: suspend() if a task of this fiber is
\* blocking, else runUntilShutdown(), which calls runUntilIdle().
AfterWaitForWork == IF OnTask THEN "switch" ELSE "runUntilIdle"

\* waitForWork(): with work at hand return at once, without looking at the
\* timeouts; otherwise spin first (MultiThreaded), then Work::wait().
WaitForWork ==
  /\ At("waitForWork")
  /\ IF num > 0 THEN Goto(AfterWaitForWork) /\ UNCHANGED mutex
     ELSE IF Multi THEN Goto("spin") /\ mutex' = "free"
     ELSE Goto("workWait") /\ UNCHANGED mutex
  /\ UNCHANGED <<workVars, sleepVars, fiberVars, userVars, clientVars, taskVars, ctrlVars>>

\* spinForWorkAndLock(): work was seen, or the spinning time is over; either
\* way the mutex is locked.  (Work seen but gone once locked: spin on.)
SpinForWorkAndLock ==
  /\ At("spin") /\ mutex = "free"
  /\ mutex' = "worker" /\ Goto("workWait")
  /\ UNCHANGED <<workVars, sleepVars, fiberVars, userVars, clientVars, taskVars, ctrlVars>>

\* EnqueueTask: the effect of enqueueAndUnlock() on the queue.
EnqueueTask(t) ==
  /\ tasks' = Append(tasks, t) /\ num' = num + 1
  /\ scheduled' = scheduled \cup {t}
  /\ UNCHANGED <<numBlockedFibers, fibers, waiting, stolen, done>>

\* Mutant: tasks flagged SameThread are stolen too.
StealableAny(t) == t # ShutdownTask

\* steal(): may another worker take this task?
Stealable(t) == t \notin SameThread \cup {ShutdownTask}

\* spinForWorkAndLock(): a task was stolen from another worker.
SpinSteals(t) ==
  /\ At("spin") /\ mutex = "free"
  /\ t \notin scheduled /\ Stealable(t)
  /\ EnqueueTask(t)
  /\ mutex' = "worker" /\ Goto("workWait")
  /\ UNCHANGED <<sleepVars, fiberVars, userVars, clientVars, ctrlVars>>

\* waitForWork(): Work::wait(), then enqueueFiberTimeouts() if fibers wait.
WorkWaits == At("workWait") /\ WorkWait(WorkPred, "asleep", "timeouts")
WorkWakes == WakeUp(WorkPred, "asleep", "timeouts")
WorkWakesSpuriously == WakeUpSpuriously(WorkPred, "asleep", "timeouts")

\* enqueueFiberTimeouts() reads the clock once.
EnqueueFiberTimeouts ==
  /\ At("timeouts")
  /\ IF IsWaiting(waiting) THEN Goto("takeTimeouts") /\ scanTime' = now
     ELSE Goto(AfterWaitForWork) /\ UNCHANGED scanTime
  /\ UNCHANGED <<mutex, workVars, notifyAdded, woken, sleepUntil, fiberVars, userVars,
                 clientVars, taskVars, ctrlVars>>

\* Mutant: work.num++ is missing.
PushFiberUncounted(f) == fibers' = Append(fibers, f) /\ UNCHANGED num

\* work.fibers.push_back(fiber) and work.num++
PushFiber(f) == fibers' = Append(fibers, f) /\ num' = num + 1

\* One iteration of its loop: the first expired fiber goes to the queue.
TakeTimeout(a) ==
  /\ At("takeTimeouts") /\ a \in Expired(waiting, scanTime)
  /\ waiting' = Taken(waiting, a)
  /\ state' = [state EXCEPT ![a.fiber] = "Queued"]
  /\ PushFiber(a.fiber)
  /\ UNCHANGED <<mutex, numBlockedFibers, tasks, sleepVars, currentFiber, idleFibers,
                 numFibers, task, deadline, pc, userVars, clientVars, taskVars, ctrlVars>>

\* The loop ends: no first fiber has expired.
TimeoutsTaken ==
  /\ At("takeTimeouts") /\ Expired(waiting, scanTime) = {}
  /\ Goto(AfterWaitForWork) /\ scanTime' = 0
  /\ UNCHANGED <<mutex, workVars, notifyAdded, woken, sleepUntil, fiberVars, userVars,
                 clientVars, taskVars, ctrlVars>>

\* runUntilIdle(): an unblocked fiber goes before any task.  This fiber becomes
\* idle and execution switches to the first of the queue.
RunFiber ==
  /\ At("runUntilIdle") /\ fibers # <<>>
  /\ num' = num - 1 /\ fibers' = Tail(fibers)
  /\ state' = [state EXCEPT ![currentFiber] = "Idle"]
  /\ idleFibers' = idleFibers \cup {currentFiber}
  /\ currentFiber' = Head(fibers) /\ Goto("idle")
  /\ UNCHANGED <<mutex, numBlockedFibers, tasks, waiting, sleepVars, numFibers, task,
                 deadline, userVars, clientVars, taskVars, ctrlVars>>

\* runUntilIdle(), after switchToFiber(): the idle fiber has been switched to.
IdleResumes ==
  /\ At("idle")
  /\ state' = [state EXCEPT ![currentFiber] = "Running"] /\ Goto("runUntilIdle")
  /\ UNCHANGED <<mutex, workVars, sleepVars, currentFiber, idleFibers, numFibers, task,
                 deadline, userVars, clientVars, taskVars, ctrlVars>>

\* runUntilIdle(): take a task and run it without the mutex.
RunTask ==
  /\ At("runUntilIdle") /\ fibers = <<>> /\ tasks # <<>>
  /\ num' = num - 1 /\ tasks' = Tail(tasks)
  /\ task' = [task EXCEPT ![currentFiber] = Head(tasks)]
  /\ mutex' = "free" /\ Goto("task")
  /\ UNCHANGED <<numBlockedFibers, fibers, waiting, sleepVars, currentFiber, idleFibers,
                 numFibers, state, deadline, userVars, clientVars, taskVars, ctrlVars>>

\* runUntilIdle() returns to the loop of runUntilShutdown().
RunUntilIdleReturns ==
  /\ At("runUntilIdle") /\ fibers = <<>> /\ tasks = <<>>
  /\ Goto("runUntilShutdown")
  /\ UNCHANGED <<mutex, workVars, sleepVars, fiberVars, userVars, clientVars, taskVars,
                 ctrlVars>>

\* runUntilIdle(): the task has returned; lock the mutex again.  The task of
\* stop() sets `shutdown'.
TaskReturns ==
  /\ At("task") /\ mutex = "free"
  /\ Multi \/ task[currentFiber] # MainTask
  /\ shutdown' = (shutdown \/ task[currentFiber] = ShutdownTask)
  /\ done' = done \cup {task[currentFiber]}
  /\ task' = [task EXCEPT ![currentFiber] = NoTask]
  /\ mutex' = "worker" /\ Goto("runUntilIdle")
  /\ UNCHANGED <<workVars, sleepVars, currentFiber, idleFibers, numFibers, state, deadline,
                 userVars, clientVars, scheduled, stolen, stopped>>

\* stop() in SingleThreaded mode, called by the bound thread's own code.
StopSingleThreaded ==
  /\ ~Multi /\ At("task") /\ mutex = "free" /\ task[currentFiber] = MainTask
  /\ shutdown' = TRUE /\ mutex' = "worker" /\ Goto("runUntilShutdown")
  /\ done' = done \cup {MainTask}
  /\ task' = [task EXCEPT ![currentFiber] = NoTask]
  /\ UNCHANGED <<workVars, sleepVars, currentFiber, idleFibers, numFibers, state, deadline,
                 userVars, clientVars, scheduled, stolen, stopped>>
-----------------------------------------------------------------------------
(* Blocking calls made by the task that currentFiber runs.                 *)

MyTask == task[currentFiber]

\* ConditionVariable::wait() and wait_until(): with the predicate false the
\* fiber is put on the list of fibers to notify and Fiber::wait() is called,
\* all with the caller's lock held.  `timepoint' is NoTimeout for wait().
BeginWait(timepoint) ==
  /\ At("task") /\ MyTask \in Tasks \ (RawTasks \cup Periodic)
  /\ waits[MyTask] < MaxWaits /\ waitLock[MyTask] = "free" /\ ~pred[MyTask]
  /\ waits' = [waits EXCEPT ![MyTask] = @ + 1]
  /\ waitLock' = [waitLock EXCEPT ![MyTask] = "fiber"]
  /\ registered' = [registered EXCEPT ![MyTask] = currentFiber]
  /\ deadline' = [deadline EXCEPT ![currentFiber] = timepoint]
  /\ Goto("lockWork")
  /\ UNCHANGED <<mutex, workVars, sleepVars, currentFiber, idleFibers, numFibers, state,
                 task, pred, spurious, clientVars, taskVars, ctrlVars>>

\* suspend(), up to waitForWork(): the fiber is Waiting if it has a timeout,
\* Yielded if not.
Suspend(timepoint) ==
  /\ IF timepoint # NoTimeout
     THEN /\ state' = [state EXCEPT ![currentFiber] = "Waiting"]
          /\ waiting' = Add(waiting, timepoint, currentFiber)
     ELSE /\ state' = [state EXCEPT ![currentFiber] = "Yielded"]
          /\ UNCHANGED waiting
  /\ mutex' = "worker" /\ Goto("waitForWork")

\* Mutant: the wait lock is released before work.mutex is locked.
UnlockThenSuspend ==
  \/ /\ At("lockWork") /\ waitLock[MyTask] = "fiber"
     /\ waitLock' = [waitLock EXCEPT ![MyTask] = "free"]
     /\ UNCHANGED <<mutex, workVars, sleepVars, fiberVars, pc, pred, registered, waits,
                    spurious, clientVars, taskVars, ctrlVars>>
  \/ /\ At("lockWork") /\ waitLock[MyTask] # "fiber" /\ mutex = "free"
     /\ Suspend(deadline[currentFiber])
     /\ UNCHANGED <<num, numBlockedFibers, tasks, fibers, sleepVars, currentFiber, idleFibers,
                    numFibers, task, deadline, userVars, clientVars, taskVars, ctrlVars>>

\* Worker::wait(lock, timeout, pred), loop body: lock work.mutex, then unlock
\* the wait lock, then suspend().
LockAndSuspend ==
  /\ At("lockWork") /\ mutex = "free"
  /\ waitLock' = [waitLock EXCEPT ![MyTask] = "free"]
  /\ Suspend(deadline[currentFiber])
  /\ UNCHANGED <<num, numBlockedFibers, tasks, fibers, sleepVars, currentFiber, idleFibers,
                 numFibers, task, deadline, pred, registered, waits, spurious,
                 clientVars, taskVars, ctrlVars>>

\* Fiber::wait(), Worker::wait(timeout): suspend with no lock and no predicate.
RawWait(timepoint) ==
  /\ At("task") /\ MyTask \in RawTasks /\ mutex = "free"
  /\ waits[MyTask] < MaxWaits
  /\ waits' = [waits EXCEPT ![MyTask] = @ + 1]
  /\ registered' = [registered EXCEPT ![MyTask] = currentFiber]
  /\ deadline' = [deadline EXCEPT ![currentFiber] = timepoint]
  /\ Suspend(timepoint)
  /\ UNCHANGED <<num, numBlockedFibers, tasks, fibers, sleepVars, currentFiber, idleFibers,
                 numFibers, task, pred, waitLock, spurious, clientVars, taskVars, ctrlVars>>

\* Mutant: the blocked fiber is not counted.
BlockUncounted == UNCHANGED numBlockedFibers

\* suspend(), after waitForWork(): one more fiber is blocked.
Block == numBlockedFibers' = numBlockedFibers + 1

\* suspend(), after waitForWork(): this fiber is blocked; switch to the first
\* unblocked fiber (it may be this one), else to some idle fiber, else to a new one.
SwitchToQueued ==
  /\ At("switch") /\ fibers # <<>>
  /\ Block
  /\ num' = num - 1 /\ fibers' = Tail(fibers)
  /\ currentFiber' = Head(fibers) /\ Goto("blocked")
  /\ UNCHANGED <<mutex, tasks, waiting, sleepVars, idleFibers, numFibers, state, task,
                 deadline, userVars, clientVars, taskVars, ctrlVars>>

SwitchToIdle(to) ==
  /\ At("switch") /\ fibers = <<>> /\ to \in idleFibers
  /\ Block
  /\ idleFibers' = idleFibers \ {to}
  /\ currentFiber' = to /\ Goto("blocked")
  /\ UNCHANGED <<mutex, num, tasks, fibers, waiting, sleepVars, numFibers, state, task,
                 deadline, userVars, clientVars, taskVars, ctrlVars>>

\* Mutant: a new fiber though an idle one could be used.
NoFiberQueued == fibers = <<>>

\* suspend(): "no existing fibers to resume".
NoFiberToResume == fibers = <<>> /\ idleFibers = {}

\* createWorkerFiber() and the switch to the new fiber.
SwitchToNew ==
  /\ At("switch") /\ NoFiberToResume
  /\ numFibers < MaxFibers
  /\ Block
  /\ numFibers' = numFibers + 1 /\ currentFiber' = numFibers + 1
  /\ pc' = [pc EXCEPT ![currentFiber] = "blocked", ![numFibers + 1] = EntryOfRun]
  /\ UNCHANGED <<mutex, num, tasks, fibers, waiting, sleepVars, idleFibers, state, task,
                 deadline, userVars, clientVars, taskVars, ctrlVars>>

\* suspend(), after switchToFiber(): the blocked fiber has been switched to.
\* Its caller, one of the two Worker::wait(), unlocks work.mutex.
BlockedResumes ==
  /\ At("blocked")
  /\ numBlockedFibers' = numBlockedFibers - 1
  /\ state' = [state EXCEPT ![currentFiber] = "Running"]
  /\ mutex' = "free"
  /\ IF MyTask \in RawTasks
     THEN /\ registered' = [registered EXCEPT ![MyTask] = NoFiber]
          /\ deadline' = [deadline EXCEPT ![currentFiber] = NoTimeout]
          /\ Goto("task")
     ELSE Goto("relock") /\ UNCHANGED <<registered, deadline>>
  /\ UNCHANGED <<num, tasks, fibers, waiting, sleepVars, currentFiber, idleFibers, numFibers,
                 task, pred, waitLock, waits, spurious, clientVars, taskVars, ctrlVars>>

\* Worker::wait(lock, timeout, pred): re-lock the wait lock; give up if the
\* timeout has passed, whatever the predicate; return if the predicate holds,
\* else go round the loop.  A wait() that returns takes the fiber off the list
\* of fibers to notify before the caller unlocks.
GivesUp == now >= deadline[currentFiber]
Relock ==
  /\ At("relock") /\ waitLock[MyTask] = "free"
  /\ IF GivesUp \/ pred[MyTask]
     THEN /\ registered' = [registered EXCEPT ![MyTask] = NoFiber]
          /\ deadline' = [deadline EXCEPT ![currentFiber] = NoTimeout]
          /\ Goto("task") /\ UNCHANGED waitLock
     ELSE /\ waitLock' = [waitLock EXCEPT ![MyTask] = "fiber"]
          /\ Goto("lockWork") /\ UNCHANGED <<registered, deadline>>
  /\ UNCHANGED <<mutex, workVars, sleepVars, currentFiber, idleFibers, numFibers, state,
                 task, pred, waits, spurious, clientVars, taskVars, ctrlVars>>
-----------------------------------------------------------------------------
(* Calls that put work on this worker.                                     *)

\* Mutants: a fiber that is already queued, or that runs, is queued.
NeedsEnqueueQueued(f)  == state[f] # "Running"
NeedsEnqueueRunning(f) == state[f] # "Queued"

\* Worker::enqueue(Fiber*): nothing to do for a fiber that runs or is queued;
\* a Waiting fiber leaves `waiting'; the fiber is queued.
NeedsEnqueue(f) == state[f] \notin {"Running", "Queued"}
EnqueueFiber(f) ==
  IF NeedsEnqueue(f)
  THEN /\ waiting' = IF state[f] = "Waiting" THEN Erase(waiting, f) ELSE waiting
       /\ PushFiber(f)
       /\ state' = [state EXCEPT ![f] = "Queued"]
       /\ UNCHANGED <<numBlockedFibers, tasks>>
  ELSE UNCHANGED <<workVars, state>>

\* marl::schedule() by the task that currentFiber runs, onto its own worker.
\* The notify_one() that may follow finds nobody asleep.  A periodic task
\* schedules itself when nothing else is queued (a bound on the queue).
TaskSchedules(t) ==
  /\ At("task") /\ mutex = "free"
  /\ t \in Tasks \ scheduled \/ (t = MyTask /\ t \in Periodic /\ num = 0)
  /\ EnqueueTask(t)
  /\ UNCHANGED <<mutex, sleepVars, fiberVars, pc, userVars, clientVars, ctrlVars>>

InRawWait(t) == t \in RawTasks /\ registered[t] # NoFiber

\* Fiber::notify() by the task that currentFiber runs, of a fiber of its own
\* worker that is suspended in a wait() without lock and predicate.
TaskNotifies(t) ==
  /\ At("task") /\ mutex = "free" /\ InRawWait(t)
  /\ EnqueueFiber(registered[t])
  /\ UNCHANGED <<mutex, sleepVars, currentFiber, idleFibers, numFibers, task, deadline, pc,
                 userVars, clientVars, taskVars, ctrlVars>>

\* Mutant: nobody is notified.
ThenNothing(c, t) == client' = [client EXCEPT ![c] = Idle]

\* work.mutex has been released: notify_one() is still to be called, unless
\* notifyAdded was false.
ThenNotify(c, t) ==
  client' = [client EXCEPT ![c] = IF notifyAdded THEN [at |-> "added", task |-> t] ELSE Idle]

\* Worker::enqueue(Task) of a user's task, or of the task of stop().  Nothing
\* is scheduled from outside once the worker is told to stop.
ClientEnqueues(c, t) ==
  /\ Multi /\ client[c] = Idle /\ mutex = "free"
  /\ t \in AllTasks \ scheduled /\ ShutdownTask \notin scheduled
  /\ EnqueueTask(t) /\ ThenNotify(c, NoTask)
  /\ UNCHANGED <<mutex, sleepVars, fiberVars, pc, userVars, now, ctrlVars>>

\* Worker::steal() by another worker.
ClientSteals(c) ==
  /\ Multi /\ client[c] = Idle /\ mutex = "free"
  /\ tasks # <<>> /\ Stealable(Head(tasks))
  /\ num' = num - 1 /\ tasks' = Tail(tasks) /\ stolen' = stolen \cup {Head(tasks)}
  /\ UNCHANGED <<mutex, numBlockedFibers, fibers, waiting, sleepVars, fiberVars, pc,
                 userVars, clientVars, scheduled, done, ctrlVars>>

\* Worker::enqueue(), last lines: work.added.notify_one(), which reaches the
\* worker if its thread is asleep.  A notifier of a wait() then unlocks.
Asleep == ~stopped /\ pc[currentFiber] \in {"asleep", "runAsleep"}
Release(c) ==
  waitLock' = [t \in Tasks |-> IF waitLock[t] = c THEN "free" ELSE waitLock[t]]
ClientNotifiesAdded(c) ==
  /\ client[c].at = "added"
  /\ woken' = (woken \/ Asleep)
  /\ client' = [client EXCEPT ![c] = Idle] /\ Release(c)
  /\ UNCHANGED <<mutex, workVars, notifyAdded, sleepUntil, scanTime, fiberVars, pc, pred,
                 registered, waits, spurious, now, taskVars, ctrlVars>>

\* A client takes the lock of a task's wait(), makes the predicate true (or
\* not: a notification meant for another waiter), and will notify.
ClientSignals(c, t, p) ==
  /\ client[c] = Idle /\ waitLock[t] = "free" /\ ~pred[t]
  /\ p \/ (spurious < MaxSpurious /\ registered[t] # NoFiber)
  /\ pred' = [pred EXCEPT ![t] = p]
  /\ spurious' = IF p THEN spurious ELSE spurious + 1
  /\ waitLock' = [waitLock EXCEPT ![t] = c]
  /\ client' = [client EXCEPT ![c] = [at |-> "notify", task |-> t]]
  /\ UNCHANGED <<mutex, workVars, sleepVars, fiberVars, pc, registered, waits, now,
                 taskVars, ctrlVars>>

\* The client may unlock before it notifies.
ClientUnlocks(c) ==
  /\ client[c].at = "notify" /\ waitLock[client[c].task] = c
  /\ Release(c)
  /\ UNCHANGED <<mutex, workVars, sleepVars, fiberVars, pc, pred, registered, waits,
                 spurious, clientVars, taskVars, ctrlVars>>

\* ConditionVariable::notify_one() with no fiber on the list.
ClientNotifiesNobody(c) ==
  /\ client[c].at = "notify"
  /\ registered[client[c].task] = NoFiber
  /\ client' = [client EXCEPT ![c] = Idle] /\ Release(c)
  /\ UNCHANGED <<mutex, workVars, sleepVars, fiberVars, pc, pred, registered, waits,
                 spurious, now, taskVars, ctrlVars>>

\* ConditionVariable::notify_one() -> Fiber::notify() -> Worker::enqueue(Fiber*).
ClientNotifies(c) ==
  LET t == client[c].task
      f == registered[t] IN
  /\ client[c].at = "notify" /\ f # NoFiber /\ mutex = "free"
  /\ EnqueueFiber(f)
  /\ IF notifyAdded /\ NeedsEnqueue(f)
     THEN /\ client' = [client EXCEPT ![c].at = "added"] /\ UNCHANGED waitLock
     ELSE /\ client' = [client EXCEPT ![c] = Idle] /\ Release(c)
  /\ UNCHANGED <<mutex, sleepVars, currentFiber, idleFibers, numFibers, task, deadline, pc,
                 pred, registered, waits, spurious, now, taskVars, ctrlVars>>

\* Fiber::notify() by another thread of a fiber suspended in a wait() without
\* lock and predicate.
ClientNotifiesRaw(c, t) ==
  /\ client[c] = Idle /\ InRawWait(t) /\ mutex = "free" /\ NeedsEnqueue(registered[t])
  /\ EnqueueFiber(registered[t]) /\ ThenNotify(c, NoTask)
  /\ UNCHANGED <<mutex, sleepVars, currentFiber, idleFibers, numFibers, task, deadline, pc,
                 userVars, now, taskVars, ctrlVars>>

\* The clock.
Tick ==
  /\ now < MaxTime /\ now' = now + 1
  /\ UNCHANGED <<mutex, workVars, sleepVars, fiberVars, pc, userVars, client, taskVars,
                 ctrlVars>>

\* The worker has stopped and every client is done: nothing more happens.
Terminated ==
  /\ stopped /\ \A c \in Clients : client[c] = Idle
  /\ UNCHANGED vars

\* The worker sleeps and no client calls it: perhaps no client ever will again.
Quiescent ==
  /\ Asleep /\ ~woken /\ sleepUntil = NoTimeout /\ \A c \in Clients : client[c] = Idle
  /\ UNCHANGED vars

\* A timeout may be in the past when the wait begins.
Timepoints == now..MaxTime

WorkerStep ==
  \/ Start \/ Run \/ RunWakes \/ RunUntilShutdown \/ Exit
  \/ WaitForWork \/ SpinForWorkAndLock \/ WorkWaits \/ WorkWakes
  \/ EnqueueFiberTimeouts \/ TimeoutsTaken
  \/ \E a \in waiting.timeouts : TakeTimeout(a)
  \/ RunFiber \/ IdleResumes \/ RunTask \/ RunUntilIdleReturns
  \/ TaskReturns \/ StopSingleThreaded
  \/ LockAndSuspend \/ SwitchToQueued \/ SwitchToNew
  \/ \E f \in idleFibers : SwitchToIdle(f)
  \/ BlockedResumes \/ Relock

\* What a task does between its start and its return is the user's choice.
TaskStep ==
  \/ \E d \in Timepoints \cup {NoTimeout} : BeginWait(d) \/ RawWait(d)
  \/ \E t \in Tasks : TaskSchedules(t) \/ TaskNotifies(t)

\* A client that has begun a call goes through with it.
ClientStep(c) ==
  \/ ClientNotifiesAdded(c) \/ ClientNotifiesNobody(c) \/ ClientNotifies(c)

ClientStarts(c) ==
  \/ \E t \in AllTasks : ClientEnqueues(c, t)
  \/ ClientSteals(c) \/ ClientUnlocks(c)
  \/ \E t \in Tasks \ RawTasks, p \in BOOLEAN : ClientSignals(c, t, p)
  \/ \E t \in Tasks : ClientNotifiesRaw(c, t)

Next ==
  \/ WorkerStep \/ TaskStep
  \/ RunWakesSpuriously \/ WorkWakesSpuriously
  \/ \E t \in Tasks : SpinSteals(t)
  \/ \E c \in Clients : ClientStep(c) \/ ClientStarts(c)
  \/ Tick \/ Terminated \/ Quiescent

Spec == Init /\ [][Next]_vars

\* The worker's thread is always scheduled again, so is a client in the middle
\* of a call, and time passes.  Nothing obliges a client to begin a call, and
\* nothing wakes a sleeping worker but a notification or its time point.
Fairness ==
  /\ WF_vars(WorkerStep) /\ WF_vars(Tick)
  /\ \A c \in Clients : WF_vars(ClientStep(c))
FairSpec == Spec /\ Fairness

\* The same with a fair work.mutex: a client that wants it again and again gets
\* it.  For the run that shows a starvation the mutex is not to blame for.
StrongSpec ==
  /\ Spec /\ WF_vars(WorkerStep) /\ WF_vars(Tick)
  /\ \A c \in Clients : SF_vars(ClientStep(c))
-----------------------------------------------------------------------------
(* Properties.                                                             *)

States == {"Idle", "Yielded", "Waiting", "Queued", "Running"}
Places == {"none", "start", "run", "runAsleep", "runUntilShutdown", "exit", "exited",
           "waitForWork", "spin", "workWait", "asleep", "timeouts", "takeTimeouts",
           "switch", "blocked", "relock", "lockWork", "runUntilIdle", "idle", "task"}
Times  == 0..NoTimeout

\* The values the worker's variables may take.
TypeOK ==
  /\ mutex \in {"free", "worker"} /\ num \in Nat /\ numBlockedFibers \in Nat
  /\ tasks \in Seq(AllTasks) /\ fibers \in Seq(Fibers)
  /\ waiting.timeouts \subseteq [timepoint : Times, fiber : Fibers]
  /\ DOMAIN waiting.fibers \subseteq Fibers
  /\ notifyAdded \in BOOLEAN /\ woken \in BOOLEAN
  /\ sleepUntil \in Times /\ scanTime \in Times
  /\ currentFiber \in Fibers /\ idleFibers \subseteq Fibers /\ numFibers \in Fibers
  /\ shutdown \in BOOLEAN /\ stopped \in BOOLEAN
  /\ state \in [Fibers -> States] /\ pc \in [Fibers -> Places]
  /\ task \in [Fibers -> AllTasks \cup {NoTask}] /\ deadline \in [Fibers -> Times]
  /\ pred \in [Tasks -> BOOLEAN]
  /\ waitLock \in [Tasks -> {"free", "fiber"} \cup Clients]
  /\ registered \in [Tasks -> Fibers \cup {NoFiber}]
  /\ waits \in [Tasks -> 0..MaxWaits] /\ spurious \in 0..MaxSpurious
  /\ client \in [Clients -> [at : {"idle", "notify", "added"}, task : Tasks \cup {NoTask}]]
  /\ now \in 0..MaxTime
  /\ scheduled \subseteq AllTasks /\ stolen \subseteq AllTasks /\ done \subseteq AllTasks

\* work.num counts the queued tasks and fibers whenever work.mutex is released,
\* and whenever waitForWork() and runUntilIdle() assert it ("work.num out of sync").
NumInSync == num = Len(fibers) + Len(tasks)

Created == 0..numFibers
InQueue(f) == \E i \in DOMAIN fibers : fibers[i] = f

\* The places where a fiber with a task on its stack is inside suspend().
Suspending == {"waitForWork", "spin", "workWait", "asleep", "timeouts", "takeTimeouts",
               "switch", "blocked"}
InSuspend(f) == pc[f] \in Suspending /\ task[f] # NoTask
SwitchedTo(f) == f = currentFiber /\ pc[f] \in {"idle", "blocked"}
MainRejoined == \E f \in Created : pc[f] = "exited"

\* Fiber::state tells where a fiber is (the comments of enum class State, and
\* every ASSERT_FIBER_STATE): in the queue of unblocked fibers, exactly once,
\* iff Queued; in `waiting' iff Waiting; in idleFibers iff Idle; Running iff it
\* executes and is not inside suspend().  The fiber just switched to still has
\* the state it was taken with.
FiberStates ==
  /\ \A i, j \in DOMAIN fibers : fibers[i] = fibers[j] => i = j
  /\ \A f \in Created :
    /\ InQueue(f) <=> state[f] = "Queued" /\ ~SwitchedTo(f)
    /\ state[f] = "Waiting" <=> Contains(waiting, f)
    /\ state[f] = "Idle" /\ ~SwitchedTo(f) => f \in idleFibers
    /\ f \in idleFibers => (state[f] = "Idle" /\ pc[f] = "idle") \/ (f = Main /\ MainRejoined)
    /\ state[f] = "Running" <=> \/ f = currentFiber /\ ~InSuspend(f) /\ pc[f] # "idle"
                                \/ pc[f] = "exited"

\* Every fiber the worker may switch to is parked where the switch expects it:
\* a queued fiber in suspend(), an idle one in runUntilIdle(), and the main
\* fiber when run() leaves through it.  These are the assertions "dequeued
\* fiber is idle", "dequeued fiber is currently running", "switching to idle fiber".
SwitchTargets ==
  /\ \A i \in DOMAIN fibers : InSuspend(fibers[i])
  /\ At("runUntilIdle") => \A i \in DOMAIN fibers :
                             fibers[i] # currentFiber /\ fibers[i] \notin idleFibers
  /\ At("exit") /\ currentFiber # Main => Main \in idleFibers /\ pc[Main] = "idle"

\* The two containers of WaitingFibers agree, as take() and erase() assert, and
\* hold the time point the fiber waits for.
WaitingInSync ==
  /\ InSync(waiting)
  /\ \A f \in DOMAIN waiting.fibers : waiting.fibers[f] = deadline[f]

\* numBlockedFibers, which keeps the worker alive after shutdown, counts the
\* fibers parked in suspend().
BlockedCounted ==
  numBlockedFibers = Cardinality({f \in Created : pc[f] = "blocked"})

\* A worker asleep in Work::wait() with work it should wake for has been
\* notified, or a client is about to notify it: `notifyAdded' never suppresses
\* a notification that is needed.
NoLostWork ==
  Asleep /\ (IF pc[currentFiber] = "asleep" THEN WorkPred ELSE RunPred)
    => woken \/ \E c \in Clients : client[c].at = "added"

\* A worker asleep in Work::wait() wakes in time for every fiber that waits
\* with a timeout, though it sleeps until the time point read before sleeping.
TimeoutNotLost ==
  Asleep => \A f \in DOMAIN waiting.fibers : sleepUntil <= waiting.fibers[f]

\* A fiber suspended in wait(lock, pred) whose predicate has become true has
\* a notifier still to come: the notify() is not lost between the unlock of the
\* wait lock and the suspension (the comment in Worker::wait()).
NoLostWakeup ==
  \A t \in Tasks \ RawTasks :
    registered[t] # NoFiber /\ pred[t] /\ state[registered[t]] \in {"Yielded", "Waiting"}
      => \E c \in Clients : client[c] = [at |-> "notify", task |-> t]

\* When the worker's thread ends, every task enqueued on it has returned or was
\* stolen, and no fiber is left blocked (stop() blocks "until all pending tasks
\* have fully finished").
StopMeansDrained ==
  stopped => /\ tasks = <<>> /\ fibers = <<>> /\ ~IsWaiting(waiting)
             /\ scheduled \ stolen = done
             /\ \A f \in Created : pc[f] # "blocked"

\* A fiber is created only when every existing fiber is blocked, so a worker
\* never has more fibers than blocked tasks plus one.
CreateOnlyWhenAllBlocked ==
  [][numFibers' > numFibers => \A f \in Created : pc'[f] = "blocked"]_vars

\* A fiber whose timeout has passed is queued again, although waitForWork()
\* looks at the timeouts only when the worker has run out of other work.
ExpiredFiberWakes ==
  \A f \in Fibers : (state[f] = "Waiting" /\ deadline[f] <= now) ~> state[f] # "Waiting"

\* A fiber whose predicate is true and which has been notified leaves wait().
SignalledTaskResumes ==
  \A t \in Tasks \ RawTasks : (registered[t] # NoFiber /\ pred[t]) ~> registered[t] = NoFiber

\* Once told to stop the worker stops, unless a task stays blocked forever.
StopCompletes ==
  (shutdown \/ ShutdownTask \in scheduled)
     ~> (stopped \/ \E f \in Fibers : state[f] = "Yielded")

\* The worker implements TaskQueue.  A task is started while it is on the stack
\* of a fiber, whether the fiber executes, is blocked or is queued.
Promise == INSTANCE TaskQueue WITH
  Task <- AllTasks, Pinned <- SameThread \cup {ShutdownTask},
  queue <- tasks, started <- {task[f] : f \in Fibers} \ {NoTask},
  returned <- done, taken <- stolen, closed <- stopped

\* Fibers, locks, sleeping, spinning and timeouts never make the worker start a
\* task twice or out of order, leave a queued task unstarted forever, or stop
\* with a task unfinished (runUntilIdle(), enqueueAndUnlock(), steal(), stop()).
ImplementsTaskQueue == Promise!TQSpec
=============================================================================
