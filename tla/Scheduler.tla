----------------------------- MODULE Scheduler -----------------------------
(***************************************************************************)
(* marl::Scheduler (src/scheduler.cpp): the worker threads as a group.     *)
(* How schedule() picks a worker (the list of spinning workers, then round *)
(* robin, with try-lock and retry), how idle workers steal, how threads    *)
(* bind and unbind, and how the destructor stops the workers.              *)
(*                                                                         *)
(* A worker is seen here at the level of tasks: the fibers a task may      *)
(* block on are the subject of module Worker, and tasks of this module do  *)
(* not block.  As there, a critical section of a worker's mutex executed   *)
(* by another thread is one step; `locked' says that the owner holds it.   *)
(***************************************************************************)
EXTENDS Integers, Sequences, FiniteSets

CONSTANTS
  N,         \* cfg.workerThread.count
  Threads,   \* threads that bind the scheduler
  Tasks,     \* tasks users schedule
  Children,  \* those among them that are scheduled by other tasks
  Flagged,   \* those with Task::Flags::SameThread
  StopTask,  \* the task Worker::stop() enqueues
  NoTask,
  Wrap       \* the index counters are unsigned ints modulo Wrap

Workers == 0..(N - 1)
Actors  == Workers \cup Threads
Nobody  == -1

ASSUME SchedulerAssumption ==
  /\ N \in Nat /\ Wrap \in Nat \ {0}
  /\ Children \subseteq Tasks /\ Flagged \subseteq Tasks
  /\ StopTask \notin Tasks /\ NoTask \notin Tasks \cup {StopTask}
  /\ Threads \cap Workers = {}

VARIABLES
  queue,        \* work.tasks of each worker; of a thread, of its SingleThreaded worker
  locked,       \* does the worker's own thread hold work.mutex?
  notifyAdded,  \* work.notifyAdded
  woken,        \* work.added has been notified while the worker slept
  at,           \* what each worker is doing
  running,      \* the task each worker or thread executes
  carried,      \* the task a worker has stolen and not yet queued
  shutdown,     \* Worker::shutdown
  slot,         \* the index a worker got in onBeginSpinning()
  spinningWorkers, nextSpinningWorkerIdx, nextEnqueueIndex,
  enq,          \* the call of Scheduler::enqueue() in progress
  bound,        \* "unbound", "bound", "stopping" (in unbind()), "left"
  destructor,   \* where ~Scheduler() is
  stopping,     \* the worker it stops
  scheduled, done

spinVars  == <<spinningWorkers, nextSpinningWorkerIdx>>
workVars  == <<queue, locked, notifyAdded, woken, at, running, carried, shutdown>>
callVars  == <<slot, enq, nextEnqueueIndex>>
outerVars == <<bound, destructor, stopping>>
taskVars  == <<scheduled, done>>
vars == <<workVars, spinVars, callVars, outerVars, taskVars>>

NoCall == [at |-> "none", task |-> NoTask, idx |-> Nobody]

\* Scheduler(): every slot of spinningWorkers is empty, the spinning index
\* starts away from zero (0x8000000), and the workers are started.
Init ==
  /\ queue = [a \in Actors |-> <<>>] /\ locked = [w \in Workers |-> FALSE]
  /\ notifyAdded = [w \in Workers |-> TRUE] /\ woken = [w \in Workers |-> FALSE]
  /\ at = [w \in Workers |-> "start"] /\ running = [a \in Actors |-> NoTask]
  /\ carried = [w \in Workers |-> NoTask] /\ shutdown = [w \in Workers |-> FALSE]
  /\ slot = [w \in Workers |-> 0]
  /\ spinningWorkers = [w \in Workers |-> Nobody]
  /\ nextSpinningWorkerIdx = Wrap \div 2 /\ nextEnqueueIndex = 0
  /\ enq = [a \in Actors |-> NoCall]
  /\ bound = [th \in Threads |-> "unbound"]
  /\ destructor = "none" /\ stopping = N
  /\ scheduled = {} /\ done = {}
-----------------------------------------------------------------------------
(* A worker thread.                                                        *)

Move(w, place) == at' = [at EXCEPT ![w] = place]
Lock(w)   == locked' = [locked EXCEPT ![w] = TRUE]
Unlock(w) == locked' = [locked EXCEPT ![w] = FALSE]

\* Worker::start(): lock work.mutex and enter the wait of run().
Start(w) ==
  /\ at[w] = "start" /\ Lock(w) /\ Move(w, "wait")
  /\ UNCHANGED <<queue, notifyAdded, woken, running, carried, shutdown, spinVars, callVars,
                 outerVars, taskVars>>

\* Mutant: spin again instead of sleeping.
SleepNot(w) == Move(w, "loop") /\ UNCHANGED locked

\* Work::wait(): release the mutex and sleep on `added'.
Sleep(w) == Move(w, "asleep") /\ Unlock(w)

\* Work::wait(): go on if there is work or the worker shuts down, else sleep.
HasCause(w) == queue[w] # <<>> \/ shutdown[w]
Wait(w) ==
  /\ at[w] = "wait"
  /\ notifyAdded' = [notifyAdded EXCEPT ![w] = ~HasCause(w)]
  /\ IF HasCause(w) THEN Move(w, "loop") /\ UNCHANGED locked
     ELSE Sleep(w)
  /\ UNCHANGED <<queue, woken, running, carried, shutdown, spinVars, callVars, outerVars,
                 taskVars>>

\* The sleep ends: `added' was notified.  With no cause the worker sleeps on.
Wake(w) ==
  /\ at[w] = "asleep" /\ woken[w]
  /\ woken' = [woken EXCEPT ![w] = FALSE]
  /\ IF HasCause(w)
     THEN Move(w, "loop") /\ Lock(w) /\ notifyAdded' = [notifyAdded EXCEPT ![w] = FALSE]
     ELSE UNCHANGED <<at, locked, notifyAdded>>
  /\ UNCHANGED <<queue, running, carried, shutdown, spinVars, callVars, outerVars, taskVars>>

\* The condition variable wakes up though nobody notified it.
WakeSpuriously(w) ==
  /\ at[w] = "asleep" /\ ~woken[w] /\ HasCause(w)
  /\ Move(w, "loop") /\ Lock(w) /\ notifyAdded' = [notifyAdded EXCEPT ![w] = FALSE]
  /\ UNCHANGED <<queue, woken, running, carried, shutdown, spinVars, callVars, outerVars,
                 taskVars>>

\* runUntilIdle(): take the first task and execute it without the mutex.
RunTask(w) ==
  /\ at[w] = "loop" /\ queue[w] # <<>>
  /\ queue' = [queue EXCEPT ![w] = Tail(@)]
  /\ running' = [running EXCEPT ![w] = Head(queue[w])]
  /\ Unlock(w) /\ Move(w, "task")
  /\ UNCHANGED <<notifyAdded, woken, carried, shutdown, spinVars, callVars, outerVars,
                 taskVars>>

\* The task returns; the one of stop() has set `shutdown'.
TaskReturns(w) ==
  /\ at[w] = "task" /\ enq[w] = NoCall
  /\ shutdown' = [shutdown EXCEPT ![w] = @ \/ running[w] = StopTask]
  /\ done' = done \cup ({running[w]} \ {StopTask})
  /\ running' = [running EXCEPT ![w] = NoTask]
  /\ Lock(w) /\ Move(w, "loop")
  /\ UNCHANGED <<queue, notifyAdded, woken, carried, spinVars, callVars, outerVars, scheduled>>

\* runUntilShutdown() ends and with it the thread.
Exit(w) ==
  /\ at[w] = "loop" /\ queue[w] = <<>> /\ shutdown[w]
  /\ Unlock(w) /\ Move(w, "exited")
  /\ UNCHANGED <<queue, notifyAdded, woken, running, carried, shutdown, spinVars, callVars,
                 outerVars, taskVars>>

\* waitForWork() with nothing to do calls onBeginSpinning(), with the mutex
\* held: take the next slot, then store this worker's id in it.
BeginSpinning(w) ==
  /\ at[w] = "loop" /\ queue[w] = <<>> /\ ~shutdown[w]
  /\ slot' = [slot EXCEPT ![w] = nextSpinningWorkerIdx % N]
  /\ nextSpinningWorkerIdx' = (nextSpinningWorkerIdx + 1) % Wrap
  /\ Move(w, "publish")
  /\ UNCHANGED <<queue, locked, notifyAdded, woken, running, carried, shutdown,
                 spinningWorkers, enq, nextEnqueueIndex, outerVars, taskVars>>

Publish(w) ==
  /\ at[w] = "publish"
  /\ spinningWorkers' = [spinningWorkers EXCEPT ![slot[w]] = w]
  /\ slot' = [slot EXCEPT ![w] = 0]
  /\ Unlock(w) /\ Move(w, "spin")
  /\ UNCHANGED <<queue, notifyAdded, woken, running, carried, shutdown,
                 nextSpinningWorkerIdx, enq, nextEnqueueIndex, outerVars, taskVars>>

\* spinForWorkAndLock(): work was seen or the time is over; lock the mutex.
SpinEnds(w) ==
  /\ at[w] = "spin" /\ Lock(w) /\ Move(w, "wait")
  /\ UNCHANGED <<queue, notifyAdded, woken, running, carried, shutdown, spinVars, callVars,
                 outerVars, taskVars>>

\* Mutant: tasks flagged SameThread are stolen too.
StealableAny(t) == t # StopTask

\* steal(): may the task leave its worker?
Stealable(t) == t \notin Flagged \cup {StopTask}

\* Mutant: the first task is copied, not taken.
PeekFirst(w) == UNCHANGED queue

\* steal(): containers::take(work.tasks)
TakeFirst(w) == queue' = [queue EXCEPT ![w] = Tail(@)]

\* stealWork(), Worker::steal(): the random victim is another worker whose
\* mutex is free and whose first task may leave it.
SpinSteals(w, victim) ==
  /\ at[w] = "spin" /\ victim # w /\ ~locked[victim]
  /\ queue[victim] # <<>> /\ Stealable(Head(queue[victim]))
  /\ TakeFirst(victim)
  /\ carried' = [carried EXCEPT ![w] = Head(queue[victim])]
  /\ Move(w, "stolen")
  /\ UNCHANGED <<locked, notifyAdded, woken, running, shutdown, spinVars, callVars, outerVars,
                 taskVars>>

\* The thief locks its own mutex and queues what it stole.
QueueStolen(w) ==
  /\ at[w] = "stolen"
  /\ queue' = [queue EXCEPT ![w] = Append(@, carried[w])]
  /\ carried' = [carried EXCEPT ![w] = NoTask]
  /\ Lock(w) /\ Move(w, "wait")
  /\ UNCHANGED <<notifyAdded, woken, running, shutdown, spinVars, callVars, outerVars,
                 taskVars>>
-----------------------------------------------------------------------------
(* Scheduler::enqueue(), called by a bound thread or by a running task.    *)

\* A thread schedules tasks while it is bound; a task may schedule Children.
MayCall(a, t) ==
  /\ enq[a] = NoCall /\ t \in Tasks \ scheduled
  /\ IF running[a] = NoTask THEN a \in Threads /\ bound[a] = "bound" /\ t \notin Children
     ELSE t \in Children /\ running[a] \notin Children \cup {StopTask}

\* A SameThread task, and any task when there are no worker threads, goes to
\* the calling thread's own worker.
EnqueueHere(a, t) ==
  /\ MayCall(a, t) /\ (t \in Flagged \/ N = 0)
  /\ queue' = [queue EXCEPT ![a] = Append(@, t)]
  /\ scheduled' = scheduled \cup {t}
  /\ UNCHANGED <<locked, notifyAdded, woken, at, running, carried, shutdown, spinVars,
                 callVars, outerVars, done>>

EnqueueBegins(a, t) ==
  /\ MayCall(a, t) /\ ~(t \in Flagged \/ N = 0)
  /\ enq' = [enq EXCEPT ![a] = [at |-> "pick", task |-> t, idx |-> Nobody]]
  /\ scheduled' = scheduled \cup {t}
  /\ UNCHANGED <<workVars, spinVars, slot, nextEnqueueIndex, outerVars, done>>

Call(a, place, i) == enq' = [enq EXCEPT ![a].at = place, ![a].idx = i]

\* --nextSpinningWorkerIdx, an unsigned int.
Previous == (nextSpinningWorkerIdx - 1) % Wrap

\* --nextSpinningWorkerIdx % count, the slot that was filled last.
PickSlot(a) ==
  /\ enq[a].at = "pick"
  /\ nextSpinningWorkerIdx' = Previous
  /\ Call(a, "exchange", nextSpinningWorkerIdx' % N)
  /\ UNCHANGED <<workVars, spinningWorkers, slot, nextEnqueueIndex, outerVars, taskVars>>

\* spinningWorkers[i].exchange(-1)
TakeSlot(a) ==
  LET idx == spinningWorkers[enq[a].idx] IN
  /\ enq[a].at = "exchange"
  /\ spinningWorkers' = [spinningWorkers EXCEPT ![enq[a].idx] = Nobody]
  /\ Call(a, IF idx < 0 THEN "roundRobin" ELSE "tryLock", idx)
  /\ UNCHANGED <<workVars, nextSpinningWorkerIdx, slot, nextEnqueueIndex, outerVars, taskVars>>

\* nextEnqueueIndex++ % count
RoundRobin(a) ==
  /\ enq[a].at = "roundRobin"
  /\ Call(a, "tryLock", nextEnqueueIndex % N)
  /\ nextEnqueueIndex' = (nextEnqueueIndex + 1) % Wrap
  /\ UNCHANGED <<workVars, spinVars, slot, outerVars, taskVars>>

\* tryLock() fails: start over.
TryAgain(a) ==
  /\ enq[a].at = "tryLock" /\ locked[enq[a].idx]
  /\ Call(a, "pick", Nobody)
  /\ UNCHANGED <<workVars, spinVars, slot, nextEnqueueIndex, outerVars, taskVars>>

\* Mutant: nobody is notified.
NeverNotify(w) == FALSE

\* enqueueAndUnlock(): `notify'.
MustNotify(w) == notifyAdded[w]

\* tryLock() succeeds: enqueueAndUnlock().
EnqueueAndUnlock(a) ==
  LET w == enq[a].idx IN
  /\ enq[a].at = "tryLock" /\ ~locked[w]
  /\ queue' = [queue EXCEPT ![w] = Append(@, enq[a].task)]
  /\ enq' = [enq EXCEPT ![a] = IF MustNotify(w) THEN [at |-> "notify", task |-> NoTask, idx |-> w]
                               ELSE NoCall]
  /\ UNCHANGED <<locked, notifyAdded, woken, at, running, carried, shutdown, spinVars, slot,
                 nextEnqueueIndex, outerVars, taskVars>>

\* work.added.notify_one(), after the mutex was released.
WakeIfAsleep(w) == woken' = [woken EXCEPT ![w] = @ \/ at[w] = "asleep"]
NotifyAdded(a) ==
  /\ enq[a].at = "notify" /\ WakeIfAsleep(enq[a].idx)
  /\ enq' = [enq EXCEPT ![a] = NoCall]
  /\ UNCHANGED <<queue, locked, notifyAdded, at, running, carried, shutdown, spinVars, slot,
                 nextEnqueueIndex, outerVars, taskVars>>
-----------------------------------------------------------------------------
(* Binding.  A bound thread has a SingleThreaded worker of its own.        *)

\* bind(): nobody binds once the scheduler is being destroyed.
Bind(th) ==
  /\ bound[th] = "unbound" /\ destructor = "none"
  /\ bound' = [bound EXCEPT ![th] = "bound"]
  /\ UNCHANGED <<workVars, spinVars, callVars, destructor, stopping, taskVars>>

\* unbind(): stop() the thread's worker, which runs what is on its queue.
Unbind(th) ==
  /\ bound[th] = "bound" /\ enq[th] = NoCall
  /\ bound' = [bound EXCEPT ![th] = "stopping"]
  /\ UNCHANGED <<workVars, spinVars, callVars, destructor, stopping, taskVars>>

RunHere(th) ==
  /\ bound[th] = "stopping" /\ running[th] = NoTask /\ queue[th] # <<>>
  /\ queue' = [queue EXCEPT ![th] = Tail(@)]
  /\ running' = [running EXCEPT ![th] = Head(queue[th])]
  /\ UNCHANGED <<locked, notifyAdded, woken, at, carried, shutdown, spinVars, callVars,
                 outerVars, taskVars>>

ReturnsHere(th) ==
  /\ running[th] # NoTask /\ enq[th] = NoCall
  /\ done' = done \cup {running[th]}
  /\ running' = [running EXCEPT ![th] = NoTask]
  /\ UNCHANGED <<queue, locked, notifyAdded, woken, at, carried, shutdown, spinVars, callVars,
                 outerVars, scheduled>>

\* unbind(): the worker is erased from byTid, and the destructor notified.
Leave(th) ==
  /\ bound[th] = "stopping" /\ running[th] = NoTask /\ queue[th] = <<>>
  /\ bound' = [bound EXCEPT ![th] = "left"]
  /\ UNCHANGED <<workVars, spinVars, callVars, destructor, stopping, taskVars>>
-----------------------------------------------------------------------------
(* ~Scheduler()                                                            *)

BoundThreads == {th \in Threads : bound[th] \in {"bound", "stopping"}}   \* byTid

\* Mutant: the destructor does not wait for bound threads.
DestroyAtOnce ==
  /\ destructor = "none" /\ destructor' = "stop" /\ stopping' = N - 1
  /\ UNCHANGED <<workVars, spinVars, callVars, bound, taskVars>>

\* Wait until all the SingleThreaded workers have been unbound.  Some thread
\* has used the scheduler before it is destroyed.
Destroy ==
  /\ destructor = "none" /\ BoundThreads = {} /\ \E th \in Threads : bound[th] = "left"
  /\ destructor' = "stop" /\ stopping' = N - 1
  /\ UNCHANGED <<workVars, spinVars, callVars, bound, taskVars>>

\* workerThreads[i]->stop(): enqueue the stop task, notify ...
StopWorker ==
  /\ destructor = "stop" /\ stopping >= 0 /\ ~locked[stopping]
  /\ queue' = [queue EXCEPT ![stopping] = Append(@, StopTask)]
  /\ destructor' = IF MustNotify(stopping) THEN "notify" ELSE "join"
  /\ UNCHANGED <<locked, notifyAdded, woken, at, running, carried, shutdown, spinVars,
                 callVars, bound, stopping, taskVars>>

NotifyStopped ==
  /\ destructor = "notify" /\ WakeIfAsleep(stopping) /\ destructor' = "join"
  /\ UNCHANGED <<queue, locked, notifyAdded, at, running, carried, shutdown, spinVars,
                 callVars, bound, stopping, taskVars>>

\* ... and join the thread, then stop the next worker.
Join ==
  /\ destructor = "join" /\ at[stopping] = "exited"
  /\ destructor' = "stop" /\ stopping' = stopping - 1
  /\ UNCHANGED <<workVars, spinVars, callVars, bound, taskVars>>

\* All workers are stopped: they are destroyed.
Destroyed ==
  /\ destructor = "stop" /\ stopping < 0 /\ destructor' = "returned"
  /\ UNCHANGED <<workVars, spinVars, callVars, bound, stopping, taskVars>>

Terminated == destructor = "returned" /\ UNCHANGED vars

WorkerStep(w) ==
  \/ Start(w) \/ Wait(w) \/ Wake(w) \/ RunTask(w) \/ TaskReturns(w) \/ Exit(w)
  \/ BeginSpinning(w) \/ Publish(w) \/ SpinEnds(w) \/ QueueStolen(w)
EnqueueStep(a) ==
  \/ PickSlot(a) \/ TakeSlot(a) \/ RoundRobin(a) \/ TryAgain(a) \/ EnqueueAndUnlock(a)
  \/ NotifyAdded(a)
UnbindStep(th) == RunHere(th) \/ ReturnsHere(th) \/ Leave(th)
DestructorStep == StopWorker \/ NotifyStopped \/ Join \/ Destroyed

Next ==
  \/ \E w \in Workers : \/ WorkerStep(w) \/ WakeSpuriously(w)
                        \/ \E v \in Workers : SpinSteals(w, v)
  \/ \E a \in Actors : \/ EnqueueStep(a)
                       \/ \E t \in Tasks : EnqueueHere(a, t) \/ EnqueueBegins(a, t)
  \/ \E th \in Threads : Bind(th) \/ Unbind(th) \/ UnbindStep(th)
  \/ Destroy \/ DestructorStep \/ Terminated

Spec == Init /\ [][Next]_vars

\* Every thread is scheduled again and again: a worker, a thread inside
\* enqueue() or unbind(), and the one that destroys the scheduler.  When to
\* bind, schedule, unbind and destroy is the user's choice; theft depends on a
\* random victim; spurious wake-ups happen or do not.
Fairness ==
  /\ \A w \in Workers : WF_vars(WorkerStep(w))
  /\ \A a \in Actors : WF_vars(EnqueueStep(a))
  /\ \A th \in Threads : WF_vars(UnbindStep(th))
  /\ WF_vars(DestructorStep)
FairSpec == Spec /\ Fairness
-----------------------------------------------------------------------------
(* Properties.                                                             *)

\* Where a task is: on a queue, in the hands of a caller of enqueue() or of a
\* thief, executing, or done.
PlacesOf(t) ==
  (UNION {{<<"queued", a, i>> : i \in {j \in DOMAIN queue[a] : queue[a][j] = t}} : a \in Actors})
  \cup {<<"called", a>> : a \in {b \in Actors : enq[b].task = t}}
  \cup {<<"carried", w>> : w \in {v \in Workers : carried[v] = t}}
  \cup {<<"running", a>> : a \in {b \in Actors : running[b] = t}}
  \cup {<<"done">> : x \in {t} \cap done}

\* Scheduling, stealing and stopping neither lose nor duplicate a task, whatever
\* the interleaving of enqueue(), steal() and runUntilIdle().
EachTaskOnce ==
  \A t \in Tasks : Cardinality(PlacesOf(t)) = IF t \in scheduled THEN 1 ELSE 0

\* A worker that sleeps although it has a task has been notified or is about to
\* be, by the caller of enqueue() or by the destructor: neither a stale entry
\* of spinningWorkers nor a theft makes a notification go missing.
NoLostWork ==
  \A w \in Workers : at[w] = "asleep" /\ HasCause(w) =>
    \/ woken[w]
    \/ \E a \in Actors : enq[a].at = "notify" /\ enq[a].idx = w
    \/ destructor = "notify" /\ stopping = w

\* A task flagged SameThread leaves the queue it was put on only to be executed
\* by that queue's own thread (enqueue(), steal()).
OnQueue(t, a) == \E i \in DOMAIN queue[a] : queue[a][i] = t
SameThreadStays ==
  [][\A t \in Flagged, a \in Actors :
       OnQueue(t, a) => OnQueue(t, a)' \/ running'[a] = t]_vars

\* Every task a bound thread scheduled is complete when ~Scheduler() returns,
\* though workers are stopped one by one while the others still steal.
DestructorDrains == destructor = "returned" => scheduled \ Children \subseteq done

\* All scheduled tasks are complete when ~Scheduler() returns, those that other
\* tasks scheduled too: "This will wait for all in-flight tasks to complete
\* before returning."
AllTasksComplete == destructor = "returned" => done = scheduled

\* Every task a bound thread scheduled is executed, although its worker may be
\* asleep, the caller may find every mutex locked, and thieves move it about.
ScheduledTasksRun == \A t \in Tasks \ Children : t \in scheduled ~> t \in done

\* ~Scheduler() returns once no thread is bound any more.
DestructorReturns == destructor = "stop" ~> destructor = "returned"

\* enqueue() returns although it retries while tryLock() fails.
EnqueueReturns == \A a \in Actors : enq[a] # NoCall ~> enq[a] = NoCall
=============================================================================
