------------------------- MODULE SchedulerInvariant -------------------------
(***************************************************************************)
(* The inductive invariant of marl::Scheduler, for any number of worker    *)
(* threads, bound threads and tasks and any width of the index counters,   *)
(* and the proofs that every step keeps those of its conjuncts that say    *)
(* what is where: the types, the calls of enqueue(), the workers, the      *)
(* bound threads and the destructor.  Module SchedulerProofs has the       *)
(* conjuncts about tasks and the theorems.                                 *)
(***************************************************************************)
EXTENDS Scheduler, TLAPS

WorkerPlaces == {"start", "wait", "asleep", "loop", "task", "exited", "publish", "spin",
                 "stolen"}
CallPlaces == {"none", "pick", "exchange", "roundRobin", "tryLock", "notify"}

QueueTypes ==
  /\ queue \in [Actors -> Seq(Tasks \cup {StopTask})]
  /\ running \in [Actors -> Tasks \cup {StopTask, NoTask}]
  /\ \A th \in Threads : queue[th] \in Seq(Tasks) /\ running[th] # StopTask
  /\ carried \in [Workers -> Tasks \cup {NoTask}]

WorkerTypes ==
  /\ locked \in [Workers -> BOOLEAN] /\ notifyAdded \in [Workers -> BOOLEAN]
  /\ woken \in [Workers -> BOOLEAN] /\ shutdown \in [Workers -> BOOLEAN]
  /\ at \in [Workers -> WorkerPlaces]

CallTypes ==
  /\ slot \in [Workers -> Workers] /\ spinningWorkers \in [Workers -> Workers \cup {Nobody}]
  /\ nextSpinningWorkerIdx \in Nat /\ nextEnqueueIndex \in Nat
  /\ enq \in [Actors -> [at : CallPlaces, task : Tasks \cup {NoTask},
                         idx : Workers \cup {Nobody}]]

OuterTypes ==
  /\ bound \in [Threads -> {"unbound", "bound", "stopping", "left"}]
  /\ destructor \in {"none", "stop", "notify", "join", "returned"} /\ stopping \in -1 .. N
  /\ scheduled \subseteq Tasks /\ done \subseteq Tasks

TypeOK == QueueTypes /\ WorkerTypes /\ CallTypes /\ OuterTypes

\* A call of enqueue() carries its task until it has queued it, and has the index
\* of a worker whenever it uses one.
CallOK ==
  \A a \in Actors :
    /\ enq[a].at \in {"exchange", "tryLock", "notify"} => enq[a].idx \in Workers
    /\ enq[a].at \in {"none", "notify"} <=> enq[a].task = NoTask
    /\ enq[a].at = "none" => enq[a].idx = Nobody
    /\ enq[a].at # "none" => N > 0

\* A worker executes a task, or carries a stolen one, exactly where at says so; a
\* sleeping worker wants to be notified and is not shut down.
WorkerOK ==
  \A w \in Workers :
    /\ running[w] # NoTask <=> at[w] = "task"
    /\ carried[w] # NoTask <=> at[w] = "stolen"
    /\ at[w] = "asleep" => notifyAdded[w] /\ ~shutdown[w]

\* Outside bind() .. unbind() a thread has nothing to do with the scheduler; only
\* a bound thread schedules a task that is not a child of another.
ThreadOK ==
  /\ \A th \in Threads :
       /\ bound[th] \in {"unbound", "left"} =>
            queue[th] = <<>> /\ running[th] = NoTask /\ enq[th].at = "none"
       /\ bound[th] = "bound" => running[th] = NoTask
       /\ bound[th] = "stopping" /\ running[th] = NoTask => enq[th].at = "none"
  /\ \A a \in Actors : enq[a].task \in Tasks \ Children => a \in Threads /\ bound[a] = "bound"

\* The destructor runs when no thread is bound, and the workers it has joined are
\* gone.
StopOrder ==
  /\ destructor # "none" =>
       BoundThreads = {} /\ stopping < N /\ \A w \in Workers : w > stopping => at[w] = "exited"
  /\ destructor \in {"notify", "join"} => stopping \in Workers
  /\ destructor = "returned" => stopping = -1

\* Workers stop only on behalf of the destructor.
StopCause ==
  \A w \in Workers :
    shutdown[w] \/ running[w] = StopTask \/ OnQueue(StopTask, w) \/ at[w] = "exited" =>
      destructor # "none"

\* What reaches a worker that has exited was scheduled by another task.
LeftBehind ==
  \A w \in Workers : at[w] = "exited" => \A t \in Tasks \ Children : ~OnQueue(t, w)

\* Who has the task t: it is on the queue of a, in a call of enqueue() by a,
\* stolen by a, or executed by a.
Kinds == {"queued", "called", "carried", "running"}
Has(t, k, a) ==
  \/ k = "queued" /\ OnQueue(t, a)
  \/ k = "called" /\ enq[a].task = t
  \/ k = "carried" /\ a \in Workers /\ carried[a] = t
  \/ k = "running" /\ running[a] = t

\* A task is in one place only, and it is somewhere iff it was scheduled.
OnePlace ==
  \A t \in Tasks :
    /\ \A k, l \in Kinds, a, b \in Actors : Has(t, k, a) /\ Has(t, l, b) => k = l /\ a = b
    /\ t \in done => \A k \in Kinds, a \in Actors : ~Has(t, k, a)
    /\ t \in scheduled <=> t \in done \/ \E k \in Kinds, a \in Actors : Has(t, k, a)

\* A task is on a queue once.
QueuesInjective ==
  \A a \in Actors : \A i, j \in DOMAIN queue[a] :
    queue[a][i] = queue[a][j] /\ queue[a][i] \in Tasks => i = j

SchedulerInv ==
  /\ TypeOK /\ CallOK /\ WorkerOK /\ ThreadOK /\ StopOrder /\ StopCause /\ LeftBehind
  /\ OnePlace /\ QueuesInjective /\ NoLostWork
-----------------------------------------------------------------------------
(* The invariant is inductive.                                             *)

\* The steps that touch the queues and the tasks in hand.
LEMMA QueueSteps ==
  ASSUME [Next]_vars
  PROVE  \/ \E w \in Workers : \/ RunTask(w) \/ TaskReturns(w) \/ QueueStolen(w)
                               \/ \E v \in Workers : SpinSteals(w, v)
         \/ \E a \in Actors : EnqueueAndUnlock(a) \/ \E t \in Tasks : EnqueueHere(a, t)
         \/ \E th \in Threads : RunHere(th) \/ ReturnsHere(th)
         \/ StopWorker
         \/ UNCHANGED <<queue, running, carried>>
BY ZenonT(60) DEF vars, workVars, spinVars, callVars, outerVars, taskVars, Next, WorkerStep,
   EnqueueStep, UnbindStep, DestructorStep, Terminated, Start, Wait, Wake, WakeSpuriously,
   Exit, BeginSpinning, Publish, SpinEnds, PickSlot, TakeSlot, RoundRobin, TryAgain,
   NotifyAdded, EnqueueBegins, Bind, Unbind, Leave, Destroy, NotifyStopped, Join, Destroyed

\* The steps that touch the calls of enqueue() and what they read and write.
LEMMA CallSteps ==
  ASSUME [Next]_vars
  PROVE  \/ \E w \in Workers : BeginSpinning(w) \/ Publish(w)
         \/ \E a \in Actors : EnqueueStep(a) \/ \E t \in Tasks : EnqueueBegins(a, t)
         \/ UNCHANGED <<slot, spinningWorkers, nextSpinningWorkerIdx, nextEnqueueIndex, enq>>
BY ZenonT(60) DEF vars, workVars, spinVars, callVars, outerVars, taskVars, Next, WorkerStep,
   UnbindStep, DestructorStep, Terminated, Start, Wait, Wake, WakeSpuriously, RunTask,
   TaskReturns, Exit, SpinEnds, QueueStolen, SpinSteals, EnqueueHere, Bind, Unbind, RunHere,
   ReturnsHere, Leave, Destroy, StopWorker, NotifyStopped, Join, Destroyed

\* The steps that touch what a worker is doing.
LEMMA WorkerSteps ==
  ASSUME [Next]_vars
  PROVE  \/ \E w \in Workers : \/ WorkerStep(w) \/ WakeSpuriously(w)
                               \/ \E v \in Workers : SpinSteals(w, v)
         \/ \E a \in Actors : NotifyAdded(a)
         \/ NotifyStopped
         \/ UNCHANGED <<locked, notifyAdded, woken, at, shutdown>>
BY ZenonT(60) DEF vars, workVars, spinVars, callVars, outerVars, taskVars, Next,
   EnqueueStep, UnbindStep, DestructorStep, Terminated, PickSlot, TakeSlot, RoundRobin,
   TryAgain, EnqueueAndUnlock, EnqueueHere, EnqueueBegins, Bind, Unbind, RunHere,
   ReturnsHere, Leave, Destroy, StopWorker, Join, Destroyed

\* The steps that touch the bound threads and the destructor.
LEMMA OuterSteps ==
  ASSUME [Next]_vars
  PROVE  \/ \E th \in Threads : Bind(th) \/ Unbind(th) \/ Leave(th)
         \/ Destroy \/ DestructorStep
         \/ UNCHANGED <<bound, destructor, stopping>>
BY ZenonT(60) DEF vars, workVars, spinVars, callVars, outerVars, taskVars, Next, WorkerStep,
   EnqueueStep, UnbindStep, Terminated, Start, Wait, Wake, WakeSpuriously, RunTask,
   TaskReturns, Exit, BeginSpinning, Publish, SpinEnds, QueueStolen, SpinSteals, PickSlot,
   TakeSlot, RoundRobin, TryAgain, EnqueueAndUnlock, NotifyAdded, EnqueueHere,
   EnqueueBegins, RunHere, ReturnsHere

\* The steps that schedule a task or complete one.
LEMMA TaskSteps ==
  ASSUME [Next]_vars
  PROVE  \/ \E w \in Workers : TaskReturns(w)
         \/ \E a \in Actors, t \in Tasks : EnqueueHere(a, t) \/ EnqueueBegins(a, t)
         \/ \E th \in Threads : ReturnsHere(th)
         \/ UNCHANGED <<scheduled, done>>
BY ZenonT(60) DEF vars, workVars, spinVars, callVars, outerVars, taskVars, Next, WorkerStep,
   EnqueueStep, UnbindStep, DestructorStep, Terminated, Start, Wait, Wake, WakeSpuriously,
   RunTask, Exit, BeginSpinning, Publish, SpinEnds, QueueStolen, SpinSteals, PickSlot,
   TakeSlot, RoundRobin, TryAgain, EnqueueAndUnlock, NotifyAdded, Bind, Unbind, RunHere,
   Leave, Destroy, StopWorker, NotifyStopped, Join, Destroyed

\* Taking the first element of a sequence, and adding one at its end.
LEMMA TailOf ==
  ASSUME NEW S, NEW q \in Seq(S), q # <<>>
  PROVE  /\ Tail(q) \in Seq(S) /\ Head(q) = q[1] /\ Head(q) \in S /\ 1 \in DOMAIN q
         /\ \A i \in DOMAIN Tail(q) : i + 1 \in DOMAIN q /\ Tail(q)[i] = q[i + 1]
         /\ \A i \in DOMAIN q : i # 1 => i - 1 \in DOMAIN Tail(q) /\ Tail(q)[i - 1] = q[i]
<1>1. Len(q) \in Nat /\ Len(q) > 0 /\ DOMAIN q = 1 .. Len(q)
  OBVIOUS
<1>2. Tail(q) \in Seq(S) /\ Len(Tail(q)) = Len(q) - 1
  OBVIOUS
<1>3. DOMAIN Tail(q) = 1 .. Len(q) - 1
  BY <1>1, <1>2
<1>4. \A i \in 1 .. Len(q) - 1 : Tail(q)[i] = q[i + 1]
  BY <1>1
<1>5. \A i \in 1 .. Len(q) : i # 1 => i - 1 \in 1 .. Len(q) - 1 /\ Tail(q)[i - 1] = q[i]
  <2> SUFFICES ASSUME NEW i \in 1 .. Len(q), i # 1
               PROVE  i - 1 \in 1 .. Len(q) - 1 /\ Tail(q)[i - 1] = q[i]
    OBVIOUS
  <2>1. i - 1 \in 1 .. Len(q) - 1 /\ (i - 1) + 1 = i
    BY <1>1
  <2> QED
    BY <1>4, <2>1
<1>6. Head(q) = q[1] /\ q[1] \in S
  BY <1>1
<1> QED
  BY <1>1, <1>2, <1>3, <1>4, <1>5, <1>6

LEMMA AppendOf ==
  ASSUME NEW S, NEW q \in Seq(S), NEW x \in S
  PROVE  /\ Append(q, x) \in Seq(S) /\ Append(q, x) # <<>>
         /\ \A i \in DOMAIN q : i \in DOMAIN Append(q, x) /\ Append(q, x)[i] = q[i]
         /\ \E n \in DOMAIN Append(q, x) :
              /\ Append(q, x)[n] = x /\ n \notin DOMAIN q
              /\ \A i \in DOMAIN Append(q, x) : i = n \/ i \in DOMAIN q
<1>1. Len(q) \in Nat /\ DOMAIN q = 1 .. Len(q)
  OBVIOUS
<1>2. Append(q, x) \in Seq(S) /\ DOMAIN Append(q, x) = 1 .. Len(q) + 1
  BY <1>1
<1>3. Append(q, x)[Len(q) + 1] = x /\ \A i \in 1 .. Len(q) : Append(q, x)[i] = q[i]
  BY <1>1
<1>4. Append(q, x) # <<>>
  BY <1>1, <1>2
<1>5. Len(q) + 1 \in 1 .. Len(q) + 1 /\ Len(q) + 1 \notin 1 .. Len(q)
  BY <1>1
<1>6. \A i \in 1 .. Len(q) + 1 : i = Len(q) + 1 \/ i \in 1 .. Len(q)
  BY <1>1
<1>7. \A i \in 1 .. Len(q) : i \in 1 .. Len(q) + 1
  BY <1>1
<1>8. /\ Append(q, x)[Len(q) + 1] = x /\ Len(q) + 1 \notin DOMAIN q
      /\ \A i \in DOMAIN Append(q, x) : i = Len(q) + 1 \/ i \in DOMAIN q
      /\ Len(q) + 1 \in DOMAIN Append(q, x)
  BY ONLY <1>1, <1>2, <1>3, <1>5, <1>6
<1> QED
  BY ONLY <1>1, <1>2, <1>3, <1>4, <1>7, <1>8

\* The destructor stops one of the workers.
LEMMA StopsWorker ==
  ASSUME OuterTypes, StopOrder, StopWorker
  PROVE  stopping \in Workers
BY SchedulerAssumption DEF StopWorker, StopOrder, OuterTypes, Workers

\* The queues hold tasks, and the queue of a bound thread no stop task.
LEMMA NextQueueTypes ==
  ASSUME TypeOK, CallOK, WorkerOK, StopOrder, [Next]_vars
  PROVE  QueueTypes'
<1> USE SchedulerAssumption
<1>0. /\ QueueTypes /\ Actors = Workers \cup Threads /\ Workers \cap Threads = {}
      /\ StopTask \notin Tasks /\ NoTask \notin Tasks \cup {StopTask}
  BY DEF TypeOK, Actors
<1>1. ASSUME NEW w \in Workers, RunTask(w) PROVE QueueTypes'
  <2>1. /\ queue[w] # <<>> /\ queue' = [queue EXCEPT ![w] = Tail(queue[w])]
        /\ running' = [running EXCEPT ![w] = Head(queue[w])] /\ carried' = carried
    BY <1>1 DEF RunTask
  <2>2. queue[w] \in Seq(Tasks \cup {StopTask})
    BY <1>0 DEF QueueTypes
  <2>3. Tail(queue[w]) \in Seq(Tasks \cup {StopTask}) /\ Head(queue[w]) \in Tasks \cup {StopTask}
    BY <2>1, <2>2, TailOf
  <2> QED
    BY <1>0, <2>1, <2>3 DEF QueueTypes
<1>2. ASSUME NEW w \in Workers, TaskReturns(w) PROVE QueueTypes'
  BY <1>0, <1>2 DEF TaskReturns, QueueTypes
<1>3. ASSUME NEW w \in Workers, QueueStolen(w) PROVE QueueTypes'
  <2>1. /\ queue' = [queue EXCEPT ![w] = Append(queue[w], carried[w])]
        /\ carried' = [carried EXCEPT ![w] = NoTask] /\ running' = running
    BY <1>3 DEF QueueStolen
  <2>2. queue[w] \in Seq(Tasks \cup {StopTask}) /\ carried[w] \in Tasks
    BY <1>0, <1>3 DEF QueueTypes, QueueStolen, WorkerOK
  <2>3. Append(queue[w], carried[w]) \in Seq(Tasks \cup {StopTask})
    BY <2>2, AppendOf
  <2> QED
    BY <1>0, <2>1, <2>3 DEF QueueTypes
<1>4. ASSUME NEW w \in Workers, NEW v \in Workers, SpinSteals(w, v) PROVE QueueTypes'
  <2>1. /\ queue[v] # <<>> /\ queue' = [queue EXCEPT ![v] = Tail(queue[v])]
        /\ carried' = [carried EXCEPT ![w] = Head(queue[v])] /\ running' = running
        /\ Head(queue[v]) # StopTask
    BY <1>4 DEF SpinSteals, TakeFirst, Stealable
  <2>2. queue[v] \in Seq(Tasks \cup {StopTask})
    BY <1>0 DEF QueueTypes
  <2>3. Tail(queue[v]) \in Seq(Tasks \cup {StopTask}) /\ Head(queue[v]) \in Tasks \cup {StopTask}
    BY <2>1, <2>2, TailOf
  <2> QED
    BY <1>0, <2>1, <2>3 DEF QueueTypes
<1>5. ASSUME NEW a \in Actors, EnqueueAndUnlock(a) PROVE QueueTypes'
  <2> DEFINE w == enq[a].idx
             t == enq[a].task
  <2>1. /\ queue' = [queue EXCEPT ![w] = Append(queue[w], t)] /\ UNCHANGED <<carried, running>>
        /\ enq[a].at = "tryLock"
    BY <1>5 DEF EnqueueAndUnlock
  <2>2. w \in Workers /\ t \in Tasks \cup {NoTask} /\ t # NoTask
    BY <2>1 DEF CallOK, TypeOK, CallTypes
  <2> HIDE DEF w, t
  <2>3. queue[w] \in Seq(Tasks \cup {StopTask})
    BY <1>0, <2>2 DEF QueueTypes
  <2>4. Append(queue[w], t) \in Seq(Tasks \cup {StopTask})
    BY <2>2, <2>3, AppendOf
  <2> QED
    BY <1>0, <2>1, <2>2, <2>4 DEF QueueTypes
<1>6. ASSUME NEW a \in Actors, NEW t \in Tasks, EnqueueHere(a, t) PROVE QueueTypes'
  <2>1. queue' = [queue EXCEPT ![a] = Append(queue[a], t)] /\ UNCHANGED <<carried, running>>
    BY <1>6 DEF EnqueueHere
  <2>2. queue[a] \in Seq(Tasks \cup {StopTask}) /\ (a \in Threads => queue[a] \in Seq(Tasks))
    BY <1>0 DEF QueueTypes
  <2>3. /\ Append(queue[a], t) \in Seq(Tasks \cup {StopTask})
        /\ a \in Threads => Append(queue[a], t) \in Seq(Tasks)
    BY <2>2, AppendOf
  <2> QED
    BY <1>0, <2>1, <2>3 DEF QueueTypes
<1>7. ASSUME NEW th \in Threads, RunHere(th) PROVE QueueTypes'
  <2>1. /\ queue[th] # <<>> /\ queue' = [queue EXCEPT ![th] = Tail(queue[th])]
        /\ running' = [running EXCEPT ![th] = Head(queue[th])] /\ carried' = carried
    BY <1>7 DEF RunHere
  <2>2. queue[th] \in Seq(Tasks) /\ queue[th] \in Seq(Tasks \cup {StopTask})
    BY <1>0 DEF QueueTypes
  <2>3. /\ Tail(queue[th]) \in Seq(Tasks) /\ Head(queue[th]) \in Tasks
        /\ Tail(queue[th]) \in Seq(Tasks \cup {StopTask})
    BY <2>1, <2>2, TailOf
  <2> QED
    BY <1>0, <2>1, <2>3 DEF QueueTypes
<1>8. ASSUME NEW th \in Threads, ReturnsHere(th) PROVE QueueTypes'
  BY <1>0, <1>8 DEF ReturnsHere, QueueTypes
<1>9. CASE StopWorker
  <2>1. /\ queue' = [queue EXCEPT ![stopping] = Append(queue[stopping], StopTask)]
        /\ UNCHANGED <<carried, running>>
    BY <1>9 DEF StopWorker
  <2>2. stopping \in Workers
    BY <1>9, StopsWorker DEF TypeOK
  <2>3. queue[stopping] \in Seq(Tasks \cup {StopTask})
    BY <1>0, <2>2 DEF QueueTypes
  <2>4. Append(queue[stopping], StopTask) \in Seq(Tasks \cup {StopTask})
    BY <2>3, AppendOf
  <2> QED
    BY <1>0, <2>1, <2>2, <2>4 DEF QueueTypes
<1>10. CASE UNCHANGED <<queue, running, carried>>
  BY <1>0, <1>10 DEF QueueTypes
<1> QED
  BY Zenon, <1>1, <1>2, <1>3, <1>4, <1>5, <1>6, <1>7, <1>8, <1>9, <1>10, QueueSteps

\* What a worker does is described by the variables of its thread.
LEMMA NextWorkerTypes ==
  ASSUME TypeOK, CallOK, StopOrder, [Next]_vars
  PROVE  WorkerTypes'
<1>0. WorkerTypes
  BY DEF TypeOK
<1>1. ASSUME NEW w \in Workers, WorkerStep(w) PROVE WorkerTypes'
  <2>1. CASE Start(w)
    BY <1>0, <2>1 DEF Start, Lock, Move, WorkerTypes, WorkerPlaces
  <2>2. CASE Wait(w)
    <3>1. HasCause(w) \in BOOLEAN
      BY <1>0 DEF HasCause, WorkerTypes
    <3>2. CASE HasCause(w)
      BY <1>0, <2>2, <3>1, <3>2 DEF Wait, Move, WorkerTypes, WorkerPlaces
    <3>3. CASE ~HasCause(w)
      BY Zenon, <1>0, <2>2, <3>1, <3>3 DEF Wait, Sleep, Unlock, Move, WorkerTypes, WorkerPlaces
    <3> QED
      BY <3>2, <3>3
  <2>3. CASE Wake(w)
    <3>1. CASE HasCause(w)
      BY Zenon, <1>0, <2>3, <3>1 DEF Wake, Lock, Move, WorkerTypes, WorkerPlaces
    <3>2. CASE ~HasCause(w)
      BY <1>0, <2>3, <3>2 DEF Wake, WorkerTypes, WorkerPlaces
    <3> QED
      BY <3>1, <3>2
  <2>4. CASE RunTask(w)
    BY <1>0, <2>4 DEF RunTask, Unlock, Move, WorkerTypes, WorkerPlaces
  <2>5. CASE TaskReturns(w)
    <3>1. (shutdown[w] \/ running[w] = StopTask) \in BOOLEAN
      BY <1>0 DEF WorkerTypes
    <3>2. /\ shutdown' = [shutdown EXCEPT ![w] = shutdown[w] \/ running[w] = StopTask]
          /\ Lock(w) /\ Move(w, "loop") /\ UNCHANGED <<notifyAdded, woken>>
      BY <2>5 DEF TaskReturns
    <3> QED
      BY <1>0, <3>1, <3>2 DEF Lock, Move, WorkerTypes, WorkerPlaces
  <2>6. CASE Exit(w)
    BY <1>0, <2>6 DEF Exit, Unlock, Move, WorkerTypes, WorkerPlaces
  <2>7. CASE BeginSpinning(w)
    BY <1>0, <2>7 DEF BeginSpinning, Move, WorkerTypes, WorkerPlaces
  <2>8. CASE Publish(w)
    BY <1>0, <2>8 DEF Publish, Unlock, Move, WorkerTypes, WorkerPlaces
  <2>9. CASE SpinEnds(w)
    BY <1>0, <2>9 DEF SpinEnds, Lock, Move, WorkerTypes, WorkerPlaces
  <2>10. CASE QueueStolen(w)
    BY <1>0, <2>10 DEF QueueStolen, Lock, Move, WorkerTypes, WorkerPlaces
  <2> QED
    BY Zenon, <1>1, <2>1, <2>2, <2>3, <2>4, <2>5, <2>6, <2>7, <2>8, <2>9, <2>10 DEF WorkerStep
<1>2. ASSUME NEW w \in Workers, WakeSpuriously(w) PROVE WorkerTypes'
  BY <1>0, <1>2 DEF WakeSpuriously, Lock, Move, WorkerTypes, WorkerPlaces
<1>3. ASSUME NEW w \in Workers, NEW v \in Workers, SpinSteals(w, v) PROVE WorkerTypes'
  BY <1>0, <1>3 DEF SpinSteals, Move, WorkerTypes, WorkerPlaces
<1>4. ASSUME NEW w \in Workers, WakeIfAsleep(w), UNCHANGED <<locked, notifyAdded, at, shutdown>>
      PROVE  WorkerTypes'
  <2>1. (woken[w] \/ at[w] = "asleep") \in BOOLEAN
    BY <1>0 DEF WorkerTypes
  <2> QED
    BY <1>0, <1>4, <2>1 DEF WakeIfAsleep, WorkerTypes
<1>5. ASSUME NEW a \in Actors, NotifyAdded(a) PROVE WorkerTypes'
  <2>1. enq[a].idx \in Workers /\ WakeIfAsleep(enq[a].idx)
    BY <1>5 DEF NotifyAdded, CallOK
  <2> QED
    BY <1>4, <1>5, <2>1 DEF NotifyAdded
<1>6. CASE NotifyStopped
  BY <1>4, <1>6 DEF NotifyStopped, StopOrder
<1>7. CASE UNCHANGED <<locked, notifyAdded, woken, at, shutdown>>
  BY <1>0, <1>7 DEF WorkerTypes
<1> QED
  BY Zenon, <1>1, <1>2, <1>3, <1>5, <1>6, <1>7, WorkerSteps

\* A call of enqueue() goes on.
LEMMA SetCall ==
  ASSUME CallTypes, CallOK, NEW a \in Actors, NEW p \in CallPlaces,
         NEW t \in Tasks \cup {NoTask}, NEW i \in Workers \cup {Nobody},
         p \in {"exchange", "tryLock", "notify"} => i \in Workers,
         p \in {"none", "notify"} <=> t = NoTask,
         p = "none" => i = Nobody, p # "none" => N > 0,
         enq' = [enq EXCEPT ![a] = [at |-> p, task |-> t, idx |-> i]]
  PROVE  /\ enq' \in [Actors -> [at : CallPlaces, task : Tasks \cup {NoTask},
                                 idx : Workers \cup {Nobody}]]
         /\ CallOK'
<1>1. enq' \in [Actors -> [at : CallPlaces, task : Tasks \cup {NoTask}, idx : Workers \cup {Nobody}]]
  BY DEF CallTypes
<1>2. \A b \in Actors : enq'[b] = IF b = a THEN [at |-> p, task |-> t, idx |-> i] ELSE enq[b]
  BY DEF CallTypes
<1> QED
  BY <1>1, <1>2 DEF CallOK

LEMMA CallMoves ==
  ASSUME CallTypes, NEW a \in Actors, NEW p, NEW i, Call(a, p, i)
  PROVE  enq' = [enq EXCEPT ![a] = [at |-> p, task |-> enq[a].task, idx |-> i]]
<1> DEFINE r == [at |-> p, task |-> enq[a].task, idx |-> i]
<1>1. enq[a] \in [at : CallPlaces, task : Tasks \cup {NoTask}, idx : Workers \cup {Nobody}]
  BY DEF CallTypes
<1>2. enq' = [enq EXCEPT ![a].at = p, ![a].idx = i]
  BY DEF Call
<1>3. DOMAIN enq = Actors /\ DOMAIN enq' = Actors
  BY <1>2 DEF CallTypes
<1>4. enq'[a] = [enq[a] EXCEPT !.at = p, !.idx = i]
  BY <1>2, <1>3
<1>5. enq'[a] = r
  BY Zenon, <1>1, <1>4
<1>6. \A b \in Actors : b # a => enq'[b] = enq[b]
  BY <1>2, <1>3
<1> HIDE DEF r
<1>7. enq' = [enq EXCEPT ![a] = r]
  <2>1. enq' = [b \in Actors |-> enq'[b]] /\ enq = [b \in Actors |-> enq[b]]
    BY Zenon, <1>2 DEF CallTypes
  <2> QED
    BY <1>3, <1>5, <1>6, <2>1
<1> QED
  BY <1>7 DEF r

\* An unsigned counter modulo the number of workers is the index of a worker.
LEMMA SlotOfCounter ==
  ASSUME N > 0, NEW c \in Nat
  PROVE  c % N \in Workers
BY SchedulerAssumption DEF Workers

LEMMA NextCallTypes ==
  ASSUME TypeOK, CallOK, [Next]_vars
  PROVE  CallTypes' /\ CallOK'
<1>0. CallTypes /\ OuterTypes
  BY DEF TypeOK
<1> DEFINE Calls == [Actors -> [at : CallPlaces, task : Tasks \cup {NoTask},
                                idx : Workers \cup {Nobody}]]
<1>a. ASSUME NEW w \in Workers PROVE N > 0
  BY SchedulerAssumption DEF Workers
<1>b. \A n \in Int : n % Wrap \in Nat
  BY SchedulerAssumption
<1>1. ASSUME NEW w \in Workers, BeginSpinning(w) PROVE CallTypes' /\ CallOK'
  <2>1. nextSpinningWorkerIdx % N \in Workers
    BY <1>0, <1>a, SlotOfCounter DEF CallTypes
  <2>2. nextSpinningWorkerIdx + 1 \in Int
    BY <1>0 DEF CallTypes
  <2>3. CallTypes'
    BY Zenon, <1>0, <1>1, <1>b, <2>1, <2>2 DEF BeginSpinning, CallTypes
  <2> QED
    BY <1>1, <2>3 DEF BeginSpinning, CallOK
<1>2. ASSUME NEW w \in Workers, Publish(w) PROVE CallTypes' /\ CallOK'
  <2>1. 0 \in Workers
    BY <1>a, SchedulerAssumption DEF Workers
  <2>2. CallTypes'
    BY <1>0, <1>2, <2>1 DEF Publish, CallTypes
  <2> QED
    BY <1>2, <2>2 DEF Publish, CallOK
<1>3. ASSUME NEW a \in Actors, PickSlot(a) PROVE CallTypes' /\ CallOK'
  <2>1. enq[a].at = "pick" /\ N > 0 /\ enq[a].task # NoTask /\ enq[a].task \in Tasks \cup {NoTask}
    BY <1>0, <1>3 DEF PickSlot, CallOK, CallTypes
  <2>2. nextSpinningWorkerIdx - 1 \in Int
    BY <1>0 DEF CallTypes
  <2>3. nextSpinningWorkerIdx' \in Nat
    BY <1>3, <1>b, <2>2 DEF PickSlot, Previous
  <2>4. nextSpinningWorkerIdx' % N \in Workers
    BY <2>1, <2>3, SlotOfCounter
  <2>5. enq' = [enq EXCEPT ![a] = [at |-> "exchange", task |-> enq[a].task,
                                   idx |-> nextSpinningWorkerIdx' % N]]
    BY <1>0, <1>3, CallMoves DEF PickSlot
  <2>6. enq' \in Calls /\ CallOK'
    BY Zenon, <1>0, <2>1, <2>4, <2>5, SetCall DEF CallPlaces
  <2> QED
    BY <1>0, <1>3, <2>3, <2>6 DEF PickSlot, CallTypes
<1>4. ASSUME NEW a \in Actors, TakeSlot(a) PROVE CallTypes' /\ CallOK'
  <2> DEFINE i == spinningWorkers[enq[a].idx]
             p == IF i < 0 THEN "roundRobin" ELSE "tryLock"
  <2>1. /\ enq[a].at = "exchange" /\ N > 0 /\ enq[a].task # NoTask
        /\ enq[a].task \in Tasks \cup {NoTask} /\ enq[a].idx \in Workers
    BY <1>0, <1>4 DEF TakeSlot, CallOK, CallTypes
  <2>2. i \in Workers \cup {Nobody}
    BY <1>0, <2>1 DEF CallTypes
  <2>3. i \in Workers \/ i < 0
    BY <2>2 DEF Nobody
  <2>4. enq' = [enq EXCEPT ![a] = [at |-> p, task |-> enq[a].task, idx |-> i]]
    BY <1>0, <1>4, CallMoves DEF TakeSlot
  <2>5. p \in CallPlaces /\ (p \in {"exchange", "tryLock", "notify"} => i \in Workers)
        /\ p \notin {"none", "notify"}
    BY <2>3 DEF CallPlaces
  <2> HIDE DEF i, p
  <2>6. enq' \in Calls /\ CallOK'
    BY Zenon, <1>0, <2>1, <2>2, <2>4, <2>5, SetCall
  <2>7. spinningWorkers' \in [Workers -> Workers \cup {Nobody}]
    BY Zenon, <1>0, <1>4 DEF TakeSlot, CallTypes
  <2> QED
    BY <1>0, <1>4, <2>6, <2>7 DEF TakeSlot, CallTypes
<1>5. ASSUME NEW a \in Actors, RoundRobin(a) PROVE CallTypes' /\ CallOK'
  <2>1. enq[a].at = "roundRobin" /\ N > 0 /\ enq[a].task # NoTask /\ enq[a].task \in Tasks \cup {NoTask}
    BY <1>0, <1>5 DEF RoundRobin, CallOK, CallTypes
  <2>2. nextEnqueueIndex + 1 \in Int /\ nextEnqueueIndex % N \in Workers
    BY <1>0, <2>1, SlotOfCounter DEF CallTypes
  <2>3. nextEnqueueIndex' \in Nat
    BY <1>5, <1>b, <2>2 DEF RoundRobin
  <2>4. enq' = [enq EXCEPT ![a] = [at |-> "tryLock", task |-> enq[a].task,
                                   idx |-> nextEnqueueIndex % N]]
    BY <1>0, <1>5, CallMoves DEF RoundRobin
  <2>5. enq' \in Calls /\ CallOK'
    BY Zenon, <1>0, <2>1, <2>2, <2>4, SetCall DEF CallPlaces
  <2> QED
    BY <1>0, <1>5, <2>3, <2>5 DEF RoundRobin, CallTypes, spinVars
<1>6. ASSUME NEW a \in Actors, TryAgain(a) PROVE CallTypes' /\ CallOK'
  <2>1. enq[a].at = "tryLock" /\ N > 0 /\ enq[a].task # NoTask /\ enq[a].task \in Tasks \cup {NoTask}
    BY <1>0, <1>6 DEF TryAgain, CallOK, CallTypes
  <2>2. enq' = [enq EXCEPT ![a] = [at |-> "pick", task |-> enq[a].task, idx |-> Nobody]]
    BY <1>0, <1>6, CallMoves DEF TryAgain
  <2>3. enq' \in Calls /\ CallOK'
    BY Zenon, <1>0, <2>1, <2>2, SetCall DEF CallPlaces
  <2> QED
    BY <1>0, <1>6, <2>3 DEF TryAgain, CallTypes, spinVars
<1>7. ASSUME NEW a \in Actors, EnqueueAndUnlock(a) PROVE CallTypes' /\ CallOK'
  <2>1. enq[a].at = "tryLock" /\ N > 0 /\ enq[a].idx \in Workers
    BY <1>0, <1>7 DEF EnqueueAndUnlock, CallOK, CallTypes
  <2>2. \/ enq' = [enq EXCEPT ![a] = [at |-> "notify", task |-> NoTask, idx |-> enq[a].idx]]
        \/ enq' = [enq EXCEPT ![a] = [at |-> "none", task |-> NoTask, idx |-> Nobody]]
    BY Zenon, <1>7 DEF EnqueueAndUnlock, NoCall
  <2>3. enq' \in Calls /\ CallOK'
    BY <1>0, <2>1, <2>2, SetCall DEF CallPlaces
  <2> QED
    BY <1>0, <1>7, <2>3 DEF EnqueueAndUnlock, CallTypes, spinVars
<1>8. ASSUME NEW a \in Actors, NotifyAdded(a) PROVE CallTypes' /\ CallOK'
  <2>1. enq' = [enq EXCEPT ![a] = [at |-> "none", task |-> NoTask, idx |-> Nobody]]
    BY <1>8 DEF NotifyAdded, NoCall
  <2>2. enq' \in Calls /\ CallOK'
    BY Zenon, <1>0, <2>1, SetCall DEF CallPlaces
  <2> QED
    BY <1>0, <1>8, <2>2 DEF NotifyAdded, CallTypes, spinVars
<1>9. ASSUME NEW a \in Actors, NEW t \in Tasks, EnqueueBegins(a, t) PROVE CallTypes' /\ CallOK'
  <2>1. N > 0 /\ t # NoTask
    BY <1>9, SchedulerAssumption DEF EnqueueBegins
  <2>2. enq' = [enq EXCEPT ![a] = [at |-> "pick", task |-> t, idx |-> Nobody]]
    BY <1>9 DEF EnqueueBegins
  <2>3. enq' \in Calls /\ CallOK'
    BY Zenon, <1>0, <2>1, <2>2, SetCall DEF CallPlaces
  <2> QED
    BY <1>0, <1>9, <2>3 DEF EnqueueBegins, CallTypes, spinVars
<1>10. CASE UNCHANGED <<slot, spinningWorkers, nextSpinningWorkerIdx, nextEnqueueIndex, enq>>
  BY <1>0, <1>10 DEF CallTypes, CallOK
<1> QED
  BY Zenon, <1>1, <1>2, <1>3, <1>4, <1>5, <1>6, <1>7, <1>8, <1>9, <1>10, CallSteps DEF EnqueueStep

LEMMA NextOuterTypes ==
  ASSUME TypeOK, WorkerOK, StopOrder, [Next]_vars
  PROVE  OuterTypes'
<1>0. OuterTypes /\ QueueTypes
  BY DEF TypeOK
<1> DEFINE Outer == /\ bound' \in [Threads -> {"unbound", "bound", "stopping", "left"}]
                    /\ destructor' \in {"none", "stop", "notify", "join", "returned"}
                    /\ stopping' \in -1 .. N
           Task == scheduled' \subseteq Tasks /\ done' \subseteq Tasks
<1>1. Outer
  <2>1. ASSUME NEW th \in Threads, Bind(th) \/ Unbind(th) \/ Leave(th) PROVE Outer
    BY <1>0, <2>1 DEF Bind, Unbind, Leave, OuterTypes
  <2>2. CASE Destroy
    BY <1>0, <2>2, SchedulerAssumption DEF Destroy, OuterTypes
  <2>3. CASE StopWorker \/ NotifyStopped \/ Destroyed
    BY <1>0, <2>3 DEF StopWorker, NotifyStopped, Destroyed, OuterTypes
  <2>4. CASE Join
    <3>1. stopping \in Workers
      BY <2>4 DEF Join, StopOrder
    <3>2. stopping - 1 \in -1 .. N
      BY <3>1, SchedulerAssumption DEF Workers
    <3> QED
      BY <1>0, <2>4, <3>2 DEF Join, OuterTypes
  <2>5. CASE UNCHANGED <<bound, destructor, stopping>>
    BY <1>0, <2>5 DEF OuterTypes
  <2> QED
    BY Zenon, <2>1, <2>2, <2>3, <2>4, <2>5, OuterSteps DEF DestructorStep
<1>2. Task
  <2>1. ASSUME NEW w \in Workers, TaskReturns(w) PROVE Task
    <3>1. running[w] \in Tasks \cup {StopTask}
      BY <1>0, <2>1 DEF TaskReturns, WorkerOK, QueueTypes, Actors
    <3> QED
      BY <1>0, <2>1, <3>1 DEF TaskReturns, OuterTypes
  <2>2. ASSUME NEW a \in Actors, NEW t \in Tasks, EnqueueHere(a, t) \/ EnqueueBegins(a, t)
        PROVE  Task
    BY <1>0, <2>2 DEF EnqueueHere, EnqueueBegins, OuterTypes
  <2>3. ASSUME NEW th \in Threads, ReturnsHere(th) PROVE Task
    <3>1. running[th] \in Tasks
      BY <1>0, <2>3 DEF ReturnsHere, QueueTypes, Actors
    <3> QED
      BY <1>0, <2>3, <3>1 DEF ReturnsHere, OuterTypes
  <2>4. CASE UNCHANGED <<scheduled, done>>
    BY <1>0, <2>4 DEF OuterTypes
  <2> QED
    BY Zenon, <2>1, <2>2, <2>3, <2>4, TaskSteps
<1> QED
  BY <1>1, <1>2 DEF OuterTypes

\* The steps that touch the tasks in hand and what the workers do.
LEMMA HandSteps ==
  ASSUME [Next]_vars
  PROVE  \/ \E w \in Workers : \/ WorkerStep(w) \/ WakeSpuriously(w)
                               \/ \E v \in Workers : SpinSteals(w, v)
         \/ \E th \in Threads : RunHere(th) \/ ReturnsHere(th)
         \/ UNCHANGED <<notifyAdded, at, shutdown, running, carried>>
BY ZenonT(60) DEF vars, workVars, spinVars, callVars, outerVars, taskVars, Next,
   EnqueueStep, UnbindStep, DestructorStep, Terminated, PickSlot, TakeSlot, RoundRobin,
   TryAgain, EnqueueAndUnlock, NotifyAdded, EnqueueHere, EnqueueBegins, Bind, Unbind, Leave,
   Destroy, StopWorker, NotifyStopped, Join, Destroyed

LEMMA NextWorkerOK ==
  ASSUME TypeOK, WorkerOK, [Next]_vars
  PROVE  WorkerOK'
<1>0. /\ QueueTypes /\ WorkerTypes /\ Actors = Workers \cup Threads /\ Workers \cap Threads = {}
      /\ NoTask \notin Tasks \cup {StopTask}
  BY SchedulerAssumption DEF TypeOK, Actors
<1>1. ASSUME NEW w \in Workers, WorkerStep(w) PROVE WorkerOK'
  <2> USE DEF WorkerOK, QueueTypes, WorkerTypes, WorkerPlaces
  <2>1. CASE Start(w)
    BY <1>0, <2>1 DEF Start, Move
  <2>2. CASE Wait(w)
    <3>1. CASE HasCause(w)
      BY <1>0, <2>2, <3>1 DEF Wait, Move
    <3>2. CASE ~HasCause(w)
      BY ZenonT(60), <1>0, <2>2, <3>2 DEF Wait, Sleep, Move, HasCause
    <3> QED
      BY <3>1, <3>2
  <2>3. CASE Wake(w)
    <3>1. CASE HasCause(w)
      BY SMTT(60), <1>0, <2>3, <3>1 DEF Wake, Move
    <3>2. CASE ~HasCause(w)
      BY <1>0, <2>3, <3>2 DEF Wake
    <3> QED
      BY <3>1, <3>2
  <2>4. CASE RunTask(w)
    <3>1. Head(queue[w]) \in Tasks \cup {StopTask}
      BY <1>0, <2>4, TailOf DEF RunTask
    <3> QED
      BY <1>0, <2>4, <3>1 DEF RunTask, Move
  <2>5. CASE TaskReturns(w)
    BY <1>0, <2>5 DEF TaskReturns, Move
  <2>6. CASE Exit(w)
    BY <1>0, <2>6 DEF Exit, Move
  <2>7. CASE BeginSpinning(w)
    BY <1>0, <2>7 DEF BeginSpinning, Move
  <2>8. CASE Publish(w)
    BY <1>0, <2>8 DEF Publish, Move
  <2>9. CASE SpinEnds(w)
    BY <1>0, <2>9 DEF SpinEnds, Move
  <2>10. CASE QueueStolen(w)
    BY <1>0, <2>10 DEF QueueStolen, Move
  <2> QED
    BY Zenon, <1>1, <2>1, <2>2, <2>3, <2>4, <2>5, <2>6, <2>7, <2>8, <2>9, <2>10 DEF WorkerStep
<1>2. ASSUME NEW w \in Workers, WakeSpuriously(w) PROVE WorkerOK'
  BY <1>0, <1>2 DEF WakeSpuriously, Move, WorkerOK, QueueTypes, WorkerTypes
<1>3. ASSUME NEW w \in Workers, NEW v \in Workers, SpinSteals(w, v) PROVE WorkerOK'
  <2>1. Head(queue[v]) \in Tasks \cup {StopTask}
    BY <1>0, <1>3, TailOf DEF SpinSteals, QueueTypes
  <2> QED
    BY <1>0, <1>3, <2>1 DEF SpinSteals, Move, WorkerOK, QueueTypes, WorkerTypes
<1>4. ASSUME NEW th \in Threads, RunHere(th) PROVE WorkerOK'
  BY <1>0, <1>4 DEF RunHere, WorkerOK, QueueTypes
<1>5. ASSUME NEW th \in Threads, ReturnsHere(th) PROVE WorkerOK'
  BY <1>0, <1>5 DEF ReturnsHere, WorkerOK, QueueTypes
<1>6. CASE UNCHANGED <<notifyAdded, at, shutdown, running, carried>>
  BY <1>6 DEF WorkerOK
<1> QED
  BY Zenon, <1>1, <1>2, <1>3, <1>4, <1>5, <1>6, HandSteps

\* The steps that touch the bound threads, their queues and calls of enqueue().
LEMMA ThreadSteps ==
  ASSUME [Next]_vars
  PROVE  \/ \E th \in Threads : Bind(th) \/ Unbind(th) \/ RunHere(th) \/ ReturnsHere(th) \/ Leave(th)
         \/ \E a \in Actors : \/ EnqueueStep(a)
                              \/ \E t \in Tasks : EnqueueHere(a, t) \/ EnqueueBegins(a, t)
         \/ /\ UNCHANGED <<bound, enq>>
            /\ \/ \E w \in Workers : RunTask(w) \/ TaskReturns(w) \/ QueueStolen(w)
               \/ \E w \in Workers, v \in Workers : SpinSteals(w, v)
               \/ StopWorker
               \/ UNCHANGED <<queue, running>>
<1>1. \/ \E th \in Threads : Bind(th) \/ Unbind(th) \/ RunHere(th) \/ ReturnsHere(th) \/ Leave(th)
      \/ \E a \in Actors : \/ EnqueueStep(a)
                           \/ \E t \in Tasks : EnqueueHere(a, t) \/ EnqueueBegins(a, t)
      \/ UNCHANGED <<bound, enq>>
BY ZenonT(60) DEF vars, workVars, spinVars, callVars, outerVars, taskVars, Next, WorkerStep,
     UnbindStep, DestructorStep, Terminated, Start, Wait, Wake, WakeSpuriously, RunTask,
     TaskReturns, Exit, BeginSpinning, Publish, SpinEnds, QueueStolen, SpinSteals, Destroy,
     StopWorker, NotifyStopped, Join, Destroyed
<1> QED
  BY Zenon, <1>1, QueueSteps DEF EnqueueStep

\* A call of enqueue() that goes on does not change its task.
LEMMA CallKeepsTask ==
  ASSUME CallTypes, CallOK, NEW a \in Actors, EnqueueStep(a)
  PROVE  /\ enq[a].at # "none" /\ \A b \in Actors \ {a} : enq'[b] = enq[b]
         /\ enq'[a].task = enq[a].task \/ enq'[a].task = NoTask
         /\ (enq[a].at = "tryLock" /\ EnqueueAndUnlock(a)) \/ enq'[a].task = enq[a].task
<1>0. enq \in [Actors -> [at : CallPlaces, task : Tasks \cup {NoTask}, idx : Workers \cup {Nobody}]]
  BY DEF CallTypes
<1>1. ASSUME NEW p, NEW i, Call(a, p, i)
      PROVE  (\A b \in Actors \ {a} : enq'[b] = enq[b]) /\ enq'[a].task = enq[a].task
  BY <1>0, <1>1, CallMoves
<1>2. CASE PickSlot(a)
  BY <1>1, <1>2 DEF PickSlot
<1>3. CASE TakeSlot(a)
  BY <1>1, <1>3 DEF TakeSlot
<1>4. CASE RoundRobin(a)
  BY Zenon, <1>1, <1>4 DEF RoundRobin
<1>5. CASE TryAgain(a)
  BY Zenon, <1>1, <1>5 DEF TryAgain
<1>6. CASE EnqueueAndUnlock(a)
  BY <1>0, <1>6 DEF EnqueueAndUnlock, NoCall
<1>7. CASE NotifyAdded(a)
  BY <1>0, <1>7 DEF NotifyAdded, NoCall, CallOK
<1> QED
  BY Zenon, <1>2, <1>3, <1>4, <1>5, <1>6, <1>7 DEF EnqueueStep

\* Only a thread between bind() and unbind() has tasks of its own.
LEMMA NextThreadOK ==
  ASSUME TypeOK, CallOK, ThreadOK, StopOrder, [Next]_vars
  PROVE  ThreadOK'
<1>0. /\ QueueTypes /\ CallTypes /\ OuterTypes /\ Actors = Workers \cup Threads
      /\ Workers \cap Threads = {}
      /\ NoTask \notin Tasks \cup {StopTask}
  BY Zenon, SchedulerAssumption DEF TypeOK, Actors
<1>1. ASSUME NEW th \in Threads, Bind(th) PROVE ThreadOK'
  BY Zenon, <1>0, <1>1 DEF Bind, workVars, callVars, ThreadOK, OuterTypes
<1>2. ASSUME NEW th \in Threads, Unbind(th) PROVE ThreadOK'
  BY <1>0, <1>2 DEF Unbind, workVars, callVars, ThreadOK, OuterTypes, NoCall
<1>3. ASSUME NEW th \in Threads, Leave(th) PROVE ThreadOK'
  BY Zenon, <1>0, <1>3 DEF Leave, workVars, callVars, ThreadOK, OuterTypes
<1>4. ASSUME NEW th \in Threads, RunHere(th) PROVE ThreadOK'
  <2>1. Head(queue[th]) \in Tasks
    BY Zenon, <1>0, <1>4, TailOf DEF RunHere, QueueTypes
  <2> QED
    BY Zenon, <1>0, <1>4, <2>1 DEF RunHere, callVars, outerVars, ThreadOK, QueueTypes
<1>5. ASSUME NEW th \in Threads, ReturnsHere(th) PROVE ThreadOK'
  BY SMTT(30), ZenonT(60), <1>0, <1>5 DEF ReturnsHere, callVars, outerVars, ThreadOK, QueueTypes,
     NoCall
<1>6. ASSUME NEW a \in Actors, EnqueueStep(a) PROVE ThreadOK'
  <2>1. UNCHANGED <<bound, running>>
    BY Zenon, <1>6 DEF EnqueueStep, PickSlot, TakeSlot, RoundRobin, TryAgain, EnqueueAndUnlock,
       NotifyAdded, workVars, outerVars
  <2>2. \A th \in Threads : queue'[th] = queue[th]
    <3>1. CASE EnqueueAndUnlock(a)
      <4>1. enq[a].idx \in Workers
        BY <3>1 DEF EnqueueAndUnlock, CallOK
      <4> QED
        BY <1>0, <3>1, <4>1 DEF EnqueueAndUnlock, QueueTypes
    <3>2. CASE ~EnqueueAndUnlock(a)
      <4>1. queue' = queue
        BY Zenon, <1>6, <3>2 DEF EnqueueStep, PickSlot, TakeSlot, RoundRobin, TryAgain,
           NotifyAdded, workVars
      <4> QED
        BY <4>1
    <3> QED
      BY Zenon, <3>1, <3>2
  <2>3. /\ enq[a].at # "none" /\ \A b \in Actors \ {a} : enq'[b] = enq[b]
        /\ enq'[a].task = enq[a].task \/ enq'[a].task = NoTask
    BY Zenon, <1>0, <1>6, CallKeepsTask
  <2> QED
    BY <1>0, <2>1, <2>2, <2>3 DEF ThreadOK
<1>7. ASSUME NEW a \in Actors, NEW t \in Tasks, EnqueueHere(a, t) PROVE ThreadOK'
  <2>1. a \in Threads => bound[a] \in {"bound", "stopping"}
    BY SMTT(30), ZenonT(60), <1>0, <1>7 DEF EnqueueHere, MayCall, ThreadOK, OuterTypes
  <2> QED
    BY Zenon, <1>0, <1>7, <2>1 DEF EnqueueHere, callVars, outerVars, ThreadOK, QueueTypes
<1>8. ASSUME NEW a \in Actors, NEW t \in Tasks, EnqueueBegins(a, t) PROVE ThreadOK'
  <2>1. a \in Threads => bound[a] = "bound" \/ (bound[a] = "stopping" /\ running[a] # NoTask)
    BY <1>0, <1>8 DEF EnqueueBegins, MayCall, ThreadOK, OuterTypes
  <2>2. t \notin Children => a \in Threads /\ bound[a] = "bound"
    BY <1>8 DEF EnqueueBegins, MayCall
  <2>3. UNCHANGED <<bound, running, queue>>
    BY <1>8 DEF EnqueueBegins, workVars, outerVars
  <2>4. \A b \in Actors : b # a => enq'[b] = enq[b]
    BY <1>0, <1>8 DEF EnqueueBegins, CallTypes
  <2>5. enq'[a].at = "pick" /\ enq'[a].task = t
    BY <1>0, <1>8 DEF EnqueueBegins, CallTypes
  <2> QED
    BY <1>0, <2>1, <2>2, <2>3, <2>4, <2>5 DEF ThreadOK
<1>9. ASSUME UNCHANGED <<bound, enq>>, \A th \in Threads : queue'[th] = queue[th] /\ running'[th] = running[th]
      PROVE  ThreadOK'
  BY Zenon, <1>9 DEF ThreadOK
<1>10. ASSUME NEW w \in Workers, RunTask(w) \/ TaskReturns(w) \/ QueueStolen(w)
      PROVE  \A th \in Threads : queue'[th] = queue[th] /\ running'[th] = running[th]
  BY Zenon, <1>0, <1>10 DEF RunTask, TaskReturns, QueueStolen, QueueTypes
<1>11. ASSUME NEW w \in Workers, NEW v \in Workers, SpinSteals(w, v)
      PROVE  \A th \in Threads : queue'[th] = queue[th] /\ running'[th] = running[th]
  BY <1>0, <1>11 DEF SpinSteals, TakeFirst, QueueTypes
<1>12. CASE StopWorker
  <2>1. stopping \in Workers
    BY <1>12, StopsWorker DEF TypeOK
  <2>2. \A th \in Threads : queue'[th] = queue[th] /\ running'[th] = running[th]
    BY <1>0, <1>12, <2>1 DEF StopWorker, QueueTypes
  <2> QED
    BY <1>9, <1>12, <2>2 DEF StopWorker, callVars
<1>13. ASSUME UNCHANGED <<queue, running>>
      PROVE  \A th \in Threads : queue'[th] = queue[th] /\ running'[th] = running[th]
  BY <1>13
<1> QED
  BY Zenon, <1>1, <1>2, <1>3, <1>4, <1>5, <1>6, <1>7, <1>8, <1>9, <1>10, <1>11, <1>12, <1>13,
     ThreadSteps

\* What is on the queues after the first task was taken from one.
LEMMA QueueTail ==
  ASSUME QueueTypes, NEW b \in Actors, queue[b] # <<>>,
         queue' = [queue EXCEPT ![b] = Tail(queue[b])]
  PROVE  /\ Head(queue[b]) \in Tasks \cup {StopTask} /\ OnQueue(Head(queue[b]), b)
         /\ \A a \in Actors : \A x : OnQueue(x, a)' => OnQueue(x, a)
         /\ \A a \in Actors : \A x : OnQueue(x, a) => OnQueue(x, a)' \/ (a = b /\ x = Head(queue[b]))
         /\ QueuesInjective => QueuesInjective'
         /\ QueuesInjective => \A x \in Tasks : x = Head(queue[b]) => ~OnQueue(x, b)'
<1> DEFINE q == queue[b]
<1>1. q \in Seq(Tasks \cup {StopTask})
  BY DEF QueueTypes
<1>2. \A a \in Actors : queue'[a] = IF a = b THEN Tail(q) ELSE queue[a]
  BY DEF QueueTypes
<1>3. /\ Tail(q) \in Seq(Tasks \cup {StopTask}) /\ Head(q) = q[1] /\ Head(q) \in Tasks \cup {StopTask}
      /\ 1 \in DOMAIN q
      /\ \A i \in DOMAIN Tail(q) : i + 1 \in DOMAIN q /\ Tail(q)[i] = q[i + 1]
      /\ \A i \in DOMAIN q : i # 1 => i - 1 \in DOMAIN Tail(q) /\ Tail(q)[i - 1] = q[i]
  BY <1>1, TailOf
<1>n. DOMAIN q \subseteq Nat /\ DOMAIN Tail(q) \subseteq Nat \ {0}
  BY <1>1, <1>3
<1> HIDE DEF q
<1>4. Head(q) \in Tasks \cup {StopTask} /\ OnQueue(Head(q), b)
  BY <1>3 DEF OnQueue, q
<1>5. ASSUME NEW a \in Actors, NEW x, OnQueue(x, a)' PROVE OnQueue(x, a)
  BY <1>2, <1>3, <1>5 DEF OnQueue, q
<1>6. ASSUME NEW a \in Actors, NEW x, OnQueue(x, a) PROVE OnQueue(x, a)' \/ (a = b /\ x = Head(q))
  <2>1. CASE a # b
    BY <1>2, <1>6, <2>1 DEF OnQueue
  <2>2. CASE a = b
    <3>1. PICK i \in DOMAIN q : q[i] = x
      BY <1>6, <2>2 DEF OnQueue, q
    <3>2. CASE i = 1
      BY <1>3, <2>2, <3>1, <3>2
    <3>3. CASE i # 1
      <4>1. i - 1 \in DOMAIN Tail(q) /\ Tail(q)[i - 1] = x
        BY <1>3, <3>1, <3>3
      <4>2. i - 1 \in DOMAIN queue'[a] /\ queue'[a][i - 1] = x
        BY Zenon, <1>2, <2>2, <4>1
      <4> QED
        BY <4>2 DEF OnQueue
    <3> QED
      BY <3>2, <3>3
  <2> QED
    BY <2>1, <2>2
<1>7. ASSUME QueuesInjective PROVE QueuesInjective'
  <2> SUFFICES ASSUME NEW a \in Actors, NEW i \in DOMAIN queue'[a], NEW j \in DOMAIN queue'[a],
                      queue'[a][i] = queue'[a][j], queue'[a][i] \in Tasks
               PROVE  i = j
    BY DEF QueuesInjective
  <2>1. CASE a # b
    BY <1>2, <1>7, <2>1 DEF QueuesInjective
  <2>2. CASE a = b
    <3>1. /\ i \in DOMAIN Tail(q) /\ j \in DOMAIN Tail(q)
          /\ i + 1 \in DOMAIN q /\ j + 1 \in DOMAIN q /\ q[i + 1] = q[j + 1] /\ q[i + 1] \in Tasks
      BY ZenonT(60), <1>2, <1>3, <2>2
    <3>2. i + 1 = j + 1
      BY <1>7, <3>1 DEF QueuesInjective, q
    <3> QED
      BY <1>n, <3>1, <3>2
  <2> QED
    BY <2>1, <2>2
<1>8. ASSUME QueuesInjective, NEW x \in Tasks, x = Head(q), OnQueue(x, b)' PROVE FALSE
  <2>1. PICK i \in DOMAIN Tail(q) : Tail(q)[i] = Head(q)
    BY Zenon, <1>2, <1>8 DEF OnQueue
  <2>2. i + 1 \in DOMAIN q /\ q[i + 1] = q[1] /\ q[i + 1] \in Tasks
    BY <1>3, <1>8, <2>1
  <2>3. i + 1 = 1
    BY <1>3, <1>8, <2>2 DEF QueuesInjective, q
  <2> QED
    BY <1>n, <2>1, <2>3
<1> QED
  BY <1>4, <1>5, <1>6, <1>7, <1>8 DEF q

\* What is on the queues after a task was added to one.
LEMMA QueueAppend ==
  ASSUME QueueTypes, NEW b \in Actors, NEW y \in Tasks \cup {StopTask},
         queue' = [queue EXCEPT ![b] = Append(queue[b], y)]
  PROVE  /\ \A a \in Actors : \A x : OnQueue(x, a)' <=> OnQueue(x, a) \/ (a = b /\ x = y)
         /\ QueuesInjective /\ (y \in Tasks => ~OnQueue(y, b)) => QueuesInjective'
<1> DEFINE q == queue[b]
<1>1. q \in Seq(Tasks \cup {StopTask})
  BY DEF QueueTypes
<1>2. \A a \in Actors : queue'[a] = IF a = b THEN Append(q, y) ELSE queue[a]
  BY DEF QueueTypes
<1>3. /\ \A i \in DOMAIN q : i \in DOMAIN Append(q, y) /\ Append(q, y)[i] = q[i]
      /\ \E n \in DOMAIN Append(q, y) :
           /\ Append(q, y)[n] = y /\ n \notin DOMAIN q
           /\ \A i \in DOMAIN Append(q, y) : i = n \/ i \in DOMAIN q
  BY SMTT(60), <1>1, AppendOf
<1> HIDE DEF q
<1>4. PICK n \in DOMAIN Append(q, y) :
           /\ Append(q, y)[n] = y /\ n \notin DOMAIN q
           /\ \A i \in DOMAIN Append(q, y) : i = n \/ i \in DOMAIN q
  BY <1>3
<1>5. ASSUME NEW a \in Actors, NEW x PROVE OnQueue(x, a)' <=> OnQueue(x, a) \/ (a = b /\ x = y)
  <2>1. CASE a # b
    BY <1>2, <2>1 DEF OnQueue
  <2>2. CASE a = b
    BY ZenonT(60), <1>2, <1>3, <1>4, <2>2 DEF OnQueue, q
  <2> QED
    BY <2>1, <2>2
<1>6. ASSUME QueuesInjective, y \in Tasks => ~OnQueue(y, b) PROVE QueuesInjective'
  <2> SUFFICES ASSUME NEW a \in Actors, NEW i \in DOMAIN queue'[a], NEW j \in DOMAIN queue'[a],
                      queue'[a][i] = queue'[a][j], queue'[a][i] \in Tasks
               PROVE  i = j
    BY DEF QueuesInjective
  <2>1. CASE a # b
    BY <1>2, <1>6, <2>1 DEF QueuesInjective
  <2>2. CASE a = b
    <3>1. /\ i \in DOMAIN Append(q, y) /\ j \in DOMAIN Append(q, y)
          /\ Append(q, y)[i] = Append(q, y)[j] /\ Append(q, y)[i] \in Tasks
      BY Zenon, <1>2, <2>2
    <3>2. CASE i \in DOMAIN q /\ j \in DOMAIN q
      BY Zenon, <1>3, <1>6, <3>1, <3>2 DEF QueuesInjective, q
    <3>3. ASSUME NEW k \in DOMAIN q, q[k] = y, y \in Tasks PROVE FALSE
      BY <1>6, <3>3 DEF OnQueue, q
    <3> QED
      BY <1>3, <1>4, <3>1, <3>2, <3>3
  <2> QED
    BY <2>1, <2>2
<1> QED
  BY <1>5, <1>6

\* A worker that has exited does nothing any more, and a worker exits only with
\* `shutdown' set and nothing on its queue.
LEMMA WorkerExits ==
  ASSUME TypeOK, [Next]_vars
  PROVE  \A w \in Workers : /\ at[w] = "exited" => at'[w] = "exited"
                            /\ at'[w] = "exited" => at[w] = "exited" \/ Exit(w)
<1>0. WorkerTypes
  BY DEF TypeOK
<1> USE DEF WorkerTypes
<1>1. ASSUME NEW v \in Workers, WorkerStep(v)
      PROVE  \A w \in Workers : /\ at[w] = "exited" => at'[w] = "exited"
                                /\ at'[w] = "exited" => at[w] = "exited" \/ Exit(w)
  <2>1. CASE Start(v)
    BY <1>0, <2>1 DEF Start, Move
  <2>2. CASE Wait(v)
    BY <1>0, <2>2 DEF Wait, Sleep, Move
  <2>3. CASE Wake(v)
    BY <1>0, <2>3 DEF Wake, Move
  <2>4. CASE RunTask(v)
    BY <1>0, <2>4 DEF RunTask, Move
  <2>5. CASE TaskReturns(v)
    BY <1>0, <2>5 DEF TaskReturns, Move
  <2>6. CASE Exit(v)
    <3>1. \A w \in Workers : w # v => at'[w] = at[w]
      BY Zenon, <1>0, <2>6 DEF Exit, Move
    <3>2. at[v] # "exited"
      BY Zenon, <2>6 DEF Exit
    <3> QED
      BY Zenon, <2>6, <3>1, <3>2
  <2>7. CASE BeginSpinning(v)
    BY <1>0, <2>7 DEF BeginSpinning, Move
  <2>8. CASE Publish(v)
    BY <1>0, <2>8 DEF Publish, Move
  <2>9. CASE SpinEnds(v)
    BY <1>0, <2>9 DEF SpinEnds, Move
  <2>10. CASE QueueStolen(v)
    BY <1>0, <2>10 DEF QueueStolen, Move
  <2> QED
    BY Zenon, <1>1, <2>1, <2>2, <2>3, <2>4, <2>5, <2>6, <2>7, <2>8, <2>9, <2>10 DEF WorkerStep
<1>2. ASSUME NEW v \in Workers, WakeSpuriously(v)
      PROVE  \A w \in Workers : (at[w] = "exited") <=> (at'[w] = "exited")
  BY <1>0, <1>2 DEF WakeSpuriously, Move
<1>3. ASSUME NEW v \in Workers, NEW u \in Workers, SpinSteals(v, u)
      PROVE  \A w \in Workers : (at[w] = "exited") <=> (at'[w] = "exited")
  BY <1>0, <1>3 DEF SpinSteals, Move
<1>4. ASSUME NEW a \in Actors, NotifyAdded(a) PROVE at' = at
  BY <1>4 DEF NotifyAdded
<1>5. ASSUME NotifyStopped PROVE at' = at
  BY <1>5 DEF NotifyStopped
<1>6. ASSUME at' = at PROVE \A w \in Workers : (at[w] = "exited") <=> (at'[w] = "exited")
  BY <1>6
<1>7. CASE \E w \in Workers : WorkerStep(w)
  BY <1>1, <1>7
<1>8. CASE ~\E w \in Workers : WorkerStep(w)
  <2>1. \A w \in Workers : (at[w] = "exited") <=> (at'[w] = "exited")
    BY Zenon, <1>2, <1>3, <1>4, <1>5, <1>6, <1>8, WorkerSteps
  <2> QED
    BY <2>1
<1> QED
  BY <1>7, <1>8

LEMMA NextStopOrder ==
  ASSUME TypeOK, StopOrder, [Next]_vars
  PROVE  StopOrder'
<1>0. OuterTypes
  BY DEF TypeOK
<1>1. ASSUME NEW th \in Threads, Bind(th) \/ Unbind(th) \/ Leave(th) PROVE StopOrder'
  <2>1. UNCHANGED <<destructor, stopping, at>>
    BY Zenon, <1>1 DEF Bind, Unbind, Leave, workVars
  <2>2. destructor # "none" => BoundThreads' = {}
    BY <1>0, <1>1 DEF Bind, Unbind, Leave, BoundThreads, StopOrder, OuterTypes
  <2> QED
    BY <2>1, <2>2 DEF StopOrder
<1>2. CASE Destroy
  <2>1. /\ BoundThreads' = {} /\ destructor' = "stop" /\ stopping' = N - 1
    BY <1>2 DEF Destroy, BoundThreads
  <2>2. \A w \in Workers : ~(w > N - 1)
    BY SchedulerAssumption DEF Workers
  <2>3. N - 1 < N
    BY SchedulerAssumption
  <2> QED
    BY <2>1, <2>2, <2>3 DEF StopOrder
<1>3. CASE StopWorker
  <2>1. stopping \in Workers
    BY <1>0, <1>3, StopsWorker
  <2> QED
    BY <1>3, <2>1 DEF StopWorker, StopOrder, BoundThreads
<1>4. CASE NotifyStopped
  BY <1>4 DEF NotifyStopped, StopOrder, BoundThreads
<1>5. CASE Join
  <2>1. stopping \in Workers /\ stopping \in Int
    BY <1>5 DEF Join, StopOrder, Workers
  <2>2. /\ destructor' = "stop" /\ stopping' = stopping - 1 /\ at' = at /\ bound' = bound
        /\ at[stopping] = "exited" /\ destructor # "none"
    BY <1>5 DEF Join, workVars
  <2>3. \A w \in Workers : w > stopping - 1 => w > stopping \/ w = stopping
    BY <2>1 DEF Workers
  <2>4. stopping - 1 < N
    BY <2>1, SchedulerAssumption DEF Workers
  <2> QED
    BY <2>2, <2>3, <2>4 DEF StopOrder, BoundThreads
<1>6. CASE Destroyed
  <2>1. stopping = -1
    BY <1>0, <1>6, SchedulerAssumption DEF Destroyed, OuterTypes
  <2> QED
    BY <1>6, <2>1 DEF Destroyed, StopOrder, BoundThreads, workVars
<1>7. CASE UNCHANGED <<bound, destructor, stopping>>
  BY <1>7, WorkerExits DEF StopOrder, BoundThreads
<1> QED
  BY Zenon, <1>1, <1>2, <1>3, <1>4, <1>5, <1>6, <1>7, OuterSteps DEF DestructorStep

\* How a task can reach the queue of a worker.
LEMMA ReachesWorker ==
  ASSUME TypeOK, CallOK, WorkerOK, StopOrder, [Next]_vars, NEW w \in Workers, NEW x, OnQueue(x, w)'
  PROVE  \/ OnQueue(x, w)
         \/ at[w] = "stolen" /\ x = carried[w] /\ x \in Tasks
         \/ \E a \in Actors : enq[a].task = x /\ x \in Tasks
         \/ x \in Tasks /\ running[w] # NoTask
         \/ x = StopTask /\ destructor # "none"
<1>0. /\ QueueTypes /\ CallTypes /\ OuterTypes /\ Actors = Workers \cup Threads
      /\ Workers \cap Threads = {} /\ w \in Actors
      /\ NoTask \notin Tasks \cup {StopTask}
  BY SchedulerAssumption DEF TypeOK, Actors
<1> DEFINE Goal == \/ OnQueue(x, w)
                   \/ at[w] = "stolen" /\ x = carried[w] /\ x \in Tasks
                   \/ \E a \in Actors : enq[a].task = x /\ x \in Tasks
                   \/ x \in Tasks /\ running[w] # NoTask
                   \/ x = StopTask /\ destructor # "none"
<1>1. ASSUME NEW v \in Actors, queue[v] # <<>>, queue' = [queue EXCEPT ![v] = Tail(queue[v])]
      PROVE  Goal
  BY ZenonT(60), <1>0, <1>1, QueueTail
<1>2. ASSUME NEW v \in Workers, RunTask(v) PROVE Goal
  BY Zenon, <1>0, <1>1, <1>2 DEF RunTask
<1>3. ASSUME NEW v \in Workers, NEW u \in Workers, SpinSteals(v, u) PROVE Goal
  BY Zenon, <1>0, <1>1, <1>3 DEF SpinSteals, TakeFirst
<1>4. ASSUME NEW th \in Threads, RunHere(th) PROVE Goal
  BY ZenonT(60), <1>0, <1>1, <1>4 DEF RunHere
<1>5. ASSUME queue' = queue PROVE Goal
  BY Zenon, <1>5 DEF OnQueue
<1>6. ASSUME NEW v \in Workers, TaskReturns(v) PROVE Goal
  BY Zenon, <1>5, <1>6 DEF TaskReturns
<1>7. ASSUME NEW th \in Threads, ReturnsHere(th) PROVE Goal
  BY <1>5, <1>7 DEF ReturnsHere
<1>8. ASSUME NEW v \in Workers, QueueStolen(v) PROVE Goal
  <2>1. at[v] = "stolen" /\ carried[v] \in Tasks
    BY Zenon, <1>0, <1>8 DEF QueueStolen, WorkerOK, QueueTypes
  <2>2. OnQueue(x, w) \/ (w = v /\ x = carried[v])
    BY Zenon, <1>0, <1>8, <2>1, QueueAppend DEF QueueStolen
  <2> QED
    BY Zenon, <2>1, <2>2
<1>9. ASSUME NEW a \in Actors, EnqueueAndUnlock(a) PROVE Goal
  <2>1. enq[a].idx \in Workers /\ enq[a].task \in Tasks
    BY <1>0, <1>9 DEF EnqueueAndUnlock, CallOK, CallTypes
  <2>2. PICK b \in Workers, y \in Tasks : b = enq[a].idx /\ y = enq[a].task
    BY <2>1
  <2>3. queue' = [queue EXCEPT ![b] = Append(queue[b], y)]
    BY <1>9, <2>2 DEF EnqueueAndUnlock
  <2>4. OnQueue(x, w) \/ (w = b /\ x = y)
    BY Zenon, <1>0, <2>3, QueueAppend
  <2> QED
    BY Zenon, <2>2, <2>4
<1>10. ASSUME NEW a \in Actors, NEW t \in Tasks, EnqueueHere(a, t) PROVE Goal
  <2>1. OnQueue(x, w) \/ (w = a /\ x = t)
    BY Zenon, <1>0, <1>10, QueueAppend DEF EnqueueHere
  <2>2. w = a => running[w] # NoTask
    BY Zenon, <1>0, <1>10 DEF EnqueueHere, MayCall
  <2> QED
    BY <2>1, <2>2
<1>11. ASSUME StopWorker PROVE Goal
  <2>1. stopping \in Actors
    BY <1>0, <1>11, StopsWorker
  <2>2. OnQueue(x, w) \/ (w = stopping /\ x = StopTask)
    BY Zenon, <1>0, <1>11, <2>1, QueueAppend DEF StopWorker
  <2> QED
    BY <1>11, <2>2 DEF StopWorker
<1> HIDE DEF Goal
<1>12. Goal
  BY Zenon, <1>2, <1>3, <1>4, <1>5, <1>6, <1>7, <1>8, <1>9, <1>10, <1>11, QueueSteps
<1> QED
  BY <1>12 DEF Goal

LEMMA NextStopCause ==
  ASSUME TypeOK, CallOK, WorkerOK, StopOrder, StopCause, [Next]_vars
  PROVE  StopCause'
<1>0. /\ QueueTypes /\ WorkerTypes /\ Actors = Workers \cup Threads /\ Workers \cap Threads = {}
      /\ StopTask \notin Tasks /\ NoTask # StopTask
  BY SchedulerAssumption DEF TypeOK, Actors
<1>1. destructor # "none" => destructor' # "none"
  <2>1. ASSUME NEW th \in Threads, Bind(th) \/ Unbind(th) \/ Leave(th) PROVE destructor' = destructor
    BY <2>1 DEF Bind, Unbind, Leave
  <2>2. CASE Destroy \/ DestructorStep
    BY <2>2 DEF Destroy, DestructorStep, StopWorker, NotifyStopped, Join, Destroyed
  <2> QED
    BY Zenon, <2>1, <2>2, OuterSteps
<1>2. ASSUME NEW w \in Workers, OnQueue(StopTask, w)' PROVE destructor' # "none"
  <2>1. OnQueue(StopTask, w) \/ destructor # "none"
    BY Zenon, <1>0, <1>2, ReachesWorker
  <2> QED
    BY <1>1, <2>1 DEF StopCause
<1>3. ASSUME NEW w \in Workers, at'[w] = "exited" PROVE destructor' # "none"
  BY Zenon, <1>1, <1>3, WorkerExits DEF StopCause, Exit
<1>4. ASSUME NEW w \in Workers, running'[w] = StopTask PROVE destructor' # "none"
  <2> SUFFICES running[w] = StopTask \/ OnQueue(StopTask, w)
    BY <1>1 DEF StopCause
  <2>1. ASSUME NEW v \in Workers, RunTask(v) PROVE running[w] = StopTask \/ OnQueue(StopTask, w)
    <3>1. w # v => running[w] = StopTask
      BY Zenon, <1>0, <1>4, <2>1 DEF RunTask, QueueTypes
    <3>2. OnQueue(Head(queue[v]), v)
      BY Zenon, <1>0, <2>1, QueueTail DEF RunTask
    <3>3. w = v => Head(queue[v]) = StopTask
      BY Zenon, <1>0, <1>4, <2>1 DEF RunTask, QueueTypes
    <3> QED
      BY Zenon, <3>1, <3>2, <3>3
  <2>2. ASSUME NEW v \in Workers, TaskReturns(v) PROVE running[w] = StopTask
    BY ZenonT(60), <1>0, <1>4, <2>2 DEF TaskReturns, QueueTypes
  <2>3. ASSUME NEW th \in Threads, RunHere(th) \/ ReturnsHere(th) PROVE running[w] = StopTask
    BY <1>0, <1>4, <2>3 DEF RunHere, ReturnsHere, QueueTypes
  <2>4. ASSUME running' = running PROVE running[w] = StopTask
    BY <1>4, <2>4
  <2>5. ASSUME NEW v \in Workers, QueueStolen(v) PROVE running' = running
    BY <2>5 DEF QueueStolen
  <2>6. ASSUME NEW v \in Workers, NEW u \in Workers, SpinSteals(v, u) PROVE running' = running
    BY <2>6 DEF SpinSteals
  <2>7. ASSUME NEW a \in Actors, EnqueueAndUnlock(a) PROVE running' = running
    BY <2>7 DEF EnqueueAndUnlock
  <2>8. ASSUME NEW a \in Actors, NEW t \in Tasks, EnqueueHere(a, t) PROVE running' = running
    BY <2>8 DEF EnqueueHere
  <2>9. ASSUME StopWorker PROVE running' = running
    BY <2>9 DEF StopWorker
  <2> QED
    BY Zenon, <2>1, <2>2, <2>3, <2>4, <2>5, <2>6, <2>7, <2>8, <2>9, QueueSteps
<1>5. ASSUME NEW w \in Workers, shutdown'[w] PROVE destructor' # "none"
  <2> SUFFICES shutdown[w] \/ running[w] = StopTask
    BY <1>1 DEF StopCause
  <2>1. ASSUME NEW v \in Workers, TaskReturns(v) PROVE shutdown[w] \/ running[w] = StopTask
    BY <1>0, <1>5, <2>1 DEF TaskReturns, WorkerTypes
  <2>2. ASSUME shutdown' = shutdown PROVE shutdown[w] \/ running[w] = StopTask
    BY <1>5, <2>2
  <2>3. (\E v \in Workers : TaskReturns(v)) \/ shutdown' = shutdown
    BY ZenonT(60), WorkerSteps DEF WorkerStep, Start, Wait, Wake, WakeSpuriously, RunTask, Exit,
       BeginSpinning,
       Publish, SpinEnds, QueueStolen, SpinSteals, NotifyAdded, NotifyStopped
  <2> QED
    BY <2>1, <2>2, <2>3
<1> QED
  BY Zenon, <1>2, <1>3, <1>4, <1>5 DEF StopCause

LEMMA NextLeftBehind ==
  ASSUME TypeOK, CallOK, WorkerOK, ThreadOK, StopOrder, StopCause, LeftBehind, [Next]_vars
  PROVE  LeftBehind'
<1> SUFFICES ASSUME NEW w \in Workers, at'[w] = "exited", NEW t \in Tasks \ Children, OnQueue(t, w)'
             PROVE  FALSE
  BY DEF LeftBehind
<1>0. StopTask \notin Tasks
  BY SchedulerAssumption
<1>1. CASE at[w] = "exited"
  <2>1. destructor # "none" /\ BoundThreads = {}
    BY <1>1 DEF StopCause, StopOrder
  <2>2. ~OnQueue(t, w) /\ running[w] = NoTask
    BY Zenon, <1>1 DEF LeftBehind, WorkerOK
  <2>3. PICK a \in Actors : enq[a].task = t
    BY SMTT(60), <1>0, <1>1, <2>2, ReachesWorker
  <2>4. a \in BoundThreads
    BY Zenon, <2>3 DEF ThreadOK, BoundThreads
  <2> QED
    BY <2>1, <2>4
<1>2. CASE Exit(w)
  <2>1. queue'[w] = <<>>
    BY Zenon, <1>2 DEF Exit
  <2> QED
    BY <2>1 DEF OnQueue
<1> QED
  BY <1>1, <1>2, WorkerExits
=============================================================================
