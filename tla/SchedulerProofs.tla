-------------------------- MODULE SchedulerProofs --------------------------
(***************************************************************************)
(* Proofs about marl::Scheduler for any number of worker threads, bound    *)
(* threads and tasks, and any width of the index counters: no task is lost *)
(* or executed twice, no worker sleeps on work that nobody notifies it of, *)
(* tasks flagged SameThread are not stolen, and ~Scheduler() returns only  *)
(* when every task of a bound thread is complete.                          *)
(***************************************************************************)
EXTENDS SchedulerInvariant, FiniteSetTheorems

\* The steps that move a task from one place to another, schedule it or complete it.
LEMMA PlaceSteps ==
  ASSUME [Next]_vars
  PROVE  \/ \E w \in Workers : \/ RunTask(w) \/ TaskReturns(w) \/ QueueStolen(w)
                               \/ \E v \in Workers : SpinSteals(w, v)
         \/ \E a \in Actors : \/ EnqueueStep(a)
                              \/ \E t \in Tasks : EnqueueHere(a, t) \/ EnqueueBegins(a, t)
         \/ \E th \in Threads : RunHere(th) \/ ReturnsHere(th)
         \/ StopWorker
         \/ UNCHANGED <<queue, running, carried, enq, scheduled, done>>
BY ZenonT(60) DEF vars, workVars, spinVars, callVars, outerVars, taskVars, Next, WorkerStep,
   UnbindStep, DestructorStep, Terminated, Start, Wait, Wake, WakeSpuriously, Exit,
   BeginSpinning, Publish, SpinEnds, Bind, Unbind, Leave, Destroy, NotifyStopped, Join,
   Destroyed

\* A step moves a task, if at all, from one place to one place.
LEMMA PlaceMoves ==
  ASSUME OnePlace, NEW t \in Tasks, NEW k0 \in Kinds, NEW a0 \in Actors,
         NEW k1 \in Kinds, NEW a1 \in Actors,
         Has(t, k0, a0), Has(t, k1, a1)',
         \A u \in Tasks, k \in Kinds, a \in Actors :
           Has(u, k, a)' <=> \/ Has(u, k, a) /\ ~(u = t /\ k = k0 /\ a = a0)
                             \/ u = t /\ k = k1 /\ a = a1,
         UNCHANGED <<scheduled, done>>
  PROVE  OnePlace'
<1> SUFFICES ASSUME NEW u \in Tasks
             PROVE /\ \A k, l \in Kinds, a, b \in Actors : Has(u, k, a)' /\ Has(u, l, b)' => k = l /\ a = b
                   /\ u \in done => \A k \in Kinds, a \in Actors : ~Has(u, k, a)'
                   /\ u \in scheduled <=> u \in done \/ \E k \in Kinds, a \in Actors : Has(u, k, a)'
  BY DEF OnePlace
<1>1. /\ \A k, l \in Kinds, a, b \in Actors : Has(u, k, a) /\ Has(u, l, b) => k = l /\ a = b
      /\ u \in done => \A k \in Kinds, a \in Actors : ~Has(u, k, a)
      /\ u \in scheduled <=> u \in done \/ \E k \in Kinds, a \in Actors : Has(u, k, a)
  BY DEF OnePlace
<1>2. \A k \in Kinds, a \in Actors : Has(u, k, a)' <=> \/ Has(u, k, a) /\ ~(u = t /\ k = k0 /\ a = a0)
                                                       \/ u = t /\ k = k1 /\ a = a1
  OBVIOUS
<1>3. CASE u # t
  <2>1. \A k \in Kinds, a \in Actors : Has(u, k, a)' <=> Has(u, k, a)
    BY <1>2, <1>3
  <2> QED
    BY ONLY <1>1, <2>1
<1>4. CASE u = t
  <2>1. Has(u, k0, a0)
    BY <1>4
  <2>2. \A k \in Kinds, a \in Actors : Has(u, k, a)' <=> k = k1 /\ a = a1
    BY ONLY <1>1, <1>2, <1>4, <2>1, k0 \in Kinds, a0 \in Actors
  <2> QED
    BY <1>1, <2>1, <2>2
<1> QED
  BY <1>3, <1>4

\* A task completes.
LEMMA PlaceEnds ==
  ASSUME OnePlace, NEW t \in Tasks, NEW k0 \in Kinds, NEW a0 \in Actors, Has(t, k0, a0),
         \A u \in Tasks, k \in Kinds, a \in Actors :
           Has(u, k, a)' <=> Has(u, k, a) /\ ~(u = t /\ k = k0 /\ a = a0),
         done' = done \cup {t}, scheduled' = scheduled
  PROVE  OnePlace'
<1> SUFFICES ASSUME NEW u \in Tasks
             PROVE /\ \A k, l \in Kinds, a, b \in Actors : Has(u, k, a)' /\ Has(u, l, b)' => k = l /\ a = b
                   /\ u \in done' => \A k \in Kinds, a \in Actors : ~Has(u, k, a)'
                   /\ u \in scheduled <=> u \in done' \/ \E k \in Kinds, a \in Actors : Has(u, k, a)'
  BY DEF OnePlace
<1>1. /\ \A k, l \in Kinds, a, b \in Actors : Has(u, k, a) /\ Has(u, l, b) => k = l /\ a = b
      /\ u \in done => \A k \in Kinds, a \in Actors : ~Has(u, k, a)
      /\ u \in scheduled <=> u \in done \/ \E k \in Kinds, a \in Actors : Has(u, k, a)
  BY DEF OnePlace
<1>2. \A k \in Kinds, a \in Actors : Has(u, k, a)' <=> Has(u, k, a) /\ ~(u = t /\ k = k0 /\ a = a0)
  OBVIOUS
<1>3. CASE u # t
  <2>1. \A k \in Kinds, a \in Actors : Has(u, k, a)' <=> Has(u, k, a)
    BY <1>2, <1>3
  <2>2. u \in done' <=> u \in done
    BY <1>3
  <2> QED
    BY ONLY <1>1, <2>1, <2>2
<1>4. CASE u = t
  <2>1. Has(u, k0, a0) /\ u \in done'
    BY <1>4
  <2>2. \A k \in Kinds, a \in Actors : ~Has(u, k, a)'
    BY ONLY <1>1, <1>2, <1>4, <2>1, k0 \in Kinds, a0 \in Actors
  <2> QED
    BY <1>1, <2>1, <2>2
<1> QED
  BY <1>3, <1>4

\* A task is scheduled.
LEMMA PlaceBegins ==
  ASSUME OnePlace, NEW t \in Tasks \ scheduled, NEW k1 \in Kinds, NEW a1 \in Actors,
         Has(t, k1, a1)',
         \A u \in Tasks, k \in Kinds, a \in Actors :
           Has(u, k, a)' <=> Has(u, k, a) \/ (u = t /\ k = k1 /\ a = a1),
         scheduled' = scheduled \cup {t}, done' = done
  PROVE  OnePlace'
<1> SUFFICES ASSUME NEW u \in Tasks
             PROVE /\ \A k, l \in Kinds, a, b \in Actors : Has(u, k, a)' /\ Has(u, l, b)' => k = l /\ a = b
                   /\ u \in done => \A k \in Kinds, a \in Actors : ~Has(u, k, a)'
                   /\ u \in scheduled' <=> u \in done \/ \E k \in Kinds, a \in Actors : Has(u, k, a)'
  BY DEF OnePlace
<1>1. /\ \A k, l \in Kinds, a, b \in Actors : Has(u, k, a) /\ Has(u, l, b) => k = l /\ a = b
      /\ u \in done => \A k \in Kinds, a \in Actors : ~Has(u, k, a)
      /\ u \in scheduled <=> u \in done \/ \E k \in Kinds, a \in Actors : Has(u, k, a)
  BY DEF OnePlace
<1>2. \A k \in Kinds, a \in Actors : Has(u, k, a)' <=> Has(u, k, a) \/ (u = t /\ k = k1 /\ a = a1)
  OBVIOUS
<1>3. CASE u # t
  <2>1. \A k \in Kinds, a \in Actors : Has(u, k, a)' <=> Has(u, k, a)
    BY <1>2, <1>3
  <2>2. u \in scheduled' <=> u \in scheduled
    BY <1>3
  <2> QED
    BY ONLY <1>1, <2>1, <2>2
<1>4. CASE u = t
  <2>1. u \notin scheduled /\ u \in scheduled'
    BY <1>4
  <2>2. u \notin done /\ \A k \in Kinds, a \in Actors : Has(u, k, a)' <=> k = k1 /\ a = a1
    BY ONLY <1>1, <1>2, <1>4, <2>1
  <2> QED
    BY <2>1, <2>2
<1> QED
  BY <1>3, <1>4

\* The ways to have a task, one by one.
LEMMA HasBy ==
  ASSUME NEW u, NEW a
  PROVE  /\ Has(u, "queued", a) <=> OnQueue(u, a)
         /\ Has(u, "called", a) <=> enq[a].task = u
         /\ Has(u, "carried", a) <=> a \in Workers /\ carried[a] = u
         /\ Has(u, "running", a) <=> running[a] = u
         /\ Has(u, "queued", a)' <=> OnQueue(u, a)'
         /\ Has(u, "called", a)' <=> enq'[a].task = u
         /\ Has(u, "carried", a)' <=> a \in Workers /\ carried'[a] = u
         /\ Has(u, "running", a)' <=> running'[a] = u
BY DEF Has

\* Moving a task between queues, callers, thieves and workers neither loses nor
\* duplicates it.
LEMMA NextOnePlace ==
  ASSUME TypeOK, CallOK, WorkerOK, OnePlace, QueuesInjective, [Next]_vars
  PROVE  OnePlace' /\ QueuesInjective'
<1>0. /\ QueueTypes /\ CallTypes /\ OuterTypes /\ Actors = Workers \cup Threads
      /\ Workers \cap Threads = {}
      /\ StopTask \notin Tasks /\ NoTask \notin Tasks \cup {StopTask}
  BY SchedulerAssumption DEF TypeOK, Actors
<1> DEFINE Goal == OnePlace' /\ QueuesInjective'
<1>K. /\ \A k \in Kinds : k = "queued" \/ k = "called" \/ k = "carried" \/ k = "running"
      /\ "queued" \in Kinds /\ "called" \in Kinds /\ "carried" \in Kinds /\ "running" \in Kinds
  BY DEF Kinds
<1>1. ASSUME NEW w \in Actors, queue[w] # <<>>, running[w] = NoTask,
             queue' = [queue EXCEPT ![w] = Tail(queue[w])],
             running' = [running EXCEPT ![w] = Head(queue[w])],
             UNCHANGED <<enq, carried, scheduled, done>>
      PROVE  Goal
  <2>1. PICK h : h = Head(queue[w])
    OBVIOUS
  <2>2. /\ h \in Tasks \cup {StopTask} /\ OnQueue(h, w) /\ QueuesInjective'
        /\ \A u \in Tasks, a \in Actors : OnQueue(u, a)' <=> OnQueue(u, a) /\ ~(u = h /\ a = w)
    BY Zenon, <1>0, <1>1, <2>1, QueueTail
  <2>3. \A a \in Actors : running'[a] = IF a = w THEN h ELSE running[a]
    BY <1>0, <1>1, <2>1 DEF QueueTypes
  <2>4. \A u \in Tasks, k \in Kinds, a \in Actors :
           Has(u, k, a)' <=> \/ Has(u, k, a) /\ ~(u = h /\ k = "queued" /\ a = w)
                             \/ u = h /\ k = "running" /\ a = w
    <3> SUFFICES ASSUME NEW u \in Tasks, NEW a \in Actors, NEW k \in Kinds
                 PROVE  Has(u, k, a)' <=> \/ Has(u, k, a) /\ ~(u = h /\ k = "queued" /\ a = w)
                                          \/ u = h /\ k = "running" /\ a = w
      OBVIOUS
    <3> QED
      BY <1>0, <1>1, <1>K, <2>2, <2>3, HasBy
  <2>5. Has(h, "queued", w) /\ Has(h, "running", w)'
    BY <2>2, <2>3, HasBy
  <2>6. OnePlace'
    <3>1. CASE h \in Tasks
      BY <1>1, <1>K, <2>4, <2>5, <3>1, PlaceMoves
    <3>2. CASE h \notin Tasks
      <4>1. \A u \in Tasks, k \in Kinds, a \in Actors : Has(u, k, a)' <=> Has(u, k, a)
        BY <2>4, <3>2
      <4> QED
        BY <1>1, <4>1 DEF OnePlace
    <3> QED
      BY <3>1, <3>2
  <2> QED
    BY <2>2, <2>6
<1>2. ASSUME NEW w \in Workers, RunTask(w) PROVE Goal
  BY Zenon, <1>0, <1>1, <1>2 DEF RunTask, WorkerOK, callVars, taskVars
<1>3. ASSUME NEW th \in Threads, RunHere(th) PROVE Goal
  BY Zenon, <1>0, <1>1, <1>3 DEF RunHere, callVars, taskVars
<1>4. ASSUME NEW w \in Actors, running[w] \in Tasks, running' = [running EXCEPT ![w] = NoTask],
             UNCHANGED <<queue, enq, carried, scheduled>>, done' = done \cup {running[w]}
      PROVE  Goal
  <2>1. PICK h \in Tasks : h = running[w]
    BY <1>4
  <2>2. \A a \in Actors : running'[a] = IF a = w THEN NoTask ELSE running[a]
    BY <1>0, <1>4 DEF QueueTypes
  <2>3. \A x : \A a \in Actors : OnQueue(x, a)' <=> OnQueue(x, a)
    BY <1>4 DEF OnQueue
  <2>4. \A u \in Tasks, k \in Kinds, a \in Actors :
           Has(u, k, a)' <=> Has(u, k, a) /\ ~(u = h /\ k = "running" /\ a = w)
    <3> SUFFICES ASSUME NEW u \in Tasks, NEW a \in Actors, NEW k \in Kinds
                 PROVE  Has(u, k, a)' <=> Has(u, k, a) /\ ~(u = h /\ k = "running" /\ a = w)
      OBVIOUS
    <3> QED
      BY <1>0, <1>4, <1>K, <2>1, <2>2, <2>3, HasBy
  <2>5. Has(h, "running", w)
    BY <2>1, HasBy
  <2>6. done' = done \cup {h} /\ scheduled' = scheduled
    BY <1>4, <2>1
  <2>7. QueuesInjective'
    BY <1>4 DEF QueuesInjective
  <2>8. OnePlace'
    BY <1>K, <2>4, <2>5, <2>6, PlaceEnds
  <2> QED
    BY <2>7, <2>8
<1>5. ASSUME NEW w \in Workers, TaskReturns(w) PROVE Goal
  <2>1. running[w] \in Tasks \cup {StopTask}
    BY <1>0, <1>5 DEF TaskReturns, WorkerOK, QueueTypes
  <2>2. CASE running[w] \in Tasks
    <3>1. done' = done \cup {running[w]}
      BY <1>0, <1>5, <2>2 DEF TaskReturns
    <3> QED
      BY Zenon, <1>0, <1>4, <1>5, <2>2, <3>1 DEF TaskReturns, callVars
  <2>3. CASE running[w] = StopTask
    <3>1. done' = done /\ UNCHANGED <<queue, carried, enq, scheduled>>
      BY <1>5, <2>3 DEF TaskReturns, callVars
    <3>2. \A u \in Tasks, a \in Actors : (running'[a] = u) <=> (running[a] = u)
      BY <1>0, <1>5, <2>3 DEF TaskReturns, QueueTypes
    <3>3. \A u \in Tasks, k \in Kinds, a \in Actors : Has(u, k, a)' <=> Has(u, k, a)
      BY <3>1, <3>2 DEF Has, OnQueue
    <3>4. OnePlace'
      BY <3>1, <3>3 DEF OnePlace
    <3> QED
      BY <3>1, <3>4 DEF QueuesInjective
  <2> QED
    BY <2>1, <2>2, <2>3
<1>6. ASSUME NEW th \in Threads, ReturnsHere(th) PROVE Goal
  <2>1. running[th] \in Tasks
    BY <1>0, <1>6 DEF ReturnsHere, QueueTypes
  <2> QED
    BY Zenon, <1>0, <1>4, <1>6, <2>1 DEF ReturnsHere, callVars
<1>7. ASSUME NEW w \in Workers, QueueStolen(w) PROVE Goal
  <2>1. PICK h \in Tasks : h = carried[w]
    BY <1>0, <1>7 DEF QueueStolen, WorkerOK, QueueTypes
  <2>2. /\ queue' = [queue EXCEPT ![w] = Append(queue[w], h)]
        /\ UNCHANGED <<enq, running, scheduled, done>>
    BY <1>7, <2>1 DEF QueueStolen, callVars, taskVars
  <2>3. Has(h, "carried", w)
    BY <2>1, HasBy
  <2>4. ~OnQueue(h, w)
    BY <1>0, <1>K, <2>3, HasBy DEF OnePlace
  <2>5. QueuesInjective' /\ \A u \in Tasks, a \in Actors : OnQueue(u, a)' <=> OnQueue(u, a) \/ (a = w /\ u = h)
    BY Zenon, <1>0, <2>2, <2>4, QueueAppend
  <2>6. \A v \in Workers : carried'[v] = IF v = w THEN NoTask ELSE carried[v]
    BY Zenon, <1>0, <1>7 DEF QueueStolen, QueueTypes
  <2>7. \A u \in Tasks, k \in Kinds, a \in Actors :
           Has(u, k, a)' <=> \/ Has(u, k, a) /\ ~(u = h /\ k = "carried" /\ a = w)
                             \/ u = h /\ k = "queued" /\ a = w
    <3> SUFFICES ASSUME NEW u \in Tasks, NEW a \in Actors, NEW k \in Kinds
                 PROVE  Has(u, k, a)' <=> \/ Has(u, k, a) /\ ~(u = h /\ k = "carried" /\ a = w)
                                          \/ u = h /\ k = "queued" /\ a = w
      OBVIOUS
    <3> QED
      BY <1>0, <1>K, <2>1, <2>2, <2>5, <2>6, HasBy
  <2>8. OnePlace'
    <3>1. Has(h, "queued", w)' /\ w \in Actors
      BY <1>0, <2>5, HasBy
    <3>2. h \in Tasks /\ UNCHANGED <<scheduled, done>>
      BY <2>2
    <3> QED
      BY ONLY SMTT(30), ZenonT(60), OnePlace, <1>K, <2>3, <2>7, <3>1, <3>2, PlaceMoves
  <2> QED
    BY <2>5, <2>8
<1>8. ASSUME NEW w \in Workers, NEW v \in Workers, SpinSteals(w, v) PROVE Goal
  <2>1. /\ queue[v] # <<>> /\ queue' = [queue EXCEPT ![v] = Tail(queue[v])]
        /\ UNCHANGED <<enq, running, scheduled, done>> /\ carried[w] = NoTask
        /\ Head(queue[v]) # StopTask
    BY <1>8 DEF SpinSteals, TakeFirst, Stealable, WorkerOK, callVars, taskVars
  <2>2. PICK h : h = Head(queue[v])
    OBVIOUS
  <2>3. /\ h \in Tasks /\ OnQueue(h, v) /\ QueuesInjective'
        /\ \A u \in Tasks, a \in Actors : OnQueue(u, a)' <=> OnQueue(u, a) /\ ~(u = h /\ a = v)
    BY Zenon, <1>0, <2>1, <2>2, QueueTail
  <2>4. \A x \in Workers : carried'[x] = IF x = w THEN h ELSE carried[x]
    BY ZenonT(60), <1>0, <1>8, <2>2 DEF SpinSteals, QueueTypes
  <2>5. \A u \in Tasks, k \in Kinds, a \in Actors :
           Has(u, k, a)' <=> \/ Has(u, k, a) /\ ~(u = h /\ k = "queued" /\ a = v)
                             \/ u = h /\ k = "carried" /\ a = w
    <3> SUFFICES ASSUME NEW u \in Tasks, NEW a \in Actors, NEW k \in Kinds
                 PROVE  Has(u, k, a)' <=> \/ Has(u, k, a) /\ ~(u = h /\ k = "queued" /\ a = v)
                                          \/ u = h /\ k = "carried" /\ a = w
      OBVIOUS
    <3> QED
      BY <1>0, <1>K, <2>1, <2>3, <2>4, HasBy
  <2>6. Has(h, "queued", v) /\ Has(h, "carried", w)' /\ v \in Actors /\ w \in Actors
    BY Zenon, <1>0, <2>3, <2>4, HasBy
  <2>7. OnePlace'
    <3>1. h \in Tasks /\ UNCHANGED <<scheduled, done>>
      BY <2>1, <2>3
    <3> QED
      BY ONLY OnePlace, <1>K, <2>5, <2>6, <3>1, PlaceMoves
  <2> QED
    BY <2>3, <2>7
<1>9. ASSUME NEW b \in Actors, EnqueueStep(b) PROVE Goal
  <2>1. /\ UNCHANGED <<running, carried, scheduled, done>>
        /\ EnqueueAndUnlock(b) \/ queue' = queue
    BY Zenon, <1>9 DEF EnqueueStep, PickSlot, TakeSlot, RoundRobin, TryAgain, EnqueueAndUnlock,
       NotifyAdded, workVars, outerVars, taskVars
  <2>2. /\ \A c \in Actors \ {b} : enq'[c] = enq[c]
        /\ EnqueueAndUnlock(b) \/ enq'[b].task = enq[b].task
    BY <1>0, <1>9, CallKeepsTask
  <2>3. CASE EnqueueAndUnlock(b)
    <3>1. PICK h \in Tasks, w \in Workers : h = enq[b].task /\ w = enq[b].idx
      BY Zenon, <1>0, <2>3 DEF EnqueueAndUnlock, CallOK, CallTypes
    <3>2. queue' = [queue EXCEPT ![w] = Append(queue[w], h)]
      BY Zenon, <2>3, <3>1 DEF EnqueueAndUnlock
    <3>3. Has(h, "called", b)
      BY Zenon, <3>1, HasBy
    <3>4. ~OnQueue(h, w)
      BY <1>0, <1>K, <3>3, HasBy DEF OnePlace
    <3>5. QueuesInjective' /\ \A u \in Tasks, a \in Actors : OnQueue(u, a)' <=> OnQueue(u, a) \/ (a = w /\ u = h)
      BY Zenon, <1>0, <3>2, <3>4, QueueAppend
    <3>6. enq'[b].task = NoTask
      BY ZenonT(60), <1>0, <2>3 DEF EnqueueAndUnlock, CallTypes, NoCall
    <3>7. \A u \in Tasks, k \in Kinds, a \in Actors :
             Has(u, k, a)' <=> \/ Has(u, k, a) /\ ~(u = h /\ k = "called" /\ a = b)
                               \/ u = h /\ k = "queued" /\ a = w
      <4> SUFFICES ASSUME NEW u \in Tasks, NEW a \in Actors, NEW k \in Kinds
                   PROVE  Has(u, k, a)' <=> \/ Has(u, k, a) /\ ~(u = h /\ k = "called" /\ a = b)
                                            \/ u = h /\ k = "queued" /\ a = w
        OBVIOUS
      <4> QED
        BY SMTT(60), <1>0, <1>K, <2>1, <2>2, <3>1, <3>5, <3>6, HasBy
    <3>8. OnePlace'
      <4>1. Has(h, "queued", w)' /\ w \in Actors
        BY <1>0, <3>5, HasBy
      <4> QED
        BY SMTT(30), ZenonT(60), <1>K, <2>1, <3>3, <3>7, <4>1, PlaceMoves
    <3> QED
      BY Zenon, <3>5, <3>8
  <2>4. CASE queue' = queue /\ enq'[b].task = enq[b].task
    <3>1. \A a \in Actors : enq'[a].task = enq[a].task
      BY Zenon, <2>2, <2>4
    <3>2. \A u \in Tasks, k \in Kinds, a \in Actors : Has(u, k, a)' <=> Has(u, k, a)
      BY SMTT(60), <2>1, <2>4, <3>1 DEF Has, OnQueue
    <3>3. OnePlace'
      BY <2>1, <3>2 DEF OnePlace
    <3> QED
      BY <2>4, <3>3 DEF QueuesInjective
  <2> QED
    BY <2>1, <2>2, <2>3, <2>4
<1>10. ASSUME NEW b \in Actors, NEW t \in Tasks, EnqueueHere(b, t) PROVE Goal
  <2>1. /\ queue' = [queue EXCEPT ![b] = Append(queue[b], t)] /\ t \in Tasks \ scheduled
        /\ UNCHANGED <<enq, running, carried, done>> /\ scheduled' = scheduled \cup {t}
    BY ZenonT(60), <1>10 DEF EnqueueHere, MayCall, callVars
  <2>2. ~OnQueue(t, b)
    BY <1>0, <1>K, <2>1, HasBy DEF OnePlace
  <2>3. QueuesInjective' /\ \A u \in Tasks, a \in Actors : OnQueue(u, a)' <=> OnQueue(u, a) \/ (a = b /\ u = t)
    BY ZenonT(60), <1>0, <2>1, <2>2, QueueAppend
  <2>4. \A u \in Tasks, k \in Kinds, a \in Actors :
           Has(u, k, a)' <=> Has(u, k, a) \/ (u = t /\ k = "queued" /\ a = b)
    <3> SUFFICES ASSUME NEW u \in Tasks, NEW a \in Actors, NEW k \in Kinds
                 PROVE  Has(u, k, a)' <=> Has(u, k, a) \/ (u = t /\ k = "queued" /\ a = b)
      OBVIOUS
    <3> QED
      BY <1>0, <1>K, <2>1, <2>3, HasBy
  <2>5. OnePlace'
    <3>1. Has(t, "queued", b)'
      BY <2>3, HasBy
    <3> QED
      BY <1>K, <2>1, <2>4, <3>1, PlaceBegins
  <2> QED
    BY Zenon, <2>3, <2>5
<1>11. ASSUME NEW b \in Actors, NEW t \in Tasks, EnqueueBegins(b, t) PROVE Goal
  <2>1. /\ t \in Tasks \ scheduled /\ enq[b] = NoCall
        /\ UNCHANGED <<queue, running, carried, done>> /\ scheduled' = scheduled \cup {t}
    BY Zenon, <1>11 DEF EnqueueBegins, MayCall, workVars
  <2>2. \A a \in Actors : enq'[a].task = IF a = b THEN t ELSE enq[a].task
    BY <1>0, <1>11 DEF EnqueueBegins, CallTypes
  <2>3. enq[b].task = NoTask
    BY <2>1 DEF NoCall
  <2>4. \A x : \A a \in Actors : OnQueue(x, a)' <=> OnQueue(x, a)
    BY ZenonT(60), <2>1 DEF OnQueue
  <2>5. \A u \in Tasks, k \in Kinds, a \in Actors :
           Has(u, k, a)' <=> Has(u, k, a) \/ (u = t /\ k = "called" /\ a = b)
    <3> SUFFICES ASSUME NEW u \in Tasks, NEW a \in Actors, NEW k \in Kinds
                 PROVE  Has(u, k, a)' <=> Has(u, k, a) \/ (u = t /\ k = "called" /\ a = b)
      OBVIOUS
    <3> QED
      BY SMTT(60), <1>0, <1>K, <2>1, <2>2, <2>3, <2>4, HasBy
  <2>6. OnePlace'
    <3>1. Has(t, "called", b)'
      BY <2>2, HasBy
    <3> QED
      BY <1>K, <2>1, <2>5, <3>1, PlaceBegins
  <2> QED
    BY Zenon, <2>1, <2>6 DEF QueuesInjective
<1>12. CASE StopWorker
  <2>1. /\ queue' = [queue EXCEPT ![stopping] = Append(queue[stopping], StopTask)]
        /\ UNCHANGED <<enq, running, carried, scheduled, done>>
    BY <1>12 DEF StopWorker, callVars, taskVars
  <2>2. CASE stopping \in Actors
    <3>1. QueuesInjective' /\ \A u \in Tasks, a \in Actors : OnQueue(u, a)' <=> OnQueue(u, a)
      BY Zenon, <1>0, <2>1, <2>2, QueueAppend
    <3>2. \A u \in Tasks, k \in Kinds, a \in Actors : Has(u, k, a)' <=> Has(u, k, a)
      BY <2>1, <3>1 DEF Has
    <3> QED
      BY <2>1, <3>1, <3>2 DEF OnePlace
  <2>3. CASE stopping \notin Actors
    <3>1. queue' = queue
      BY ZenonT(60), <1>0, <2>1, <2>3 DEF QueueTypes
    <3>2. \A u \in Tasks, k \in Kinds, a \in Actors : Has(u, k, a)' <=> Has(u, k, a)
      BY <2>1, <3>1 DEF Has, OnQueue
    <3> QED
      BY <2>1, <3>1, <3>2 DEF OnePlace, QueuesInjective
  <2> QED
    BY <2>2, <2>3
<1>13. CASE UNCHANGED <<queue, running, carried, enq, scheduled, done>>
  <2>1. \A u \in Tasks, k \in Kinds, a \in Actors : Has(u, k, a)' <=> Has(u, k, a)
    BY <1>13 DEF Has, OnQueue
  <2> QED
    BY <1>13, <2>1 DEF OnePlace, QueuesInjective
<1> HIDE DEF Goal
<1>14. Goal
  BY Zenon, <1>2, <1>3, <1>5, <1>6, <1>7, <1>8, <1>9, <1>10, <1>11, <1>12, <1>13,
     PlaceSteps DEF Goal
<1> QED
  BY <1>14 DEF Goal

\* A sleeping worker that gets work is notified.
LEMMA NextNoLostWork ==
  ASSUME TypeOK, CallOK, WorkerOK, StopOrder, NoLostWork, [Next]_vars
  PROVE  NoLostWork'
<1>0. /\ QueueTypes /\ WorkerTypes /\ CallTypes /\ OuterTypes /\ Actors = Workers \cup Threads
      /\ Workers \cap Threads = {}
  BY SchedulerAssumption DEF TypeOK, Actors
<1>a. ASSUME \A w \in Workers : at'[w] = "asleep" /\ HasCause(w)' =>
               at[w] = "asleep" /\ HasCause(w) /\ (woken[w] => woken'[w]),
             \A a \in Actors : enq[a].at = "notify" => enq'[a] = enq[a],
             destructor = "notify" => destructor' = "notify" /\ stopping' = stopping
      PROVE  NoLostWork'
  <2> SUFFICES ASSUME NEW w \in Workers, at'[w] = "asleep", HasCause(w)'
               PROVE  \/ woken'[w]
                      \/ \E a \in Actors : enq'[a].at = "notify" /\ enq'[a].idx = w
                      \/ destructor' = "notify" /\ stopping' = w
    BY DEF NoLostWork
  <2>1. /\ at[w] = "asleep" /\ HasCause(w) /\ (woken[w] => woken'[w])
    BY <1>a
  <2>2. \/ woken[w]
        \/ \E a \in Actors : enq[a].at = "notify" /\ enq[a].idx = w
        \/ destructor = "notify" /\ stopping = w
    BY <2>1 DEF NoLostWork
  <2> QED
    BY <1>a, <2>1, <2>2
<1>b. ASSUME UNCHANGED <<at, queue, shutdown, woken, enq>>,
             destructor = "notify" => destructor' = "notify" /\ stopping' = stopping
      PROVE  NoLostWork'
  BY <1>a, <1>b DEF HasCause
<1>1. ASSUME NEW v \in Workers, Start(v) PROVE NoLostWork'
  <2>1. \A w \in Workers : at'[w] = "asleep" /\ HasCause(w)' =>
             at[w] = "asleep" /\ HasCause(w) /\ (woken[w] => woken'[w])
BY <1>0, <1>1 DEF Start, Move, callVars, outerVars, WorkerTypes, QueueTypes, HasCause
  <2>2. UNCHANGED <<enq, destructor, stopping>>
    BY Zenon, <1>1 DEF Start, callVars, outerVars
  <2> QED
    BY Zenon, <1>a, <2>1, <2>2
<1>2. ASSUME NEW v \in Workers, Wait(v) PROVE NoLostWork'
  <2>1. \A w \in Workers : at'[w] = "asleep" /\ HasCause(w)' =>
             at[w] = "asleep" /\ HasCause(w) /\ (woken[w] => woken'[w])
BY <1>0, <1>2 DEF Wait, Sleep, Move, callVars, outerVars, WorkerTypes, QueueTypes, HasCause
  <2>2. UNCHANGED <<enq, destructor, stopping>>
    BY <1>2 DEF Wait, callVars, outerVars
  <2> QED
    BY <1>a, <2>1, <2>2
<1>3. ASSUME NEW v \in Workers, Wake(v) PROVE NoLostWork'
  <2>1. \A w \in Workers : at'[w] = "asleep" /\ HasCause(w)' =>
             at[w] = "asleep" /\ HasCause(w) /\ (woken[w] => woken'[w])
BY <1>0, <1>3 DEF Wake, Move, callVars, outerVars, WorkerTypes, QueueTypes, HasCause
  <2>2. UNCHANGED <<enq, destructor, stopping>>
    BY <1>3 DEF Wake, callVars, outerVars
  <2> QED
    BY <1>a, <2>1, <2>2
<1>4. ASSUME NEW v \in Workers, WakeSpuriously(v) PROVE NoLostWork'
  <2>1. \A w \in Workers : at'[w] = "asleep" /\ HasCause(w)' =>
             at[w] = "asleep" /\ HasCause(w) /\ (woken[w] => woken'[w])
BY <1>0, <1>4 DEF WakeSpuriously, Move, callVars, outerVars, WorkerTypes, QueueTypes,
       HasCause
  <2>2. UNCHANGED <<enq, destructor, stopping>>
    BY Zenon, <1>4 DEF WakeSpuriously, callVars, outerVars
  <2> QED
    BY <1>a, <2>1, <2>2
<1>5. ASSUME NEW v \in Workers, RunTask(v) PROVE NoLostWork'
  <2>1. \A w \in Workers : at'[w] = "asleep" /\ HasCause(w)' =>
             at[w] = "asleep" /\ HasCause(w) /\ (woken[w] => woken'[w])
BY Zenon, <1>0, <1>5 DEF RunTask, Move, callVars, outerVars, WorkerTypes, QueueTypes, HasCause
  <2>2. UNCHANGED <<enq, destructor, stopping>>
    BY Zenon, <1>5 DEF RunTask, callVars, outerVars
  <2> QED
    BY <1>a, <2>1, <2>2
<1>6. ASSUME NEW v \in Workers, TaskReturns(v) PROVE NoLostWork'
  <2>1. \A w \in Workers : at'[w] = "asleep" /\ HasCause(w)' =>
             at[w] = "asleep" /\ HasCause(w) /\ (woken[w] => woken'[w])
BY <1>0, <1>6 DEF TaskReturns, Move, callVars, outerVars, WorkerTypes, QueueTypes, HasCause
  <2>2. UNCHANGED <<enq, destructor, stopping>>
    BY Zenon, <1>6 DEF TaskReturns, callVars, outerVars
  <2> QED
    BY <1>a, <2>1, <2>2
<1>7. ASSUME NEW v \in Workers, Exit(v) PROVE NoLostWork'
  <2>1. \A w \in Workers : at'[w] = "asleep" /\ HasCause(w)' =>
             at[w] = "asleep" /\ HasCause(w) /\ (woken[w] => woken'[w])
BY Zenon, <1>0, <1>7 DEF Exit, Move, callVars, outerVars, WorkerTypes, QueueTypes, HasCause
  <2>2. UNCHANGED <<enq, destructor, stopping>>
    BY Zenon, <1>7 DEF Exit, callVars, outerVars
  <2> QED
    BY <1>a, <2>1, <2>2
<1>8. ASSUME NEW v \in Workers, BeginSpinning(v) PROVE NoLostWork'
  <2>1. \A w \in Workers : at'[w] = "asleep" /\ HasCause(w)' =>
             at[w] = "asleep" /\ HasCause(w) /\ (woken[w] => woken'[w])
BY <1>0, <1>8 DEF BeginSpinning, Move, outerVars, WorkerTypes, QueueTypes, HasCause
  <2>2. UNCHANGED <<enq, destructor, stopping>>
    BY <1>8 DEF BeginSpinning, callVars, outerVars
  <2> QED
    BY <1>a, <2>1, <2>2
<1>9. ASSUME NEW v \in Workers, Publish(v) PROVE NoLostWork'
  <2>1. \A w \in Workers : at'[w] = "asleep" /\ HasCause(w)' =>
             at[w] = "asleep" /\ HasCause(w) /\ (woken[w] => woken'[w])
BY <1>0, <1>9 DEF Publish, Move, outerVars, WorkerTypes, QueueTypes, HasCause
  <2>2. UNCHANGED <<enq, destructor, stopping>>
    BY <1>9 DEF Publish, callVars, outerVars
  <2> QED
    BY <1>a, <2>1, <2>2
<1>10. ASSUME NEW v \in Workers, SpinEnds(v) PROVE NoLostWork'
  <2>1. \A w \in Workers : at'[w] = "asleep" /\ HasCause(w)' =>
             at[w] = "asleep" /\ HasCause(w) /\ (woken[w] => woken'[w])
BY <1>0, <1>10 DEF SpinEnds, Move, callVars, outerVars, WorkerTypes, QueueTypes, HasCause
  <2>2. UNCHANGED <<enq, destructor, stopping>>
    BY <1>10 DEF SpinEnds, callVars, outerVars
  <2> QED
    BY <1>a, <2>1, <2>2
<1>11. ASSUME NEW v \in Workers, QueueStolen(v) PROVE NoLostWork'
  <2>1. \A w \in Workers : at'[w] = "asleep" /\ HasCause(w)' =>
             at[w] = "asleep" /\ HasCause(w) /\ (woken[w] => woken'[w])
BY <1>0, <1>11 DEF QueueStolen, Move, callVars, outerVars, WorkerTypes, QueueTypes, HasCause
  <2>2. UNCHANGED <<enq, destructor, stopping>>
    BY <1>11 DEF QueueStolen, callVars, outerVars
  <2> QED
    BY <1>a, <2>1, <2>2
<1>12. ASSUME NEW v \in Workers, NEW u \in Workers, SpinSteals(v, u) PROVE NoLostWork'
  <2>1. \A w \in Workers : at'[w] = "asleep" /\ HasCause(w)' =>
             at[w] = "asleep" /\ HasCause(w) /\ (woken[w] => woken'[w])
    BY <1>0, <1>12 DEF SpinSteals, TakeFirst, Move, WorkerTypes, QueueTypes, HasCause
  <2>2. UNCHANGED <<enq, destructor, stopping>>
    BY <1>12 DEF SpinSteals, callVars, outerVars
  <2> QED
    BY <1>a, <2>1, <2>2
<1>13. ASSUME NEW b \in Actors, enq[b].at # "notify", \A a \in Actors \ {b} : enq'[a] = enq[a],
              UNCHANGED <<workVars, destructor, stopping>>
      PROVE  NoLostWork'
  <2>1. \A a \in Actors : enq[a].at = "notify" => enq'[a] = enq[a]
    BY <1>13
  <2>2. UNCHANGED <<at, queue, shutdown, woken>>
    BY <1>13 DEF workVars
  <2> QED
    BY <1>a, <1>13, <2>1, <2>2 DEF HasCause
<1>14. ASSUME NEW b \in Actors, EnqueueStep(b), ~EnqueueAndUnlock(b), ~NotifyAdded(b)
      PROVE  NoLostWork'
  <2>1. UNCHANGED <<workVars, destructor, stopping>>
    BY Zenon, <1>14 DEF EnqueueStep, PickSlot, TakeSlot, RoundRobin, TryAgain, outerVars
  <2>2. \A a \in Actors \ {b} : enq'[a] = enq[a]
    BY <1>0, <1>14, CallKeepsTask
  <2>3. enq[b].at # "notify"
    BY Zenon, <1>14 DEF EnqueueStep, PickSlot, TakeSlot, RoundRobin, TryAgain
  <2> QED
    BY <1>13, <2>1, <2>2, <2>3
<1>15. ASSUME NEW b \in Actors, NEW t \in Tasks, EnqueueBegins(b, t) PROVE NoLostWork'
  <2>1. \A a \in Actors \ {b} : enq'[a] = enq[a]
    BY Zenon, <1>0, <1>15 DEF EnqueueBegins, CallTypes
  <2>2. enq[b].at # "notify"
    BY SMTT(60), <1>15 DEF EnqueueBegins, MayCall, NoCall
  <2> QED
    BY Zenon, <1>13, <1>15, <2>1, <2>2 DEF EnqueueBegins, outerVars
<1>16. ASSUME NEW b \in Actors, NEW t \in Tasks, EnqueueHere(b, t) PROVE NoLostWork'
  <2>1. b \in Workers => at[b] # "asleep"
    BY <1>0, <1>16 DEF EnqueueHere, MayCall, WorkerOK
  <2>2. \A w \in Workers : w # b => queue'[w] = queue[w]
    BY <1>0, <1>16 DEF EnqueueHere, QueueTypes
  <2>3. UNCHANGED <<at, shutdown, woken, enq, destructor, stopping>>
    BY Zenon, <1>16 DEF EnqueueHere, callVars, outerVars
  <2> QED
    BY ZenonT(60), <1>a, <2>1, <2>2, <2>3 DEF HasCause
<1>17. ASSUME NEW b \in Actors, EnqueueAndUnlock(b) PROVE NoLostWork'
  <2>1. PICK v \in Workers : v = enq[b].idx
    BY <1>17 DEF EnqueueAndUnlock, CallOK
  <2>2. /\ UNCHANGED <<at, shutdown, woken, destructor, stopping, notifyAdded>>
        /\ queue' = [queue EXCEPT ![v] = Append(queue[v], enq[b].task)] /\ enq[b].at = "tryLock"
        /\ enq' = [enq EXCEPT ![b] = IF MustNotify(v)
                                     THEN [at |-> "notify", task |-> NoTask, idx |-> v] ELSE NoCall]
    BY <1>17, <2>1 DEF EnqueueAndUnlock, outerVars
  <2>3. \A w \in Workers : w # v => queue'[w] = queue[w]
    BY <1>0, <2>2 DEF QueueTypes
  <2>4. \A a \in Actors : a # b => enq'[a] = enq[a]
    BY <1>0, <2>2 DEF CallTypes
  <2>5. at[v] = "asleep" => enq'[b].at = "notify" /\ enq'[b].idx = v
    BY Zenon, <1>0, <2>2 DEF WorkerOK, MustNotify, CallTypes
  <2>6. ASSUME NEW w \in Workers, w # v, at[w] = "asleep", HasCause(w)'
        PROVE  \/ woken[w]
               \/ \E a \in Actors : enq'[a].at = "notify" /\ enq'[a].idx = w
               \/ destructor = "notify" /\ stopping = w
    <3>1. HasCause(w)
      BY Zenon, <2>2, <2>3, <2>6 DEF HasCause
    <3>2. \A a \in Actors : enq[a].at = "notify" => enq'[a] = enq[a]
      BY <2>2, <2>4
    <3> QED
      BY Zenon, <2>6, <3>1, <3>2 DEF NoLostWork
  <2> QED
    BY Zenon, <2>2, <2>5, <2>6 DEF NoLostWork
<1>18. ASSUME NEW v \in Workers, WakeIfAsleep(v), UNCHANGED <<at, shutdown, queue>>,
              \A a \in Actors : enq[a].at = "notify" => enq'[a] = enq[a] \/ enq[a].idx = v,
              destructor = "notify" => stopping = v \/ (destructor' = "notify" /\ stopping' = stopping)
      PROVE  NoLostWork'
  <2>1. \A w \in Workers : woken[w] => woken'[w]
    BY <1>0, <1>18 DEF WakeIfAsleep, WorkerTypes
  <2>2. at[v] = "asleep" => woken'[v]
    BY Zenon, <1>0, <1>18 DEF WakeIfAsleep, WorkerTypes
  <2> SUFFICES ASSUME NEW w \in Workers, w # v, at[w] = "asleep", HasCause(w)
               PROVE  \/ woken'[w]
                      \/ \E a \in Actors : enq'[a].at = "notify" /\ enq'[a].idx = w
                      \/ destructor' = "notify" /\ stopping' = w
    BY Zenon, <1>18, <2>2 DEF NoLostWork, HasCause
  <2>3. \/ woken[w]
        \/ \E a \in Actors : enq[a].at = "notify" /\ enq[a].idx = w
        \/ destructor = "notify" /\ stopping = w
    BY DEF NoLostWork
  <2> QED
    BY <1>18, <2>1, <2>3
<1>19. ASSUME NEW b \in Actors, NotifyAdded(b) PROVE NoLostWork'
  <2>1. PICK v \in Workers : v = enq[b].idx
    BY <1>19 DEF NotifyAdded, CallOK
  <2>2. WakeIfAsleep(v) /\ UNCHANGED <<at, shutdown, queue, destructor, stopping>>
    BY <1>19, <2>1 DEF NotifyAdded, outerVars
  <2>3. \A a \in Actors : a # b => enq'[a] = enq[a]
    BY <1>0, <1>19 DEF NotifyAdded, CallTypes
  <2> QED
    BY <1>18, <2>1, <2>2, <2>3
<1>20. CASE NotifyStopped
  BY <1>18, <1>20 DEF NotifyStopped, StopOrder, callVars
<1>21. CASE StopWorker
  <2>1. stopping \in Workers
    BY <1>0, <1>21, StopsWorker
  <2>2. /\ UNCHANGED <<at, shutdown, woken, enq, stopping>> /\ destructor = "stop"
        /\ queue' = [queue EXCEPT ![stopping] = Append(queue[stopping], StopTask)]
        /\ destructor' = IF MustNotify(stopping) THEN "notify" ELSE "join"
    BY <1>21 DEF StopWorker, callVars
  <2>3. \A w \in Workers : w # stopping => queue'[w] = queue[w]
    BY <1>0, <2>2 DEF QueueTypes
  <2>4. at[stopping] = "asleep" => destructor' = "notify"
    BY <2>1, <2>2 DEF WorkerOK, MustNotify
  <2> QED
    BY <2>2, <2>3, <2>4 DEF NoLostWork, HasCause
<1>22. ASSUME NEW th \in Threads, RunHere(th) \/ ReturnsHere(th) PROVE NoLostWork'
  <2>1. UNCHANGED <<at, shutdown, woken, enq, destructor, stopping>>
    BY <1>22 DEF RunHere, ReturnsHere, callVars, outerVars
  <2>2. \A w \in Workers : queue'[w] = queue[w]
    BY Zenon, <1>0, <1>22 DEF RunHere, ReturnsHere, QueueTypes
  <2> QED
    BY Zenon, <1>a, <2>1, <2>2 DEF HasCause
<1>23. ASSUME NEW th \in Threads, Bind(th) \/ Unbind(th) \/ Leave(th) PROVE NoLostWork'
  BY <1>b, <1>23 DEF Bind, Unbind, Leave, workVars, callVars
<1>24. CASE Destroy \/ Join \/ Destroyed
  BY <1>b, <1>24 DEF Destroy, Join, Destroyed, workVars, callVars
<1>25. CASE UNCHANGED vars
  BY <1>b, <1>25 DEF vars, workVars, callVars, outerVars
<1> QED
  BY Zenon, <1>1, <1>2, <1>3, <1>4, <1>5, <1>6, <1>7, <1>8, <1>9, <1>10, <1>11, <1>12, <1>14,
     <1>15, <1>16, <1>17, <1>19, <1>20, <1>21, <1>22, <1>23, <1>24, <1>25
     DEF Next, WorkerStep, UnbindStep, DestructorStep, Terminated

LEMMA InitInv ==
  ASSUME Init
  PROVE  SchedulerInv
<1> USE SchedulerAssumption
<1>0. Actors = Workers \cup Threads /\ Workers \cap Threads = {}
  BY DEF Actors
<1>1. QueueTypes
  BY <1>0 DEF Init, QueueTypes
<1>2. WorkerTypes
  BY DEF Init, WorkerTypes, WorkerPlaces
<1>3. CallTypes
  <2>1. slot \in [Workers -> Workers]
    BY DEF Init, Workers
  <2>2. nextSpinningWorkerIdx \in Nat /\ nextEnqueueIndex \in Nat
    BY DEF Init
  <2> QED
    BY <2>1, <2>2 DEF Init, CallTypes, CallPlaces, NoCall
<1>4. OuterTypes
  BY DEF Init, OuterTypes
<1>5. CallOK
  BY DEF Init, CallOK, NoCall
<1>6. WorkerOK
  BY <1>0 DEF Init, WorkerOK
<1>7. ThreadOK
  BY <1>0 DEF Init, ThreadOK, NoCall
<1>8. \A a \in Actors : \A x : ~OnQueue(x, a)
  BY DEF Init, OnQueue
<1>9. StopOrder /\ StopCause /\ LeftBehind
  BY Zenon, <1>0, <1>8 DEF Init, StopOrder, StopCause, LeftBehind
<1>10. OnePlace
  <2>1. \A t \in Tasks, k \in Kinds, a \in Actors : ~Has(t, k, a)
    BY Zenon, <1>0, <1>8 DEF Init, Has, NoCall
  <2> QED
    BY <2>1 DEF Init, OnePlace
<1>11. QueuesInjective
  BY DEF Init, QueuesInjective
<1>12. NoLostWork
  BY DEF Init, NoLostWork
<1> QED
  BY Zenon, <1>1, <1>2, <1>3, <1>4, <1>5, <1>6, <1>7, <1>9, <1>10, <1>11, <1>12 DEF SchedulerInv,
     TypeOK

LEMMA NextInv ==
  ASSUME SchedulerInv, [Next]_vars
  PROVE  SchedulerInv'
<1>0. /\ TypeOK /\ CallOK /\ WorkerOK /\ ThreadOK /\ StopOrder /\ StopCause /\ LeftBehind
      /\ OnePlace /\ QueuesInjective /\ NoLostWork
  BY DEF SchedulerInv
<1>1. TypeOK'
  BY <1>0, NextQueueTypes, NextWorkerTypes, NextCallTypes, NextOuterTypes DEF TypeOK
<1>2. CallOK' /\ WorkerOK' /\ ThreadOK'
  BY <1>0, NextCallTypes, NextWorkerOK, NextThreadOK
<1>3. StopOrder' /\ StopCause' /\ LeftBehind'
  BY <1>0, NextStopOrder, NextStopCause, NextLeftBehind
<1>4. OnePlace' /\ QueuesInjective' /\ NoLostWork'
  BY <1>0, NextOnePlace, NextNoLostWork
<1> QED
  BY <1>1, <1>2, <1>3, <1>4 DEF SchedulerInv

\* The conjuncts of SchedulerInv hold in every reachable state.
THEOREM SchedulerInvariance == Spec => []SchedulerInv
<1>1. Init => SchedulerInv
  BY InitInv
<1>2. SchedulerInv /\ [Next]_vars => SchedulerInv'
  BY NextInv
<1> QED
  BY <1>1, <1>2, PTL DEF Spec

\* A worker that sleeps although it has a task has been notified or is about to be
\* by enqueue() or ~Scheduler(), for any number of workers and callers.
THEOREM SleepersAreNotified == Spec => []NoLostWork
<1>1. SchedulerInv => NoLostWork
  BY DEF SchedulerInv
<1> QED
  BY <1>1, SchedulerInvariance, PTL
-----------------------------------------------------------------------------
(* What follows from the invariant.                                        *)

\* The places of a task, one by one.
LEMMA PlaceBy ==
  ASSUME NEW t, NEW p
  PROVE  p \in PlacesOf(t) <=>
           \/ \E a \in Actors : \E i \in DOMAIN queue[a] : queue[a][i] = t /\ p = <<"queued", a, i>>
           \/ \E a \in Actors : enq[a].task = t /\ p = <<"called", a>>
           \/ \E w \in Workers : carried[w] = t /\ p = <<"carried", w>>
           \/ \E a \in Actors : running[a] = t /\ p = <<"running", a>>
           \/ t \in done /\ p = <<"done">>
<1> DEFINE Q == UNION {{<<"queued", a, i>> : i \in {j \in DOMAIN queue[a] : queue[a][j] = t}} : a \in Actors}
           C == {<<"called", a>> : a \in {b \in Actors : enq[b].task = t}}
           S == {<<"carried", w>> : w \in {v \in Workers : carried[v] = t}}
           R == {<<"running", a>> : a \in {b \in Actors : running[b] = t}}
           D == {<<"done">> : x \in {t} \cap done}
<1>1. p \in Q <=> \E a \in Actors : \E i \in DOMAIN queue[a] : queue[a][i] = t /\ p = <<"queued", a, i>>
  OBVIOUS
<1>2. p \in C <=> \E a \in Actors : enq[a].task = t /\ p = <<"called", a>>
  OBVIOUS
<1>3. p \in S <=> \E w \in Workers : carried[w] = t /\ p = <<"carried", w>>
  OBVIOUS
<1>4. p \in R <=> \E a \in Actors : running[a] = t /\ p = <<"running", a>>
  OBVIOUS
<1>5. p \in D <=> t \in done /\ p = <<"done">>
  OBVIOUS
<1>6. PlacesOf(t) = Q \cup C \cup S \cup R \cup D
  BY Zenon DEF PlacesOf
<1> HIDE DEF Q, C, S, R, D
<1>7. p \in PlacesOf(t) <=> p \in Q \/ p \in C \/ p \in S \/ p \in R \/ p \in D
  BY <1>6
<1> QED
  BY ONLY <1>1, <1>2, <1>3, <1>4, <1>5, <1>7

\* A task that is somewhere is there once.
LEMMA OnlyPlace ==
  ASSUME SchedulerInv, NEW t \in scheduled
  PROVE  \E p : PlacesOf(t) = {p}
<1>0. /\ t \in Tasks /\ OnePlace /\ QueuesInjective /\ Actors = Workers \cup Threads
  BY Zenon DEF SchedulerInv, TypeOK, OuterTypes, Actors
<1>2. \A a \in Actors : /\ (\E i \in DOMAIN queue[a] : queue[a][i] = t) <=> Has(t, "queued", a)
                        /\ (enq[a].task = t) <=> Has(t, "called", a)
                        /\ a \in Workers => ((carried[a] = t) <=> Has(t, "carried", a))
                        /\ (running[a] = t) <=> Has(t, "running", a)
  BY Zenon, HasBy DEF OnQueue
<1>3. /\ \A k, l \in Kinds, a, b \in Actors : Has(t, k, a) /\ Has(t, l, b) => k = l /\ a = b
      /\ t \in done => \A k \in Kinds, a \in Actors : ~Has(t, k, a)
      /\ t \in done \/ \E k \in Kinds, a \in Actors : Has(t, k, a)
  BY <1>0 DEF OnePlace
<1>K. /\ \A k \in Kinds : k = "queued" \/ k = "called" \/ k = "carried" \/ k = "running"
      /\ "queued" \in Kinds /\ "called" \in Kinds /\ "carried" \in Kinds /\ "running" \in Kinds
  BY DEF Kinds
<1>4. CASE t \in done
  <2>1. \A p : p \in PlacesOf(t) <=> p = <<"done">>
    BY SMTT(60), <1>0, <1>2, <1>3, <1>4, <1>K, PlaceBy
  <2>2. PlacesOf(t) = {<<"done">>}
    BY Zenon, <2>1
  <2> QED
    BY Zenon, <2>2
<1>5. ASSUME NEW k \in Kinds, NEW a \in Actors, Has(t, k, a) PROVE \E p : PlacesOf(t) = {p}
  <2>1. t \notin done /\ \A l \in Kinds, b \in Actors : Has(t, l, b) <=> l = k /\ b = a
    BY <1>3, <1>5
  <2>2. CASE k = "queued"
    <3>1. PICK i \in DOMAIN queue[a] : queue[a][i] = t
      BY Zenon, <1>2, <1>5, <2>2
    <3>2. \A j \in DOMAIN queue[a] : queue[a][j] = t => j = i
      BY ZenonT(60), <1>0, <3>1 DEF QueuesInjective
    <3>3. \A p : p \in PlacesOf(t) <=> p = <<"queued", a, i>>
      BY SMTT(60), <1>0, <1>2, <1>K, PlaceBy, <2>1, <2>2, <3>1, <3>2
    <3>4. PlacesOf(t) = {<<"queued", a, i>>}
      BY Zenon, <3>3
    <3> QED
      BY Zenon, <3>4
  <2>3. CASE k = "called"
    <3>1. \A p : p \in PlacesOf(t) <=> p = <<"called", a>>
      BY SMTT(60), <1>0, <1>2, <1>K, PlaceBy, <2>1, <2>3
    <3>2. PlacesOf(t) = {<<"called", a>>}
      BY Zenon, <3>1
    <3> QED
      BY Zenon, <3>2
  <2>4. CASE k = "carried"
    <3>0. a \in Workers
      BY ZenonT(60), <1>5, <2>4, HasBy
    <3>1. \A p : p \in PlacesOf(t) <=> p = <<"carried", a>>
      BY SMTT(60), <1>0, <1>2, <1>K, PlaceBy, <2>1, <2>4, <3>0
    <3>2. PlacesOf(t) = {<<"carried", a>>}
      BY Zenon, <3>1
    <3> QED
      BY Zenon, <3>2
  <2>5. CASE k = "running"
    <3>1. \A p : p \in PlacesOf(t) <=> p = <<"running", a>>
      BY SMTT(60), <1>0, <1>2, <1>K, PlaceBy, <2>1, <2>5
    <3>2. PlacesOf(t) = {<<"running", a>>}
      BY Zenon, <3>1
    <3> QED
      BY Zenon, <3>2
  <2> QED
    BY Zenon, <1>K, <2>2, <2>3, <2>4, <2>5
<1> QED
  BY Zenon, <1>3, <1>4, <1>5

LEMMA NoPlace ==
  ASSUME SchedulerInv, NEW t \in Tasks \ scheduled
  PROVE  PlacesOf(t) = {}
<1>0. /\ OnePlace /\ Actors = Workers \cup Threads
  BY DEF SchedulerInv, Actors
<1>1. t \notin done /\ \A k \in Kinds, a \in Actors : ~Has(t, k, a)
  BY <1>0 DEF OnePlace
<1>2. \A a \in Actors : /\ ~Has(t, "queued", a) /\ ~Has(t, "called", a)
                        /\ ~Has(t, "carried", a) /\ ~Has(t, "running", a)
  BY Zenon, <1>1 DEF Kinds
<1>3. \A a \in Actors : /\ \A i \in DOMAIN queue[a] : queue[a][i] # t
                        /\ enq[a].task # t /\ running[a] # t
                        /\ a \in Workers => carried[a] # t
  <2>1. ASSUME NEW a \in Actors
        PROVE  /\ ~OnQueue(t, a) /\ enq[a].task # t /\ running[a] # t
               /\ a \in Workers => carried[a] # t
    BY Zenon, <1>2, HasBy
  <2> QED
    BY Zenon, <2>1 DEF OnQueue
<1>4. \A p : p \notin PlacesOf(t)
  BY SMTT(60), <1>0, <1>1, <1>3, PlaceBy
<1> QED
  BY ZenonT(60), <1>4

\* No interleaving of enqueue(), steal(), runUntilIdle(), unbind() and the
\* destructor loses a task or executes it twice, for any number of workers, bound
\* threads and tasks.
THEOREM TasksKept == Spec => []EachTaskOnce
<1>1. SchedulerInv => EachTaskOnce
  <2> SUFFICES ASSUME SchedulerInv, NEW t \in Tasks
               PROVE  Cardinality(PlacesOf(t)) = IF t \in scheduled THEN 1 ELSE 0
    BY DEF EachTaskOnce
  <2>1. CASE t \in scheduled
    <3>1. PICK p : PlacesOf(t) = {p}
      BY <2>1, OnlyPlace
    <3>2. Cardinality({p}) = 1
      BY Zenon, FS_Singleton
    <3> QED
      BY <2>1, <3>1, <3>2
  <2>2. CASE t \notin scheduled
    <3>1. PlacesOf(t) = {}
      BY <2>2, NoPlace
    <3> QED
      BY <2>2, <3>1, FS_EmptySet
  <2> QED
    BY <2>1, <2>2
<1> QED
  BY <1>1, SchedulerInvariance, PTL

\* ~Scheduler() returns only when every task that a bound thread scheduled is
\* complete, whatever the workers stole from each other while they were stopped.
THEOREM DestructorLeavesNothing == Spec => []DestructorDrains
<1>1. SchedulerInv => DestructorDrains
  <2> SUFFICES ASSUME SchedulerInv, destructor = "returned", NEW t \in scheduled, t \notin Children,
                      t \notin done
               PROVE  FALSE
    BY DEF DestructorDrains
  <2>0. /\ TypeOK /\ WorkerOK /\ ThreadOK /\ StopOrder /\ LeftBehind /\ OnePlace
        /\ t \in Tasks /\ NoTask \notin Tasks /\ Actors = Workers \cup Threads
    BY SchedulerAssumption DEF SchedulerInv, TypeOK, OuterTypes, Actors
  <2>1. \A w \in Workers : at[w] = "exited"
    <3>1. stopping = -1 /\ \A w \in Workers : w > stopping => at[w] = "exited"
      BY <2>0 DEF StopOrder
    <3>2. \A w \in Workers : w > -1
      BY DEF Workers
    <3> QED
      BY <3>1, <3>2
  <2>2. \A th \in Threads : bound[th] \in {"unbound", "left"}
    BY <2>0 DEF StopOrder, BoundThreads, TypeOK, OuterTypes
  <2>3. PICK k \in Kinds, a \in Actors : Has(t, k, a)
    BY Zenon, <2>0 DEF OnePlace
  <2>4. CASE k = "queued"
    <3>1. a \notin Workers
      BY Zenon, <2>0, <2>1, <2>3, <2>4, HasBy DEF LeftBehind
    <3>2. queue[a] = <<>>
      BY Zenon, <2>0, <2>2, <3>1 DEF ThreadOK
    <3> QED
      BY SMTT(60), <2>3, <2>4, <3>2, HasBy DEF OnQueue
  <2>5. CASE k = "called"
    <3>1. enq[a].task = t
      BY Zenon, <2>3, <2>5, HasBy
    <3> QED
      BY Zenon, <2>0, <2>2, <3>1 DEF ThreadOK
  <2>6. CASE k = "carried"
    <3>1. a \in Workers /\ carried[a] = t
      BY Zenon, <2>3, <2>6, HasBy
    <3> QED
      BY Zenon, <2>0, <2>1, <3>1 DEF WorkerOK
  <2>7. CASE k = "running"
    <3>1. running[a] = t
      BY Zenon, <2>3, <2>7, HasBy
    <3> QED
      BY Zenon, <2>0, <2>1, <2>2, <3>1 DEF WorkerOK, ThreadOK
  <2> QED
    BY <2>4, <2>5, <2>6, <2>7 DEF Kinds
<1> QED
  BY <1>1, SchedulerInvariance, PTL

\* A task flagged SameThread never leaves the queue that enqueue() put it on but
\* to be executed by that queue's thread: steal() passes it by.
THEOREM FlaggedTasksStay == Spec => SameThreadStays
<1> DEFINE Stays == \A t \in Flagged, a \in Actors : OnQueue(t, a) => OnQueue(t, a)' \/ running'[a] = t
<1>1. SchedulerInv /\ [Next]_vars => [Stays]_vars
  <2> SUFFICES ASSUME SchedulerInv, [Next]_vars PROVE Stays
    OBVIOUS
  <2>0. /\ QueueTypes /\ CallTypes /\ OuterTypes /\ CallOK /\ WorkerOK /\ StopOrder
        /\ Actors = Workers \cup Threads /\ StopTask \notin Flagged
    BY SchedulerAssumption DEF SchedulerInv, TypeOK, Actors
  <2>1. ASSUME queue' = queue PROVE Stays
    BY <2>1 DEF OnQueue
  <2>2. ASSUME NEW w \in Actors, queue[w] # <<>>, queue' = [queue EXCEPT ![w] = Tail(queue[w])],
               Head(queue[w]) \in Flagged => running'[w] = Head(queue[w])
        PROVE  Stays
    BY Zenon, <2>0, <2>2, QueueTail
  <2>3. ASSUME NEW w \in Actors, NEW y \in Tasks \cup {StopTask},
               queue' = [queue EXCEPT ![w] = Append(queue[w], y)]
        PROVE  Stays
    BY Zenon, <2>0, <2>3, QueueAppend
  <2>4. ASSUME NEW w \in Workers, RunTask(w) PROVE Stays
    <3>1. running'[w] = Head(queue[w])
      BY Zenon, <2>0, <2>4 DEF RunTask, QueueTypes
    <3> QED
      BY Zenon, <2>0, <2>2, <2>4, <3>1 DEF RunTask
  <2>5. ASSUME NEW th \in Threads, RunHere(th) PROVE Stays
    <3>1. running'[th] = Head(queue[th])
      BY Zenon, <2>0, <2>5 DEF RunHere, QueueTypes
    <3> QED
      BY Zenon, <2>0, <2>2, <2>5, <3>1 DEF RunHere
  <2>6. ASSUME NEW w \in Workers, NEW v \in Workers, SpinSteals(w, v) PROVE Stays
    BY Zenon, <2>0, <2>2, <2>6 DEF SpinSteals, TakeFirst, Stealable
  <2>7. ASSUME NEW w \in Workers, QueueStolen(w) PROVE Stays
    <3>1. carried[w] \in Tasks
      BY Zenon, <2>0, <2>7 DEF QueueStolen, WorkerOK, QueueTypes
    <3> QED
      BY Zenon, <2>0, <2>3, <2>7, <3>1 DEF QueueStolen
  <2>8. ASSUME NEW a \in Actors, EnqueueAndUnlock(a) PROVE Stays
    <3>1. PICK b \in Workers, y \in Tasks : b = enq[a].idx /\ y = enq[a].task
      BY Zenon, <2>0, <2>8 DEF EnqueueAndUnlock, CallOK, CallTypes
    <3>2. queue' = [queue EXCEPT ![b] = Append(queue[b], y)]
      BY Zenon, <2>8, <3>1 DEF EnqueueAndUnlock
    <3> QED
      BY Zenon, <2>0, <2>3, <3>2
  <2>9. ASSUME NEW a \in Actors, NEW t \in Tasks, EnqueueHere(a, t) PROVE Stays
    BY Zenon, <2>3, <2>9 DEF EnqueueHere
  <2>10. ASSUME StopWorker PROVE Stays
    BY Zenon, <2>0, <2>3, <2>10, StopsWorker DEF StopWorker
  <2>11. ASSUME NEW w \in Workers, TaskReturns(w) PROVE Stays
    BY Zenon, <2>1, <2>11 DEF TaskReturns
  <2>12. ASSUME NEW th \in Threads, ReturnsHere(th) PROVE Stays
    BY Zenon, <2>1, <2>12 DEF ReturnsHere
  <2> HIDE DEF Stays
  <2> QED
    BY Zenon, <2>1, <2>4, <2>5, <2>6, <2>7, <2>8, <2>9, <2>10, <2>11, <2>12, QueueSteps
<1> QED
  BY <1>1, SchedulerInvariance, PTL DEF Spec, SameThreadStays
=============================================================================
