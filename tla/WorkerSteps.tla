---------------------------- MODULE WorkerSteps -----------------------------
(***************************************************************************)
(* The steps that take a fiber or a task from a container, that suspend a  *)
(* fiber, switch to one, or return from a switch, preserve IInv of module  *)
(* WorkerInvariant.  So IInv is inductive.                                 *)
(***************************************************************************)
EXTENDS WorkerInvariant

\* enqueueFiberTimeouts(): the first expired fiber goes to the queue.
LEMMA TakeTimeoutStep ==
  ASSUME IInv, TypeOK', NEW a \in waiting.timeouts, TakeTimeout(a)
  PROVE  IInv'
<1> USE DEF At, userVars, clientVars, taskVars, ctrlVars
<1> TypeOK /\ NumInSync /\ Shape /\ Leaving /\ MutexHeld
  BY InvParts
<1> DEFINE f == a.fiber
<1>1. /\ fibers' = Append(fibers, f) /\ num' = num + 1 /\ tasks' = tasks
      /\ numBlockedFibers' = numBlockedFibers /\ waiting' = Taken(waiting, a)
      /\ state' = [state EXCEPT ![f] = "Queued"]
      /\ UNCHANGED <<mutex, currentFiber, idleFibers, numFibers, task, deadline, pc, registered,
                     client, taskVars, ctrlVars>>
      /\ ~stopped /\ pc[currentFiber] = "takeTimeouts"
  BY Zenon DEF TakeTimeout, PushFiber
<1>2. f \in Fibers /\ f \in DOMAIN waiting.fibers
  <2>1. waiting.timeouts \subseteq [timepoint : Times, fiber : Fibers]
    BY Zenon DEF TypeOK
  <2>2. InSync(waiting)
    BY Zenon DEF Shape, WaitingInSync
  <2>3. a.fiber \in Fibers /\ a.fiber \in DOMAIN waiting.fibers
    BY ONLY a \in waiting.timeouts, <2>1, <2>2 DEF InSync
  <2> QED BY Zenon, <2>3
<1>3. state[f] = "Waiting" /\ InSuspend(f)
  BY Zenon, <1>2 DEF Shape, Listed, Contains, Placed
<1>4. state' \in [Fibers -> States] /\ state \in [Fibers -> States] /\ fibers \in Seq(Fibers)
      /\ tasks \in Seq(AllTasks)
  BY Zenon DEF TypeOK
<1>5. NumInSync'
  <2>1. fibers' = Append(fibers, f) /\ num' = num + 1 /\ tasks' = tasks
    BY Zenon, <1>1
  <2> QED BY ONLY <1>4, <2>1, NumInSync DEF NumInSync
<1>6. WaitingInSync'
  <2>1. InSync(waiting')
    BY Zenon, <1>1, TakenInSync DEF Shape, WaitingInSync
  <2>2. \A g \in DOMAIN waiting'.fibers : waiting'.fibers[g] = deadline[g]
    BY Zenon, <1>1 DEF Shape, WaitingInSync, Taken
  <2> QED BY Zenon, <1>1, <2>1, <2>2 DEF WaitingInSync
<1>7. BlockedCounted'
  BY Zenon, <1>1 DEF Shape, BlockedCounted, Created
<1>8. Placed'
  BY Zenon, <1>1, <1>3, <1>4 DEF Shape, Placed, Created, InSuspend
<1>9. Listed'
  <2>0. fibers' = Append(fibers, f) /\ fibers \in Seq(Fibers) /\ f \in Fibers
    BY Zenon, <1>1, <1>2, <1>4
  <2>1. ~InQueue(f) /\ ~SwitchedTo(f)
    BY Zenon, <1>1, <1>2, <1>3 DEF Shape, Listed, SwitchedTo
  <2>2. \A j \in DOMAIN fibers' : \/ j \in DOMAIN fibers /\ fibers'[j] = fibers[j]
                                  \/ j = Len(fibers) + 1 /\ fibers'[j] = f
    BY ONLY <2>0
  <2>3. DOMAIN fibers \subseteq DOMAIN fibers' /\ Len(fibers) + 1 \in DOMAIN fibers'
        /\ fibers'[Len(fibers) + 1] = f /\ \A j \in DOMAIN fibers : fibers'[j] = fibers[j]
    BY ONLY <2>0
  <2>4. \A g \in Fibers : InQueue(g)' <=> InQueue(g) \/ g = f
    BY Zenon, <2>2, <2>3 DEF InQueue
  <2>5. \A j, k \in DOMAIN fibers' : fibers'[j] = fibers'[k] => j = k
    <3>1. \A j, k \in DOMAIN fibers : fibers[j] = fibers[k] => j = k
      BY Zenon DEF Shape, Listed
    <3>2. \A j \in DOMAIN fibers : fibers[j] # f
      BY Zenon, <2>1 DEF InQueue
    <3> QED BY ONLY Zenon, <2>2, <3>1, <3>2
  <2>6. \A g \in Fibers : SwitchedTo(g)' <=> SwitchedTo(g)
    BY Zenon, <1>1 DEF SwitchedTo
  <2>7. \A g : Contains(waiting', g) <=> Contains(waiting, g) /\ g # f
    BY Zenon, <1>1 DEF Contains, Taken
  <2>8. \A g \in Fibers : state'[g] = IF g = f THEN "Queued" ELSE state[g]
    BY Zenon, <1>1, <1>4
  <2> QED BY Zenon, <2>1, <2>4, <2>5, <2>6, <2>7, <2>8 DEF Shape, Listed
<1>10. IdleListed' /\ Registered' /\ MutexHeld'
  BY Zenon, <1>1 DEF Shape, IdleListed, MainRejoined, Created, Registered, InSuspend, MutexHeld
<1>11. Leaving'
  <2>1. ~MainRejoined
    BY Zenon, <1>1 DEF Leaving
  <2> QED BY Zenon, <1>1, <2>1 DEF Leaving, MainRejoined, Created
<1> QED BY Zenon, <1>5, <1>6, <1>7, <1>8, <1>9, <1>10, <1>11 DEF IInv

\* The worker has a current fiber that exists, and nothing of a fiber that
\* leaves is left once a task is on the stack of the current one.
LEMMA Here ==
  ASSUME IInv
  PROVE  /\ currentFiber \in Fibers /\ Main \in Fibers
         /\ pc \in [Fibers -> Places] /\ state \in [Fibers -> States]
         /\ task \in [Fibers -> AllTasks \cup {NoTask}]
         /\ pc[currentFiber] \notin {"idle", "runUntilIdle", "runUntilShutdown", "exit"}
              => ~MainRejoined /\ ~stopped
         /\ \A f \in Fibers : pc[f] = "blocked" => ~MainRejoined
<1>1. /\ currentFiber \in Fibers
      /\ pc \in [Fibers -> Places] /\ state \in [Fibers -> States]
      /\ task \in [Fibers -> AllTasks \cup {NoTask}]
  BY Zenon DEF IInv, TypeOK
<1>2. Main \in Fibers
  BY ConstantTypes
<1>3. pc[currentFiber] \notin {"idle", "runUntilIdle", "runUntilShutdown", "exit"}
        => ~MainRejoined /\ ~stopped
  BY Zenon DEF IInv, Leaving
<1>4. ASSUME NEW f \in Fibers, pc[f] = "blocked" PROVE ~MainRejoined
  <2>1. numBlockedFibers - 1 \in Nat
    BY Zenon, <1>4, BlockedPositive DEF IInv
  <2>2. numBlockedFibers # 0
    BY ONLY <2>1
  <2> QED BY Zenon, <2>2 DEF IInv, Leaving
<1> QED BY Zenon, <1>1, <1>2, <1>3, <1>4

\* A step that lets no fiber leave its wait().
LEMMA RegisteredFrame ==
  ASSUME IInv, UNCHANGED <<registered, client>>,
         \A f \in Fibers :
           task[f] # NoTask /\ (InSuspend(f) \/ pc[f] \in {"lockWork", "relock"})
             => task'[f] = task[f] /\ (InSuspend(f)' \/ pc'[f] \in {"lockWork", "relock"})
  PROVE  Registered'
<1>1. Registered /\ \A t \in Tasks : registered[t] # NoFiber => registered[t] \in Fibers
  BY Zenon DEF IInv, TypeOK
<1>2. ASSUME NEW t \in Tasks, NEW f \in Fibers, f = registered[t]
      PROVE  task'[f] = t /\ (InSuspend(f)' \/ pc'[f] \in {"lockWork", "relock"})
  <2>1. f # NoFiber
    BY Zenon, NoFiberType
  <2>2. task[f] = t /\ (InSuspend(f) \/ pc[f] \in {"lockWork", "relock"})
    BY Zenon, <1>1, <1>2, <2>1 DEF Registered
  <2> QED BY Zenon, <2>2, WorkerAssumption
<1> QED BY Zenon, <1>1, <1>2 DEF Registered, InSuspend

\* runUntilIdle() and suspend() take the first fiber of the queue, which is
\* parked in suspend() or is the current one.
LEMMA DequeueFiber ==
  ASSUME IInv, fibers # <<>>, num' = num - 1, fibers' = Tail(fibers), tasks' = tasks
  PROVE  LET h == Head(fibers) IN
         /\ h \in Fibers /\ h \in Created /\ state[h] = "Queued" /\ ~SwitchedTo(h) /\ InSuspend(h)
         /\ h # currentFiber => pc[h] = "blocked"
         /\ \A g : InQueue(g)' <=> InQueue(g) /\ g # h
         /\ \A i, j \in DOMAIN fibers' : fibers'[i] = fibers'[j] => i = j
         /\ NumInSync'
<1> DEFINE h == Head(fibers)
<1> TypeOK /\ NumInSync /\ Listed /\ Placed
  BY DEF IInv
<1>1. fibers \in Seq(Fibers) /\ tasks \in Seq(AllTasks)
  BY Zenon DEF TypeOK
<1>2. /\ h \in Fibers /\ h = fibers[1] /\ 1 \in DOMAIN fibers
      /\ Len(fibers') = Len(fibers) - 1 /\ Len(fibers) \in Nat /\ Len(tasks) \in Nat
      /\ DOMAIN fibers' = 1..(Len(fibers) - 1) /\ DOMAIN fibers = 1..Len(fibers)
      /\ \A i \in DOMAIN fibers' : i + 1 \in DOMAIN fibers /\ fibers'[i] = fibers[i + 1]
  BY <1>1
<1>3. InQueue(h)
  BY <1>2 DEF InQueue
<1>4. state[h] = "Queued" /\ ~SwitchedTo(h)
  BY <1>2, <1>3 DEF Listed
<1>5. InSuspend(h) /\ h \in Created /\ (h # currentFiber => pc[h] = "blocked")
  BY Zenon, <1>2, <1>4 DEF Placed, InSuspend, Suspending, Parked
<1>6. ASSUME NEW g PROVE InQueue(g)' <=> InQueue(g) /\ g # h
  <2>1. ASSUME InQueue(g)' PROVE InQueue(g) /\ g # h
    <3>1. PICK i \in DOMAIN fibers' : fibers'[i] = g
      BY <2>1 DEF InQueue
    <3>2. i \in Nat /\ i >= 1 /\ i + 1 \in DOMAIN fibers /\ fibers[i + 1] = g
      BY <1>2, <3>1
    <3> QED BY <1>2, <3>2 DEF InQueue, Listed
  <2>2. ASSUME InQueue(g), g # h PROVE InQueue(g)'
    <3>1. PICK i \in DOMAIN fibers : fibers[i] = g
      BY <2>2 DEF InQueue
    <3>2. i # 1 /\ i \in 1..Len(fibers)
      BY <1>2, <2>2, <3>1
    <3>3. i - 1 \in DOMAIN fibers' /\ fibers'[i - 1] = fibers[(i - 1) + 1]
      BY <1>2, <3>2
    <3>4. (i - 1) + 1 = i
      BY <3>2
    <3> QED BY <3>1, <3>3, <3>4 DEF InQueue
  <2> QED BY <2>1, <2>2
<1>7. \A i, j \in DOMAIN fibers' : fibers'[i] = fibers'[j] => i = j
  <2>1. ASSUME NEW i \in DOMAIN fibers', NEW j \in DOMAIN fibers', fibers'[i] = fibers'[j]
        PROVE  i = j
    <3>1. i + 1 = j + 1
      BY <1>2, <2>1 DEF Listed
    <3> QED BY <1>2, <3>1
  <2> QED BY <2>1
<1>8. NumInSync'
  BY <1>2 DEF NumInSync
<1> QED BY <1>2, <1>4, <1>5, <1>6, <1>7, <1>8

\* runUntilIdle() switches to an unblocked fiber.
LEMMA RunFiberStep == ASSUME IInv, TypeOK', RunFiber PROVE IInv'
<1> USE DEF At, Goto, userVars, clientVars, taskVars, ctrlVars
<1> TypeOK /\ Shape /\ Leaving /\ MutexHeld
  BY InvParts
<1> DEFINE h == Head(fibers)
<1> DEFINE me == currentFiber
<1>1. /\ num' = num - 1 /\ fibers' = Tail(fibers) /\ fibers # <<>> /\ tasks' = tasks
      /\ state' = [state EXCEPT ![me] = "Idle"] /\ idleFibers' = idleFibers \cup {me}
      /\ currentFiber' = h /\ pc' = [pc EXCEPT ![me] = "idle"]
      /\ ~stopped /\ pc[me] = "runUntilIdle"
      /\ UNCHANGED <<mutex, numBlockedFibers, waiting, numFibers, task, deadline, registered,
                     client, taskVars, ctrlVars>>
  BY DEF RunFiber
<1>2. /\ h \in Fibers /\ h \in Created /\ state[h] = "Queued" /\ InSuspend(h)
      /\ h # me => pc[h] = "blocked"
      /\ \A g : InQueue(g)' <=> InQueue(g) /\ g # h
      /\ \A i, j \in DOMAIN fibers' : fibers'[i] = fibers'[j] => i = j
      /\ NumInSync'
  BY <1>1, DequeueFiber
<1>3. /\ me \in Fibers /\ pc \in [Fibers -> Places] /\ state \in [Fibers -> States]
      /\ task[me] = NoTask /\ state[me] = "Running" /\ h # me /\ pc[h] = "blocked"
  BY Zenon, <1>1, <1>2, Here DEF Shape, Placed, Looping, InSuspend, States
<1>4. ~MainRejoined
  BY <1>2, <1>3, Here
<1>5. /\ \A f \in Fibers : pc'[f] = IF f = me THEN "idle" ELSE pc[f]
      /\ \A f \in Fibers : state'[f] = IF f = me THEN "Idle" ELSE state[f]
  BY <1>1, <1>3
<1>6. WaitingInSync'
  BY <1>1 DEF Shape, WaitingInSync
<1>7. BlockedCounted'
  <2>1. Created \subseteq Fibers /\ Created' = Created
    BY <1>1, CreatedType DEF Created
  <2>2. {f \in Created : pc'[f] = "blocked"} = {f \in Created : pc[f] = "blocked"}
    BY <1>1, <1>5, <2>1
  <2> QED BY Zenon, <1>1, <2>1, <2>2 DEF Shape, BlockedCounted
<1>8. Placed'
  <2>1. \A f \in Fibers : InSuspend(f)' <=> InSuspend(f)
    BY <1>1, <1>3, <1>5 DEF InSuspend
  <2>2. Created' = Created
    BY <1>1 DEF Created
  <2> QED BY ZenonT(60), <1>1, <1>2, <1>3, <1>5, <2>1, <2>2, Here
             DEF Shape, Placed, Parked, Looping, Tasking
<1>9. Listed'
  <2>1. \A f \in Fibers : SwitchedTo(f)' <=> f = h
    BY <1>1, <1>3, <1>5 DEF SwitchedTo
  <2>2. \A f \in Fibers : ~SwitchedTo(f)
    BY <1>1 DEF SwitchedTo
  <2> QED BY Zenon, <1>1, <1>2, <1>3, <1>5, <2>1, <2>2 DEF Shape, Listed, Contains
<1>10. ~MainRejoined'
  BY <1>1, <1>4, <1>5, CreatedType DEF MainRejoined, Created
<1>11. IdleListed'
  BY Zenon, <1>1, <1>3, <1>4, <1>5, <1>10 DEF Shape, IdleListed
<1>12. Leaving'
  BY <1>1, <1>3, <1>5, <1>10 DEF Leaving
<1>13. Registered'
  BY Zenon, <1>1, <1>3, <1>5, RegisteredFrame DEF InSuspend
<1>14. MutexHeld'
  BY <1>1, <1>3, <1>5 DEF MutexHeld, Holding
<1> QED BY Zenon, <1>2, <1>6, <1>7, <1>8, <1>9, <1>11, <1>12, <1>13, <1>14 DEF IInv

\* The current fiber is not suspending: it goes to a place where it is not
\* suspending either, perhaps with another task or another deadline.
Runs(p) ==
  /\ ~stopped /\ pc' = [pc EXCEPT ![currentFiber] = p]
  /\ pc[currentFiber] \notin Parked \cup Suspending /\ p \notin Parked \cup Suspending
  /\ \E x : task' = [task EXCEPT ![currentFiber] = x]
  /\ \E d : deadline' = [deadline EXCEPT ![currentFiber] = d]
  /\ p \in Looping => task'[currentFiber] = NoTask
  /\ p \in Tasking => task'[currentFiber] # NoTask
  /\ UNCHANGED <<numBlockedFibers, fibers, waiting, currentFiber, idleFibers, numFibers, state>>

\* A step by which the current fiber takes or ends a task keeps Shape.
LEMMA ShapeRuns ==
  ASSUME IInv, TypeOK', NEW p, Runs(p)
  PROVE  /\ WaitingInSync' /\ BlockedCounted' /\ Placed' /\ Listed' /\ IdleListed'
         /\ MainRejoined' <=> MainRejoined
<1> TypeOK /\ Shape
  BY InvParts
<1> DEFINE me == currentFiber
<1>1. /\ me \in Fibers /\ Created \subseteq Fibers /\ Created' = Created /\ currentFiber' = me
      /\ \A f \in Fibers : pc'[f] = IF f = me THEN p ELSE pc[f]
      /\ \A f \in Fibers \ {me} : task'[f] = task[f]
      /\ \A f \in Fibers \ {me} : deadline'[f] = deadline[f]
      /\ pc[me] \notin Parked \cup Suspending /\ p \notin Parked \cup Suspending
      /\ p \in Looping => task'[me] = NoTask
      /\ p \in Tasking => task'[me] # NoTask
  BY Zenon, CreatedType DEF Runs, TypeOK, Created
<1>2. UNCHANGED <<numBlockedFibers, fibers, waiting, idleFibers, numFibers, state>>
  BY DEF Runs
<1>3. ~InSuspend(me) /\ state[me] = "Running"
  BY ZenonT(60), <1>1 DEF InSuspend, Shape, Placed, TypeOK, States, Parked
<1>4. WaitingInSync'
  <2>1. \A f \in DOMAIN waiting.fibers : f \in Fibers \ {me}
    BY Zenon, <1>1, <1>3 DEF TypeOK, Shape, Listed, Contains
  <2> QED BY Zenon, <1>1, <1>2, <2>1 DEF Shape, WaitingInSync
<1>5. BlockedCounted'
  <2>1. {f \in Created : pc'[f] = "blocked"} = {f \in Created : pc[f] = "blocked"}
    BY Zenon, <1>1 DEF Parked
  <2> QED BY Zenon, <1>1, <1>2, <2>1 DEF Shape, BlockedCounted
<1>6. Placed'
  <2>1. \A f \in Fibers : InSuspend(f)' <=> InSuspend(f)
    BY Zenon, <1>1, <1>3 DEF InSuspend
  <2> QED BY ZenonT(60), <1>1, <1>2, <1>3, <2>1, Here DEF Shape, Placed, Parked
<1>7. Listed'
  <2>1. \A f \in Fibers : (SwitchedTo(f)' <=> SwitchedTo(f)) /\ (InQueue(f)' <=> InQueue(f))
    BY Zenon, <1>1, <1>2 DEF SwitchedTo, InQueue, Parked
  <2> QED BY Zenon, <1>2, <2>1 DEF Shape, Listed, Contains
<1>8. MainRejoined' <=> MainRejoined
  BY Zenon, <1>1 DEF MainRejoined, Parked
<1>9. IdleListed'
  BY <1>1, <1>2, <1>8 DEF Shape, IdleListed, Parked
<1> QED BY <1>4, <1>5, <1>6, <1>7, <1>8, <1>9

\* runUntilIdle() and steal() take the first task of the queue.
LEMMA DequeueTask ==
  ASSUME IInv, tasks # <<>>, num' = num - 1, tasks' = Tail(tasks), fibers' = fibers
  PROVE  /\ NumInSync' /\ num > 0 /\ ~MainRejoined /\ pc[currentFiber] # "exit"
         /\ Head(tasks) \in AllTasks /\ Head(tasks) \in scheduled
         /\ \A i \in DOMAIN tasks' : tasks'[i] \in scheduled
<1> TypeOK /\ NumInSync /\ Leaving
  BY DEF IInv
<1>1. fibers \in Seq(Fibers) /\ tasks \in Seq(AllTasks)
  BY Zenon DEF TypeOK
<1>2. /\ Head(tasks) \in AllTasks /\ Head(tasks) = tasks[1] /\ 1 \in DOMAIN tasks
      /\ Len(tasks') = Len(tasks) - 1 /\ Len(fibers) \in Nat /\ Len(tasks) \in Nat \ {0}
      /\ \A i \in DOMAIN tasks' : i + 1 \in DOMAIN tasks /\ tasks'[i] = tasks[i + 1]
  BY <1>1
<1>3. NumInSync' /\ num > 0
  BY <1>2 DEF NumInSync
<1>4. ~MainRejoined /\ pc[currentFiber] # "exit"
  BY <1>3 DEF Leaving
<1> QED BY <1>2, <1>3, <1>4 DEF Leaving

\* runUntilIdle() takes a task.
LEMMA RunTaskStep == ASSUME IInv, TypeOK', RunTask PROVE IInv'
<1> USE DEF At, Goto, userVars, clientVars, taskVars, ctrlVars
<1> TypeOK /\ Shape /\ Leaving /\ MutexHeld
  BY InvParts
<1>1. /\ num' = num - 1 /\ tasks' = Tail(tasks) /\ tasks # <<>> /\ fibers' = fibers
      /\ task' = [task EXCEPT ![currentFiber] = Head(tasks)]
      /\ mutex' = "free" /\ pc' = [pc EXCEPT ![currentFiber] = "task"]
      /\ ~stopped /\ pc[currentFiber] = "runUntilIdle"
      /\ UNCHANGED <<numBlockedFibers, waiting, currentFiber, idleFibers, numFibers, state,
                     deadline, registered, client, taskVars, ctrlVars>>
  BY DEF RunTask
<1>2. /\ NumInSync' /\ ~MainRejoined /\ Head(tasks) \in AllTasks /\ Head(tasks) \in scheduled
      /\ \A i \in DOMAIN tasks' : tasks'[i] \in scheduled
  BY <1>1, DequeueTask
<1>3. /\ currentFiber \in Fibers /\ task[currentFiber] = NoTask
      /\ \A f \in Fibers : task'[f] = IF f = currentFiber THEN Head(tasks) ELSE task[f]
      /\ \A f \in Fibers : pc'[f] = IF f = currentFiber THEN "task" ELSE pc[f]
  BY Zenon, <1>1, Here DEF Shape, Placed, Looping
<1>4. Head(tasks) # NoTask
  BY <1>2, WorkerAssumption DEF AllTasks
<1>5. Runs("task")
  <2>1. deadline' = [deadline EXCEPT ![currentFiber] = deadline[currentFiber]]
    BY Zenon, <1>1 DEF TypeOK
  <2>2. \E d : deadline' = [deadline EXCEPT ![currentFiber] = d]
    BY Zenon, <2>1
  <2> QED BY Zenon, <1>1, <1>3, <1>4, <2>2 DEF Runs, Parked, Suspending, Looping
<1>6. /\ WaitingInSync' /\ BlockedCounted' /\ Placed' /\ Listed' /\ IdleListed' /\ ~MainRejoined'
  BY Zenon, <1>2, <1>5, ShapeRuns
<1>7. Leaving'
  BY <1>1, <1>2, <1>3, <1>6 DEF Leaving
<1>8. Registered'
  BY Zenon, <1>1, <1>3, RegisteredFrame DEF InSuspend
<1>9. MutexHeld'
  BY <1>1, <1>3 DEF MutexHeld, Holding
<1> QED BY Zenon, <1>2, <1>6, <1>7, <1>8, <1>9 DEF IInv

\* Worker::steal()
LEMMA ClientStealsStep ==
  ASSUME IInv, TypeOK', NEW c \in Clients, ClientSteals(c) PROVE IInv'
<1> USE DEF fiberVars, userVars, clientVars, ctrlVars
<1> TypeOK /\ Shape /\ Leaving /\ MutexHeld /\ Registered
  BY InvParts DEF Shape
<1>1. /\ NumInSync' /\ ~MainRejoined /\ pc[currentFiber] # "exit"
      /\ \A i \in DOMAIN tasks' : tasks'[i] \in scheduled
  BY DequeueTask DEF ClientSteals
<1>2. Shape'
  BY Zenon, ShapeFrame DEF ClientSteals, Registered
<1>3. ~MainRejoined'
  BY <1>1 DEF MainRejoined, Created, ClientSteals
<1>4. Leaving'
  BY Zenon, <1>1, <1>3 DEF Leaving, ClientSteals
<1>5. MutexHeld'
  BY DEF MutexHeld, ClientSteals
<1> QED BY <1>1, <1>2, <1>4, <1>5 DEF IInv, Shape

\* A step of a task that ends: the task's fiber takes no part in a wait().
LEMMA TaskEnds ==
  ASSUME IInv, TypeOK', NEW p \in {"runUntilIdle", "runUntilShutdown"},
         ~stopped, pc[currentFiber] = "task", pc' = [pc EXCEPT ![currentFiber] = p],
         task' = [task EXCEPT ![currentFiber] = NoTask], mutex' = "worker",
         shutdown' /\ Multi => ShutdownTask \in scheduled,
         UNCHANGED <<workVars, currentFiber, idleFibers, numFibers, state, deadline, registered,
                     client, scheduled, stopped>>
  PROVE  IInv'
<1> USE DEF workVars
<1> TypeOK /\ NumInSync /\ Shape /\ Leaving
  BY Zenon, InvParts
<1>1. /\ currentFiber \in Fibers /\ ~MainRejoined
      /\ \A f \in Fibers : task'[f] = IF f = currentFiber THEN NoTask ELSE task[f]
      /\ \A f \in Fibers : pc'[f] = IF f = currentFiber THEN p ELSE pc[f]
  BY Here
<1>2. Runs(p)
  <2>1. \E d : deadline' = [deadline EXCEPT ![currentFiber] = d]
    <3>1. deadline' = [deadline EXCEPT ![currentFiber] = deadline[currentFiber]]
      BY Zenon DEF TypeOK
    <3> QED BY Zenon, <3>1
  <2> QED BY Zenon, <1>1, <2>1 DEF Runs, Parked, Suspending, Looping, Tasking
<1>3. /\ WaitingInSync' /\ BlockedCounted' /\ Placed' /\ Listed' /\ IdleListed' /\ ~MainRejoined'
  BY Zenon, <1>1, <1>2, ShapeRuns
<1>4. NumInSync'
  BY DEF NumInSync
<1>5. Leaving'
  BY <1>1, <1>3 DEF Leaving
<1>6. Registered'
  BY Zenon, <1>1, RegisteredFrame DEF InSuspend, Suspending
<1>7. MutexHeld'
  BY <1>1 DEF MutexHeld, Holding
<1> QED BY Zenon, <1>3, <1>4, <1>5, <1>6, <1>7 DEF IInv

\* The task returns to runUntilIdle(), or the bound thread calls stop().
LEMMA TaskEndActions ==
  ASSUME IInv, TypeOK', TaskReturns \/ StopSingleThreaded PROVE IInv'
<1> USE DEF At, Goto, userVars, clientVars
<1> TypeOK /\ Leaving /\ Placed
  BY DEF IInv
<1>1. CASE TaskReturns
  <2>1. task[currentFiber] \in scheduled
    BY Zenon, <1>1 DEF TaskReturns, Placed, Tasking, Leaving, TypeOK
  <2>2. shutdown' /\ Multi => ShutdownTask \in scheduled
    BY Zenon, <1>1, <2>1 DEF TaskReturns, Leaving
  <2> QED BY Zenon, <1>1, <2>2, TaskEnds DEF TaskReturns
<1>2. CASE StopSingleThreaded
  BY Zenon, <1>2, TaskEnds DEF StopSingleThreaded
<1> QED BY <1>1, <1>2

\* A step of a task that enters a wait() with lock and predicate, goes round
\* its loop or returns from it.
LEMMA WaitMoves ==
  ASSUME IInv, TypeOK', NEW p \in {"task", "lockWork"},
         ~stopped, pc[currentFiber] \in {"task", "relock"},
         pc' = [pc EXCEPT ![currentFiber] = p],
         \E d : deadline' = [deadline EXCEPT ![currentFiber] = d],
         \A t \in Tasks : t # task[currentFiber] => registered'[t] = registered[t],
         task[currentFiber] \in Tasks =>
           LET t == task[currentFiber] IN
           \/ p = "task" /\ registered'[t] = NoFiber
           \/ p = "lockWork" /\ registered'[t] \in {currentFiber, registered[t]},
         UNCHANGED <<mutex, workVars, currentFiber, idleFibers, numFibers, state, task, client,
                     taskVars, ctrlVars>>
  PROVE  IInv'
<1> USE DEF workVars, taskVars, ctrlVars
<1> TypeOK /\ NumInSync /\ Shape /\ Leaving /\ MutexHeld
  BY Zenon, InvParts
<1>1. /\ currentFiber \in Fibers /\ ~MainRejoined /\ task[currentFiber] # NoTask
      /\ \A f \in Fibers : pc'[f] = IF f = currentFiber THEN p ELSE pc[f]
  BY Zenon, Here DEF Shape, Placed, Tasking
<1>2. Runs(p)
  <2>1. \E x : task' = [task EXCEPT ![currentFiber] = x]
    <3>1. task' = [task EXCEPT ![currentFiber] = task[currentFiber]]
      BY Zenon DEF TypeOK
    <3> QED BY Zenon, <3>1
  <2> QED BY Zenon, <1>1, <2>1 DEF Runs, Parked, Suspending, Looping, Tasking
<1>3. /\ WaitingInSync' /\ BlockedCounted' /\ Placed' /\ Listed' /\ IdleListed' /\ ~MainRejoined'
  BY Zenon, <1>1, <1>2, ShapeRuns
<1>4. NumInSync'
  BY Zenon DEF NumInSync
<1>5. Leaving'
  BY Zenon, <1>1, <1>3 DEF Leaving
<1>6. Registered'
  <2>1. ASSUME NEW t \in Tasks, NEW f \in Fibers, f = registered'[t]
        PROVE  task[f] = t /\ (InSuspend(f)' \/ pc'[f] \in {"lockWork", "relock"})
    <3>1. CASE f = currentFiber /\ t = task[currentFiber]
      BY Zenon, <1>1, <2>1, <3>1, NoFiberType
    <3>2. CASE f = registered[t] /\ f # currentFiber
      <4>1. task[f] = t /\ (InSuspend(f) \/ pc[f] \in {"lockWork", "relock"})
        BY Zenon, <3>2, NoFiberType DEF Shape, Registered
      <4> QED BY Zenon, <1>1, <3>2, <4>1 DEF InSuspend
    <3>3. f = registered[t] /\ f = currentFiber => t = task[currentFiber]
      BY ZenonT(60), NoFiberType DEF Shape, Registered
    <3> QED BY Zenon, <2>1, <3>1, <3>2, <3>3, NoFiberType
  <2>2. \A t \in Tasks : registered'[t] # NoFiber => registered'[t] \in Fibers
    BY Zenon DEF TypeOK
  <2> QED BY Zenon, <2>1, <2>2 DEF Shape, Registered, InSuspend
<1>7. MutexHeld'
  BY Zenon, <1>1 DEF MutexHeld, Holding
<1> QED BY Zenon, <1>3, <1>4, <1>5, <1>6, <1>7 DEF IInv

\* Worker::wait(lock, timeout, pred), where work.mutex is not held.
LEMMA WaitActions ==
  ASSUME IInv, TypeOK', Relock \/ \E d \in Timepoints \cup {NoTimeout} : BeginWait(d)
  PROVE  IInv'
<1> USE DEF At, Goto, clientVars
<1> TypeOK /\ Shape
  BY InvParts
<1>1. ASSUME NEW d, BeginWait(d) PROVE IInv'
  <2>1. /\ \A t \in Tasks : registered'[t] = IF t = task[currentFiber] THEN currentFiber
                                             ELSE registered[t]
        /\ \E e : deadline' = [deadline EXCEPT ![currentFiber] = e]
        /\ pc' = [pc EXCEPT ![currentFiber] = "lockWork"]
        /\ ~stopped /\ pc[currentFiber] = "task"
        /\ UNCHANGED <<mutex, workVars, currentFiber, idleFibers, numFibers, state, task, client,
                       taskVars, ctrlVars>>
    BY ZenonT(60), <1>1 DEF BeginWait, TypeOK, MyTask
  <2> QED BY Zenon, <2>1, WaitMoves
<1>2. CASE Relock /\ (GivesUp \/ pred[MyTask])
  <2>1. /\ \A t \in Tasks : registered'[t] = IF t = task[currentFiber] THEN NoFiber
                                             ELSE registered[t]
        /\ \E e : deadline' = [deadline EXCEPT ![currentFiber] = e]
        /\ pc' = [pc EXCEPT ![currentFiber] = "task"]
        /\ ~stopped /\ pc[currentFiber] = "relock"
        /\ UNCHANGED <<mutex, workVars, currentFiber, idleFibers, numFibers, state, task, client,
                       taskVars, ctrlVars>>
    <3>1. /\ registered' = [registered EXCEPT ![task[currentFiber]] = NoFiber]
          /\ deadline' = [deadline EXCEPT ![currentFiber] = NoTimeout]
      BY Zenon, <1>2 DEF Relock, MyTask
    <3>2. /\ pc' = [pc EXCEPT ![currentFiber] = "task"]
          /\ ~stopped /\ pc[currentFiber] = "relock"
          /\ UNCHANGED <<mutex, workVars, currentFiber, idleFibers, numFibers, state, task,
                         client, taskVars, ctrlVars>>
      BY Zenon, <1>2 DEF Relock
    <3> QED BY Zenon, <3>1, <3>2 DEF TypeOK
  <2> QED BY Zenon, <2>1, WaitMoves
<1>3. CASE Relock /\ ~(GivesUp \/ pred[MyTask])
  <2>1. /\ registered' = registered /\ deadline' = deadline
        /\ pc' = [pc EXCEPT ![currentFiber] = "lockWork"]
        /\ ~stopped /\ pc[currentFiber] = "relock"
        /\ UNCHANGED <<mutex, workVars, currentFiber, idleFibers, numFibers, state, task, client,
                       taskVars, ctrlVars>>
    BY Zenon, <1>3 DEF Relock
  <2>2. \E e : deadline' = [deadline EXCEPT ![currentFiber] = e]
    <3>1. deadline' = [deadline EXCEPT ![currentFiber] = deadline[currentFiber]]
      BY Zenon, <2>1 DEF TypeOK
    <3> QED BY Zenon, <3>1
  <2> QED BY Zenon, <2>1, <2>2, WaitMoves
<1> QED BY <1>1, <1>2, <1>3

\* runUntilIdle(): the idle fiber runs again.
LEMMA IdleResumesStep == ASSUME IInv, TypeOK', IdleResumes PROVE IInv'
<1> USE DEF At, Goto, workVars, userVars, clientVars, taskVars, ctrlVars
<1> TypeOK /\ NumInSync /\ Shape /\ Leaving /\ MutexHeld
  BY InvParts
<1> DEFINE me == currentFiber
<1>1. /\ state' = [state EXCEPT ![me] = "Running"] /\ pc' = [pc EXCEPT ![me] = "runUntilIdle"]
      /\ ~stopped /\ pc[me] = "idle"
      /\ UNCHANGED <<mutex, workVars, currentFiber, idleFibers, numFibers, task, deadline,
                     registered, client, taskVars, ctrlVars>>
  BY Zenon DEF IdleResumes
<1>2. /\ me \in Fibers /\ Created \subseteq Fibers /\ Created' = Created
      /\ \A f \in Fibers : pc'[f] = IF f = me THEN "runUntilIdle" ELSE pc[f]
      /\ \A f \in Fibers : state'[f] = IF f = me THEN "Running" ELSE state[f]
      /\ state[me] = "Idle" /\ task[me] = NoTask
  BY Zenon, <1>1, Here, CreatedType DEF Created, Shape, Placed, Looping
<1>3. NumInSync' /\ WaitingInSync'
  BY Zenon, <1>1 DEF NumInSync, Shape, WaitingInSync
<1>4. \A f \in Fibers : /\ pc'[f] = "blocked" <=> pc[f] = "blocked"
                        /\ pc'[f] = "exited" <=> pc[f] = "exited"
  <2>1. pc[me] = "idle"
    BY Zenon, <1>1
  <2> QED BY ONLY <1>2, <2>1
<1>5. BlockedCounted'
  <2>1. {f \in Created : pc'[f] = "blocked"} = {f \in Created : pc[f] = "blocked"}
    BY Zenon, <1>2, <1>4
  <2> QED BY Zenon, <1>1, <1>2, <2>1 DEF Shape, BlockedCounted
<1>6. Placed'
  <2>1. \A f \in Fibers : InSuspend(f)' <=> InSuspend(f)
    BY Zenon, <1>1, <1>2 DEF InSuspend
  <2> QED BY ZenonT(60), <1>1, <1>2, <2>1, Here DEF Shape, Placed, Parked, Looping, Tasking
<1>7. Listed'
  <2>1. \A f \in Fibers : ~SwitchedTo(f)' /\ (SwitchedTo(f) <=> f = me)
    <3>1. currentFiber' = currentFiber /\ pc[me] = "idle" /\ pc'[me] = "runUntilIdle"
      BY Zenon, <1>1, <1>2
    <3> QED BY Zenon, <3>1 DEF SwitchedTo
  <2>2. \A f \in Fibers : InQueue(f)' <=> InQueue(f)
    BY Zenon, <1>1 DEF InQueue
  <2>3. \A f \in Fibers : /\ state'[f] = "Waiting" <=> state[f] = "Waiting"
                          /\ state'[f] = "Queued" <=> state[f] = "Queued" /\ f # me
    BY Zenon, <1>2
  <2>4. state[me] # "Queued"
    BY Zenon, <1>2
  <2> QED BY Zenon, <1>1, <2>1, <2>2, <2>3, <2>4 DEF Shape, Listed, Contains
<1>8. MainRejoined' <=> MainRejoined
  BY Zenon, <1>2, <1>4 DEF MainRejoined
<1>9. IdleListed'
  BY Zenon, <1>1, <1>2, <1>8 DEF Shape, IdleListed
<1>10. Leaving'
  BY Zenon, <1>1, <1>2, <1>8, Here DEF Leaving
<1>11. Registered'
  BY Zenon, <1>1, <1>2, RegisteredFrame DEF InSuspend
<1>12. MutexHeld'
  BY Zenon, <1>1, <1>2 DEF MutexHeld, Holding
<1> QED BY Zenon, <1>3, <1>4, <1>5, <1>6, <1>7, <1>9, <1>10, <1>11, <1>12 DEF IInv

\* run() returns, or leaves through the main fiber.
LEMMA ExitStep == ASSUME IInv, TypeOK', Exit PROVE IInv'
<1> USE DEF At, Goto, workVars, userVars, clientVars, taskVars
<1> TypeOK /\ NumInSync /\ Shape /\ Leaving /\ MutexHeld
  BY InvParts
<1> DEFINE me == currentFiber
<1>1. /\ ~stopped /\ pc[me] = "exit"
      /\ UNCHANGED <<workVars, idleFibers, numFibers, state, task, deadline, registered, client,
                     taskVars, shutdown>>
  BY Zenon DEF Exit
<1>2. shutdown /\ num = 0 /\ numBlockedFibers = 0
  BY Zenon, <1>1 DEF Leaving
<1>3. NumInSync'
  BY <1>1 DEF NumInSync
<1>4. CASE me = Main
  <2>1. stopped' = TRUE /\ mutex' = "free" /\ UNCHANGED <<currentFiber, pc>>
    BY <1>4 DEF Exit
  <2>2. Shape'
    BY Zenon, <1>1, <2>1, ShapeFrame DEF fiberVars, Shape, Registered
  <2>3. Leaving'
    BY Zenon, <1>1, <1>4, <2>1 DEF Leaving, MainRejoined, Created
  <2>4. MutexHeld'
    BY Zenon, <2>1 DEF MutexHeld
  <2> QED BY Zenon, <1>3, <2>2, <2>3, <2>4 DEF IInv, Shape
<1>5. CASE me # Main
  <2>1. /\ currentFiber' = Main /\ pc' = [pc EXCEPT ![me] = "exited"] /\ UNCHANGED <<stopped,
                          mutex>>
    BY Zenon, <1>5 DEF Exit
  <2>2. /\ me \in Fibers /\ Main \in Fibers /\ Created \subseteq Fibers /\ Created' = Created
        /\ me \in Created /\ Main \in Created
        /\ \A f \in Fibers : pc'[f] = IF f = me THEN "exited" ELSE pc[f]
        /\ task[me] = NoTask
    BY Zenon, <1>1, <2>1, Here, CreatedType DEF Created, Shape, Placed, Looping
  <2>3. ~MainRejoined /\ MainRejoined'
    BY Zenon, <1>5, <2>2 DEF Leaving, MainRejoined
  <2>4. pc[Main] = "idle" /\ state[Main] = "Idle"
    <3>1. pc[Main] # "blocked"
      BY <1>2, <2>2, BlockedPositive DEF Shape
    <3> QED BY Zenon, <1>5, <2>2, <3>1 DEF Shape, Placed, Parked
  <2>5. WaitingInSync'
    BY Zenon, <1>1 DEF Shape, WaitingInSync
  <2>6. BlockedCounted'
    <3>1. {f \in Created : pc'[f] = "blocked"} = {f \in Created : pc[f] = "blocked"}
      BY Zenon, <1>1, <2>2
    <3> QED BY Zenon, <1>1, <2>2, <3>1 DEF Shape, BlockedCounted
  <2>7. Placed'
    <3>1. \A f \in Fibers : InSuspend(f)' <=> InSuspend(f)
      BY Zenon, <1>1, <2>2 DEF InSuspend
    <3>2. me # Main /\ pc[me] = "exit" /\ currentFiber' = Main /\ UNCHANGED <<state, task>>
      BY Zenon, <1>1, <1>5, <2>1
    <3>3. Placed
      BY Zenon DEF Shape
    <3> QED BY ONLY Zenon, <3>2, <2>2, <2>4, <3>1, <3>3 DEF Placed, Parked, Looping, Tasking
  <2>8. Listed'
    <3>1. \A f \in Fibers : ~SwitchedTo(f) /\ (SwitchedTo(f)' <=> f = Main)
      BY Zenon, <1>1, <1>5, <2>1, <2>2, <2>4 DEF SwitchedTo
    <3>2. \A f \in Fibers : InQueue(f)' <=> InQueue(f)
      BY <1>1 DEF InQueue
    <3> QED BY Zenon, <1>1, <2>4, <3>1, <3>2 DEF Shape, Listed, Contains
  <2>9. IdleListed'
    <3>1. \A f \in Fibers : f \in idleFibers <=> pc[f] = "idle"
      BY Zenon, <1>1, <2>3 DEF Shape, IdleListed
    <3>2. idleFibers' = idleFibers /\ currentFiber' = Main /\ pc[me] = "exit"
      BY Zenon, <1>1, <2>1
    <3>3. \A f \in Fibers : f \in idleFibers' <=> (pc'[f] = "idle" /\ f # Main) \/ f = Main
      BY ONLY Zenon, <2>2, <2>4, <3>1, <3>2
    <3> QED BY Zenon, <2>3, <3>2, <3>3 DEF IdleListed
  <2>10. Leaving'
    BY Zenon, <1>1, <1>2, <1>5, <2>1, <2>2, <2>3, <2>4 DEF Leaving
  <2>11. Registered'
    BY Zenon, <1>1, <2>2, RegisteredFrame DEF InSuspend
  <2>12. MutexHeld'
    BY Zenon, <1>1, <1>5, <2>1, <2>2, <2>4 DEF MutexHeld, Holding
  <2> QED BY Zenon, <1>3, <2>5, <2>6, <2>7, <2>8, <2>9, <2>10, <2>11, <2>12 DEF IInv
<1> QED BY <1>4, <1>5

\* suspend() up to waitForWork(), but for who may notify the fiber.
LEMMA SuspendParts ==
  ASSUME IInv, TypeOK', NEW d \in Times, Suspend(d), ~stopped,
         pc[currentFiber] \in {"task", "lockWork"}, deadline'[currentFiber] = d,
         \A f \in Fibers : f # currentFiber => deadline'[f] = deadline[f],
         UNCHANGED <<num, numBlockedFibers, tasks, fibers, currentFiber, idleFibers, numFibers,
                     task, client, taskVars, ctrlVars>>
  PROVE  /\ NumInSync' /\ WaitingInSync' /\ BlockedCounted' /\ Placed' /\ Listed' /\ IdleListed'
         /\ Leaving' /\ MutexHeld' /\ InSuspend(currentFiber)'
         /\ \A f \in Fibers : f # currentFiber => pc'[f] = pc[f]
<1> USE DEF Goto, taskVars, ctrlVars
<1> TypeOK /\ NumInSync /\ Shape /\ Leaving /\ MutexHeld
  BY Zenon, InvParts
<1> DEFINE me == currentFiber
<1>1. /\ mutex' = "worker" /\ pc' = [pc EXCEPT ![me] = "waitForWork"]
      /\ \/ /\ state' = [state EXCEPT ![me] = "Waiting"] /\ waiting' = Add(waiting, d, me)
         \/ /\ state' = [state EXCEPT ![me] = "Yielded"] /\ waiting' = waiting
  BY Zenon DEF Suspend
<1>2. /\ me \in Fibers /\ Created \subseteq Fibers /\ Created' = Created
      /\ \A f \in Fibers : pc'[f] = IF f = me THEN "waitForWork" ELSE pc[f]
      /\ \A f \in Fibers \ {me} : state'[f] = state[f]
      /\ task[me] # NoTask /\ state[me] = "Running" /\ ~MainRejoined
      /\ state'[me] \in {"Waiting", "Yielded"}
  <2>1. task[me] # NoTask /\ state[me] = "Running"
    BY Zenon, Here DEF Shape, Placed, Tasking, InSuspend, Suspending, States
  <2> QED BY Zenon, <1>1, <2>1, Here, CreatedType DEF Created
<1>3. NumInSync'
  BY Zenon DEF NumInSync
<1>4. ~Contains(waiting, me)
  BY Zenon, <1>2 DEF Shape, Listed
<1>5. WaitingInSync'
  <2>1. CASE waiting' = waiting
    BY Zenon, <1>2, <1>4, <2>1 DEF Shape, WaitingInSync, Contains, TypeOK
  <2>2. CASE waiting' = Add(waiting, d, me)
    <3>1. InSync(waiting')
      BY Zenon, <1>4, <2>2, AddInSync DEF Shape, WaitingInSync
    <3>2. \A f \in DOMAIN waiting'.fibers :
            waiting'.fibers[f] = IF f = me THEN d ELSE deadline[f]
      BY Zenon, <1>4, <2>2 DEF Add, Shape, WaitingInSync, Contains
    <3> QED BY Zenon, <1>2, <3>1, <3>2 DEF WaitingInSync, TypeOK
  <2> QED BY Zenon, <1>1, <2>1, <2>2
<1>6. BlockedCounted'
  <2>1. {f \in Created : pc'[f] = "blocked"} = {f \in Created : pc[f] = "blocked"}
    BY Zenon, <1>2
  <2> QED BY Zenon, <1>2, <2>1 DEF Shape, BlockedCounted
<1>7. InSuspend(me)' /\ \A f \in Fibers : f # me => (InSuspend(f)' <=> InSuspend(f))
  BY Zenon, <1>2 DEF InSuspend, Suspending
<1>8. Placed'
  BY ZenonT(60), <1>2, <1>7, Here DEF Shape, Placed, Parked, Looping, Tasking
<1>9. Listed'
  <2>1. \A f \in Fibers : (SwitchedTo(f)' <=> SwitchedTo(f)) /\ ~SwitchedTo(me)
    BY Zenon, <1>2 DEF SwitchedTo
  <2>2. \A f \in Fibers : InQueue(f)' <=> InQueue(f)
    BY Zenon DEF InQueue
  <2>3. \A f \in Fibers : Contains(waiting', f) <=>
          Contains(waiting, f) \/ (f = me /\ state'[me] = "Waiting")
    <3>1. CASE state' = [state EXCEPT ![me] = "Waiting"] /\ waiting' = Add(waiting, d, me)
      <4>1. state'[me] = "Waiting"
        BY Zenon, <1>2, <3>1 DEF TypeOK
      <4>2. DOMAIN waiting'.fibers = DOMAIN waiting.fibers \cup {me}
        BY ONLY Zenon, <3>1 DEF Add
      <4> QED BY Zenon, <4>1, <4>2 DEF Contains
    <3>2. CASE state' = [state EXCEPT ![me] = "Yielded"] /\ waiting' = waiting
      <4>1. state'[me] = "Yielded"
        BY Zenon, <1>2, <3>2 DEF TypeOK
      <4> QED BY Zenon, <3>2, <4>1
    <3> QED BY Zenon, <1>1, <3>1, <3>2
  <2> QED BY Zenon, <1>2, <1>4, <2>1, <2>2, <2>3 DEF Shape, Listed
<1>10. ~MainRejoined'
  BY Zenon, <1>2 DEF MainRejoined
<1>11. IdleListed'
  BY Zenon, <1>2, <1>10 DEF Shape, IdleListed
<1>12. Leaving'
  BY Zenon, <1>2, <1>10 DEF Leaving
<1>13. MutexHeld'
  BY Zenon, <1>1, <1>2 DEF MutexHeld, Holding
<1> QED BY Zenon, <1>2, <1>3, <1>5, <1>6, <1>7, <1>8, <1>9, <1>11, <1>12, <1>13

\* Worker::wait(): the steps that suspend the current fiber.
LEMMA SuspendActions ==
  ASSUME IInv, TypeOK', LockAndSuspend \/ \E d \in Timepoints \cup {NoTimeout} : RawWait(d)
  PROVE  IInv'
<1> USE DEF At, clientVars
<1> TypeOK /\ Shape /\ Registered
  BY Zenon, InvParts DEF Shape
<1>1. CASE LockAndSuspend
  <2>1. deadline[currentFiber] \in Times
    BY Zenon, Here DEF TypeOK
  <2>2. /\ NumInSync' /\ WaitingInSync' /\ BlockedCounted' /\ Placed' /\ Listed' /\ IdleListed'
        /\ Leaving' /\ MutexHeld' /\ InSuspend(currentFiber)'
        /\ \A f \in Fibers : f # currentFiber => pc'[f] = pc[f]
    BY Zenon, <1>1, <2>1, SuspendParts DEF LockAndSuspend
  <2>3. Registered'
    BY Zenon, <1>1, <2>2, RegisteredFrame DEF LockAndSuspend, InSuspend
  <2> QED BY <2>2, <2>3 DEF IInv
<1>2. ASSUME NEW d \in Timepoints \cup {NoTimeout}, RawWait(d) PROVE IInv'
  <2>1. d \in Times
    <3>1. now \in 0..MaxTime
      BY Zenon DEF TypeOK
    <3>2. now..MaxTime \subseteq 0..MaxTime
      BY ONLY <3>1
    <3> QED BY Zenon, <3>2, ConstantTypes DEF Timepoints
  <2>2. /\ deadline'[currentFiber] = d
        /\ \A f \in Fibers : f # currentFiber => deadline'[f] = deadline[f]
    BY Zenon, <1>2, Here DEF RawWait, TypeOK
  <2>3. /\ NumInSync' /\ WaitingInSync' /\ BlockedCounted' /\ Placed' /\ Listed' /\ IdleListed'
        /\ Leaving' /\ MutexHeld' /\ InSuspend(currentFiber)'
        /\ \A f \in Fibers : f # currentFiber => pc'[f] = pc[f]
    BY Zenon, <1>2, <2>1, <2>2, SuspendParts DEF RawWait
  <2>4. Registered'
    <3>1. ASSUME NEW t \in Tasks, NEW f \in Fibers, f = registered'[t]
          PROVE  task[f] = t /\ (InSuspend(f)' \/ pc'[f] \in {"lockWork", "relock"})
      <4>1. CASE t = MyTask
        BY Zenon, <1>2, <2>3, <3>1, <4>1 DEF RawWait, MyTask, TypeOK
      <4>2. CASE t # MyTask
        <5>1. f = registered[t] /\ task[f] = t
          BY ZenonT(60), <1>2, <3>1, <4>2, NoFiberType DEF RawWait, TypeOK, Registered
        <5>2. f # currentFiber
          BY <4>2, <5>1 DEF MyTask
        <5> QED BY Zenon, <1>2, <2>3, <5>1, <5>2, NoFiberType DEF Registered, InSuspend, RawWait
      <4> QED BY Zenon, <4>1, <4>2
    <3>2. \A t \in Tasks : registered'[t] # NoFiber => registered'[t] \in Fibers
      BY Zenon DEF TypeOK
    <3> QED BY Zenon, <1>2, <3>1, <3>2 DEF Registered, InSuspend, RawWait
  <2> QED BY <2>3, <2>4 DEF IInv
<1> QED BY <1>1, <1>2

\* suspend() after waitForWork(): the current fiber is now parked.
LEMMA BlockParts ==
  ASSUME IInv, TypeOK', Block, pc[currentFiber] = "switch", ~stopped,
         \A f \in Fibers : pc'[f] = "blocked" <=> pc[f] = "blocked" \/ f = currentFiber,
         \A f \in Fibers : f \in Created' <=> f \in Created \/ pc'[f] \notin {"none", "blocked"}
  PROVE  /\ BlockedCounted' /\ InSuspend(currentFiber) /\ currentFiber \in Fibers
         /\ currentFiber \in Created /\ ~MainRejoined
<1> TypeOK /\ Shape
  BY Zenon, InvParts
<1> DEFINE blocked == {f \in Created : pc[f] = "blocked"}
<1>1. /\ currentFiber \in Fibers /\ currentFiber \in Created /\ ~MainRejoined
      /\ InSuspend(currentFiber) /\ Created \subseteq Fibers
  BY Here, CreatedType DEF Shape, Placed, InSuspend, Tasking, Suspending
<1>2. Created' \subseteq Fibers
  <2>1. numFibers' \in Fibers /\ MaxFibers \in Nat
    BY Zenon, ConstantTypes, WorkerAssumption DEF TypeOK
  <2> QED BY ONLY <2>1 DEF Created, Fibers
<1>3. {f \in Created' : pc'[f] = "blocked"} = blocked \cup {currentFiber}
  BY ONLY Zenon, <1>1, <1>2,
     \A f \in Fibers : pc'[f] = "blocked" <=> pc[f] = "blocked" \/ f = currentFiber,
     \A f \in Fibers : f \in Created' <=> f \in Created \/ pc'[f] \notin {"none", "blocked"}
<1>4. currentFiber \notin blocked
  OBVIOUS
<1>5. Cardinality(blocked \cup {currentFiber}) = Cardinality(blocked) + 1
  BY Zenon, <1>4, BlockedFinite, FS_AddElement
<1>6. BlockedCounted'
  BY <1>3, <1>5 DEF BlockedCounted, Shape, Block
<1> QED BY Zenon, <1>1, <1>6

\* suspend() switches to an unblocked fiber.
LEMMA SwitchToQueuedStep == ASSUME IInv, TypeOK', SwitchToQueued PROVE IInv'
<1> USE DEF At, Goto, userVars, clientVars, taskVars, ctrlVars
<1> TypeOK /\ Shape /\ Leaving /\ MutexHeld
  BY InvParts
<1> DEFINE me == currentFiber
<1> DEFINE h == Head(fibers)
<1>1. /\ num' = num - 1 /\ fibers' = Tail(fibers) /\ fibers # <<>> /\ tasks' = tasks
      /\ currentFiber' = h /\ pc' = [pc EXCEPT ![me] = "blocked"]
      /\ ~stopped /\ pc[me] = "switch" /\ Block
      /\ UNCHANGED <<mutex, waiting, idleFibers, numFibers, state, task, deadline, registered,
                     client, taskVars, ctrlVars>>
  BY DEF SwitchToQueued
<1>2. /\ h \in Fibers /\ h \in Created /\ state[h] = "Queued" /\ InSuspend(h)
      /\ h # me => pc[h] = "blocked"
      /\ \A g : InQueue(g)' <=> InQueue(g) /\ g # h
      /\ \A i, j \in DOMAIN fibers' : fibers'[i] = fibers'[j] => i = j
      /\ NumInSync'
  BY Zenon, <1>1, DequeueFiber
<1>3. /\ \A f \in Fibers : pc'[f] = IF f = me THEN "blocked" ELSE pc[f]
      /\ Created' = Created /\ Created \subseteq Fibers
  BY Zenon, <1>1, Here, CreatedType DEF Created
<1>4. BlockedCounted' /\ InSuspend(me) /\ me \in Fibers /\ me \in Created /\ ~MainRejoined
  BY Zenon, <1>1, <1>3, BlockParts DEF Shape, Placed
<1>5. WaitingInSync'
  BY Zenon, <1>1 DEF Shape, WaitingInSync
<1>6. \A f \in Fibers : InSuspend(f)' <=> InSuspend(f)
  BY Zenon, <1>1, <1>3, <1>4 DEF InSuspend, Suspending
<1>7. Placed'
  <2>1. pc'[h] = "blocked"
    BY Zenon, <1>2, <1>3
  <2>2. task[me] # NoTask
    BY <1>4 DEF InSuspend
  <2> QED BY Zenon, <1>1, <1>2, <1>3, <1>4, <1>6, <2>1, <2>2, Here
          DEF Shape, Placed, Parked, Looping, Tasking
<1>8. Listed'
  <2>1. \A f \in Fibers : ~SwitchedTo(f) /\ (SwitchedTo(f)' <=> f = h)
    BY Zenon, <1>1, <1>2, <1>3 DEF SwitchedTo
  <2> QED BY Zenon, <1>1, <1>2, <2>1 DEF Shape, Listed, Contains
<1>9. ~MainRejoined'
  BY <1>3, <1>4 DEF MainRejoined
<1>10. IdleListed'
  <2>1. \A f \in Fibers : f \in idleFibers <=> pc[f] = "idle"
    BY Zenon, <1>1, <1>4 DEF Shape, IdleListed
  <2>2. pc[me] = "switch" /\ idleFibers' = idleFibers /\ currentFiber' = h /\ pc'[h] = "blocked"
    BY Zenon, <1>1, <1>2, <1>3
  <2>3. \A f \in Fibers : f \in idleFibers' <=> pc'[f] = "idle" /\ f # currentFiber'
    BY ONLY Zenon, <1>3, <2>1, <2>2
  <2> QED BY Zenon, <1>9, <2>3 DEF IdleListed
<1>11. Leaving'
  BY SMTT(60), <1>1, <1>2, <1>3, <1>9 DEF Leaving
<1>12. Registered'
  BY Zenon, <1>1, <1>3, <1>6, RegisteredFrame
<1>13. MutexHeld'
  BY Zenon, <1>1, <1>2, <1>3 DEF MutexHeld, Holding
<1> QED BY Zenon, <1>2, <1>4, <1>5, <1>7, <1>8, <1>10, <1>11, <1>12, <1>13 DEF IInv

\* suspend() switches to an idle fiber.
LEMMA SwitchToIdleStep ==
  ASSUME IInv, TypeOK', NEW to \in idleFibers, SwitchToIdle(to) PROVE IInv'
<1> USE DEF At, Goto, userVars, clientVars, taskVars, ctrlVars
<1> TypeOK /\ NumInSync /\ Shape /\ Leaving /\ MutexHeld
  BY InvParts
<1> DEFINE me == currentFiber
<1>1. /\ idleFibers' = idleFibers \ {to}
      /\ currentFiber' = to /\ pc' = [pc EXCEPT ![me] = "blocked"]
      /\ ~stopped /\ pc[me] = "switch" /\ Block
      /\ UNCHANGED <<mutex, num, tasks, fibers, waiting, numFibers, state, task, deadline,
                     registered, client, taskVars, ctrlVars>>
  BY Zenon DEF SwitchToIdle
<1>2. /\ \A f \in Fibers : pc'[f] = IF f = me THEN "blocked" ELSE pc[f]
      /\ Created' = Created /\ Created \subseteq Fibers
  BY Zenon, <1>1, Here, CreatedType DEF Created
<1>3. BlockedCounted' /\ InSuspend(me) /\ me \in Fibers /\ me \in Created /\ ~MainRejoined
  BY Zenon, <1>1, <1>2, BlockParts DEF Shape, Placed
<1>4. /\ to \in Fibers /\ to # me /\ pc[to] = "idle" /\ state[to] = "Idle" /\ to \in Created
      /\ task[me] # NoTask
  BY Zenon, <1>3 DEF Shape, IdleListed, Placed, TypeOK, InSuspend
<1>5. NumInSync' /\ WaitingInSync'
  BY Zenon, <1>1 DEF NumInSync, Shape, WaitingInSync
<1>6. \A f \in Fibers : InSuspend(f)' <=> InSuspend(f)
  BY Zenon, <1>1, <1>2, <1>3 DEF InSuspend, Suspending
<1>7. Placed'
  BY Zenon, <1>1, <1>2, <1>3, <1>4, <1>6, Here DEF Shape, Placed, Parked, Looping, Tasking
<1>8. Listed'
  <2>1. \A f \in Fibers : ~SwitchedTo(f) /\ (SwitchedTo(f)' <=> f = to)
    BY Zenon, <1>1, <1>2, <1>4 DEF SwitchedTo
  <2>2. \A f \in Fibers : InQueue(f)' <=> InQueue(f)
    BY Zenon, <1>1 DEF InQueue
  <2> QED BY Zenon, <1>1, <1>4, <2>1, <2>2 DEF Shape, Listed, Contains
<1>9. ~MainRejoined'
  BY Zenon, <1>2, <1>3 DEF MainRejoined
<1>10. IdleListed'
  <2>1. \A f \in Fibers : f \in idleFibers <=> pc[f] = "idle"
    BY Zenon, <1>1, <1>3 DEF Shape, IdleListed
  <2>2. pc[me] = "switch" /\ idleFibers' = idleFibers \ {to} /\ currentFiber' = to
    BY Zenon, <1>1
  <2>3. \A f \in Fibers : f \in idleFibers' <=> pc'[f] = "idle" /\ f # currentFiber'
    BY ONLY Zenon, <1>2, <2>1, <2>2
  <2> QED BY Zenon, <1>9, <2>3 DEF IdleListed
<1>11. Leaving'
  BY Zenon, <1>1, <1>2, <1>4, <1>9 DEF Leaving
<1>12. Registered'
  BY Zenon, <1>1, <1>6, <1>2, RegisteredFrame
<1>13. MutexHeld'
  BY Zenon, <1>1, <1>2, <1>4 DEF MutexHeld, Holding
<1> QED BY Zenon, <1>3, <1>5, <1>7, <1>8, <1>10, <1>11, <1>12, <1>13 DEF IInv

\* suspend() switches to a new fiber.
LEMMA SwitchToNewStep == ASSUME IInv, TypeOK', SwitchToNew PROVE IInv'
<1> USE DEF At, userVars, clientVars, taskVars, ctrlVars
<1> TypeOK /\ NumInSync /\ Shape /\ Leaving /\ MutexHeld
  BY InvParts
<1> DEFINE me == currentFiber
<1> DEFINE new == numFibers + 1
<1>1. /\ numFibers' = new /\ currentFiber' = new
      /\ pc' = [pc EXCEPT ![me] = "blocked", ![new] = EntryOfRun]
      /\ ~stopped /\ pc[me] = "switch" /\ Block /\ numFibers < MaxFibers
      /\ UNCHANGED <<mutex, num, tasks, fibers, waiting, idleFibers, state, task, deadline,
                     registered, client, taskVars, ctrlVars>>
  BY Zenon DEF SwitchToNew
<1>2. /\ new \in Fibers /\ new \notin Created /\ Created' = Created \cup {new}
      /\ new # Main /\ Created \subseteq Fibers
  <2>1. numFibers \in Fibers /\ numFibers' = numFibers + 1 /\ numFibers < MaxFibers
    BY Zenon, <1>1 DEF TypeOK
  <2> QED BY ONLY <2>1, WorkerAssumption DEF Created, Fibers, Main
<1>3. /\ pc[new] = "none" /\ task[new] = NoTask /\ state[new] = "Running" /\ new # me
  BY Zenon, <1>1, <1>2, Here DEF Shape, Placed, Looping, InSuspend, States
<1>4. /\ \A f \in Fibers : pc'[f] = IF f = me THEN "blocked"
                                    ELSE IF f = new THEN EntryOfRun ELSE pc[f]
  BY Zenon, <1>1, <1>2, <1>3, Here
<1> HIDE DEF new
<1>5. EntryOfRun \in {"run", "runUntilShutdown"}
  BY DEF EntryOfRun
<1>6. BlockedCounted' /\ InSuspend(me) /\ me \in Fibers /\ me \in Created /\ ~MainRejoined
  BY ZenonT(60), <1>1, <1>2, <1>3, <1>4, <1>5, BlockParts DEF Shape, Placed
<1>7. NumInSync' /\ WaitingInSync'
  BY Zenon, <1>1 DEF NumInSync, Shape, WaitingInSync
<1>8. task[me] # NoTask /\ \A f \in Fibers : InSuspend(f)' <=> InSuspend(f)
  BY Zenon, <1>1, <1>3, <1>4, <1>5, <1>6 DEF InSuspend, Suspending
<1>9. Placed'
  BY ZenonT(60), <1>1, <1>2, <1>3, <1>4, <1>5, <1>6, <1>8, Here
     DEF Shape, Placed, Parked, Looping, Tasking
<1>10. Listed'
  <2>1. \A f \in Fibers : ~SwitchedTo(f) /\ ~SwitchedTo(f)'
    BY Zenon, <1>1, <1>2, <1>3, <1>4, <1>5 DEF SwitchedTo
  <2>2. \A f \in Fibers : InQueue(f)' <=> InQueue(f)
    BY Zenon, <1>1 DEF InQueue
  <2> QED BY Zenon, <1>1, <2>1, <2>2 DEF Shape, Listed, Contains
<1>11. ~MainRejoined'
  BY Zenon, <1>2, <1>4, <1>5, <1>6 DEF MainRejoined
<1>12. IdleListed'
  <2>1. \A f \in Fibers : f \in idleFibers <=> pc[f] = "idle"
    BY Zenon, <1>1, <1>6 DEF Shape, IdleListed
  <2>2. ASSUME NEW f \in Fibers
        PROVE  (pc'[f] = "idle" <=> pc[f] = "idle") /\ (pc'[f] = "idle" => f # new)
    <3>1. pc[me] # "idle" /\ pc[new] # "idle" /\ EntryOfRun # "idle"
      BY Zenon, <1>1, <1>3, <1>5
    <3> QED BY ONLY Zenon, <3>1, <1>4
  <2> QED BY Zenon, <1>1, <1>11, <2>1, <2>2 DEF IdleListed
<1>13. Leaving'
  BY Zenon, <1>1, <1>2, <1>3, <1>4, <1>5, <1>11 DEF Leaving
<1>14. Registered'
  BY Zenon, <1>1, <1>3, <1>4, <1>8, RegisteredFrame
<1>15. MutexHeld'
  BY Zenon, <1>1, <1>2, <1>3, <1>4, <1>5 DEF MutexHeld, Holding
<1> QED BY Zenon, <1>6, <1>7, <1>9, <1>10, <1>12, <1>13, <1>14, <1>15 DEF IInv

\* suspend() returns on the fiber that was blocked.
LEMMA BlockedResumesStep == ASSUME IInv, TypeOK', BlockedResumes PROVE IInv'
<1> USE DEF At, Goto, clientVars, taskVars, ctrlVars
<1> TypeOK /\ NumInSync /\ Shape /\ Leaving /\ MutexHeld
  BY InvParts
<1> DEFINE me == currentFiber
<1> DEFINE blocked == {f \in Created : pc[f] = "blocked"}
<1>1. /\ numBlockedFibers' = numBlockedFibers - 1 /\ state' = [state EXCEPT ![me] = "Running"]
      /\ mutex' = "free" /\ ~stopped /\ pc[me] = "blocked"
      /\ UNCHANGED <<num, tasks, fibers, waiting, currentFiber, idleFibers, numFibers, task,
                     client, taskVars, ctrlVars>>
  BY Zenon DEF BlockedResumes
<1>2. \/ /\ MyTask \in RawTasks /\ registered' = [registered EXCEPT ![MyTask] = NoFiber]
         /\ deadline' = [deadline EXCEPT ![me] = NoTimeout]
         /\ pc' = [pc EXCEPT ![me] = "task"]
      \/ UNCHANGED <<registered, deadline>> /\ pc' = [pc EXCEPT ![me] = "relock"]
  BY Zenon DEF BlockedResumes
<1>3. PICK p \in {"task", "relock"} : pc' = [pc EXCEPT ![me] = p]
  BY <1>2
<1>4. /\ me \in Fibers /\ me \in Created /\ Created \subseteq Fibers /\ Created' = Created
      /\ \A f \in Fibers : pc'[f] = IF f = me THEN p ELSE pc[f]
      /\ \A f \in Fibers : state'[f] = IF f = me THEN "Running" ELSE state[f]
      /\ state[me] = "Queued" /\ task[me] # NoTask /\ ~MainRejoined
  BY Zenon, <1>1, <1>3, Here, CreatedType DEF Created, Shape, Placed, Tasking
<1>5. \A f \in Fibers : f # me => deadline'[f] = deadline[f]
  BY ZenonT(60), <1>2 DEF TypeOK
<1>6. NumInSync'
  BY <1>1 DEF NumInSync
<1>7. WaitingInSync'
  <2>1. \A f \in DOMAIN waiting.fibers : f \in Fibers /\ f # me
    BY Zenon, <1>4 DEF Shape, Listed, Contains, TypeOK
  <2> QED BY Zenon, <1>1, <1>5, <2>1 DEF Shape, WaitingInSync
<1>8. BlockedCounted'
  <2>1. {f \in Created : pc'[f] = "blocked"} = blocked \ {me} /\ me \in blocked
    BY Zenon, <1>1, <1>4
  <2>2. Cardinality(blocked \ {me}) = Cardinality(blocked) - 1
    BY Zenon, <2>1, BlockedFinite, FS_RemoveElement
  <2> QED BY Zenon, <1>1, <1>4, <2>1, <2>2 DEF Shape, BlockedCounted
<1>9. ~InSuspend(me)' /\ \A f \in Fibers : f # me => (InSuspend(f)' <=> InSuspend(f))
  BY Zenon, <1>1, <1>4 DEF InSuspend, Suspending
<1>10. Placed'
  BY ZenonT(60), <1>1, <1>4, <1>9, Here DEF Shape, Placed, Parked, Looping
<1>11. Listed'
  <2>1. \A f \in Fibers : ~SwitchedTo(f)' /\ (SwitchedTo(f) <=> f = me)
    BY Zenon, <1>1, <1>4 DEF SwitchedTo
  <2>2. \A f \in Fibers : InQueue(f)' <=> InQueue(f)
    BY Zenon, <1>1 DEF InQueue
  <2>3. \A f \in Fibers : /\ state'[f] = "Waiting" <=> state[f] = "Waiting"
                          /\ state'[f] = "Queued" <=> state[f] = "Queued" /\ f # me
    BY ONLY <1>4
  <2> QED BY Zenon, <1>1, <2>1, <2>2, <2>3 DEF Shape, Listed, Contains
<1>12. ~MainRejoined'
  BY Zenon, <1>4 DEF MainRejoined
<1>13. IdleListed'
  BY Zenon, <1>1, <1>4, <1>12 DEF Shape, IdleListed
<1>14. Leaving'
  BY Zenon, <1>1, <1>4, <1>12 DEF Leaving
<1>15. Registered'
  <2>1. CASE UNCHANGED registered /\ p = "relock"
    BY Zenon, <1>1, <1>4, <2>1, RegisteredFrame DEF InSuspend
  <2>2. CASE MyTask \in RawTasks /\ registered' = [registered EXCEPT ![MyTask] = NoFiber]
    <3>1. ASSUME NEW t \in Tasks, registered'[t] # NoFiber
          PROVE  registered'[t] = registered[t] /\ registered[t] \in Fibers /\ t # task[me]
      BY Zenon, <2>2, <3>1, WorkerAssumption DEF TypeOK, MyTask
    <3>2. ASSUME NEW t \in Tasks, NEW f \in Fibers, f = registered[t], t # task[me]
          PROVE  task[f] = t /\ (InSuspend(f)' \/ pc'[f] \in {"lockWork", "relock"})
      BY Zenon, <1>4, <1>9, <3>2, NoFiberType DEF Shape, Registered
    <3> QED BY Zenon, <1>1, <3>1, <3>2 DEF Shape, Registered, InSuspend
  <2>3. pc'[me] = p
    BY Zenon, <1>4
  <2> QED BY Zenon, <1>2, <2>1, <2>2, <2>3, Here
<1>16. MutexHeld'
  BY Zenon, <1>1, <1>4 DEF MutexHeld, Holding
<1> QED BY Zenon, <1>6, <1>7, <1>8, <1>10, <1>11, <1>13, <1>14, <1>15, <1>16 DEF IInv
-----------------------------------------------------------------------------
(* The invariant is inductive.                                            *)

\* Worker() and start() establish the invariant.
LEMMA InitInv == ASSUME Init PROVE IInv
<1> USE DEF Init
<1>1. TypeOK
  <2>1. /\ waiting.timeouts \subseteq [timepoint : Times, fiber : Fibers]
        /\ DOMAIN waiting.fibers \subseteq Fibers
    BY Zenon DEF NoneWaiting
  <2>2. pc \in [Fibers -> Places] /\ state \in [Fibers -> States]
    BY Zenon DEF Places, States
  <2>3. /\ task \in [Fibers -> AllTasks \cup {NoTask}] /\ deadline \in [Fibers -> Times]
        /\ scheduled \subseteq AllTasks /\ stolen \subseteq AllTasks /\ done \subseteq AllTasks
    BY Zenon, ConstantTypes
  <2>4. /\ pred \in [Tasks -> BOOLEAN] /\ waitLock \in [Tasks -> {"free", "fiber"} \cup Clients]
        /\ registered \in [Tasks -> Fibers \cup {NoFiber}]
        /\ waits \in [Tasks -> 0..MaxWaits] /\ spurious \in 0..MaxSpurious
    BY SMTT(60), ConstantTypes
  <2>5. client \in [Clients -> [at : {"idle", "notify", "added"}, task : Tasks \cup {NoTask}]]
    BY Zenon DEF Idle
  <2>6. /\ sleepUntil \in Times /\ scanTime \in Times /\ now \in 0..MaxTime
        /\ currentFiber \in Fibers /\ idleFibers \subseteq Fibers /\ numFibers \in Fibers
    BY ConstantTypes DEF Main
  <2>7. tasks \in Seq(AllTasks) /\ fibers \in Seq(Fibers)
    OBVIOUS
  <2> QED BY ZenonT(60), <2>1, <2>2, <2>3, <2>4, <2>5, <2>6, <2>7 DEF TypeOK
<1>2. NumInSync
  BY DEF NumInSync
<1>3. WaitingInSync
  BY Zenon DEF WaitingInSync, InSync, NoneWaiting
<1>4. Created = {Main}
  BY DEF Created, Main
<1>5. BlockedCounted
  <2>1. {f \in Created : pc[f] = "blocked"} = {}
    BY Zenon, <1>4, ConstantTypes
  <2> QED BY Zenon, <2>1, FS_EmptySet DEF BlockedCounted
<1>6. \A f \in Fibers : pc[f] \in {"none", "start", "task"}
  BY Zenon DEF Main
<1>7. Placed
  BY Zenon, <1>4, ConstantTypes, WorkerAssumption
     DEF Placed, Parked, Looping, Tasking, InSuspend, Suspending, Main
<1>8. Listed
  BY DEF Listed, Contains, NoneWaiting, InQueue
<1>9. ~MainRejoined
  BY Zenon, <1>4, <1>6, ConstantTypes DEF MainRejoined
<1>10. IdleListed
  BY Zenon, <1>6, <1>9 DEF IdleListed
<1>11. Leaving
  BY SMTT(60), <1>6, <1>9, ConstantTypes, WorkerAssumption DEF Leaving
<1>12. Registered
  BY Zenon DEF Registered, Idle
<1>13. MutexHeld
  BY Zenon, <1>6, ConstantTypes DEF MutexHeld, Holding
<1> QED BY Zenon, <1>1, <1>2, <1>3, <1>5, <1>7, <1>8, <1>10, <1>11, <1>12, <1>13 DEF IInv

\* Every step of the worker, of its tasks and of the clients preserves it.
LEMMA NextInv == ASSUME IInv, [Next]_vars PROVE IInv'
<1>1. TypeOK'
  BY TypeStep
<1> HIDE DEF IInv, TypeOK
<1>2. ASSUME WorkerStep PROVE IInv'
  BY Zenon, <1>1, <1>2, ControlActions, ExitStep, TakeTimeoutStep, RunFiberStep, IdleResumesStep,
     RunTaskStep, TaskEndActions, SuspendActions, SwitchToQueuedStep, SwitchToNewStep,
     SwitchToIdleStep, BlockedResumesStep, WaitActions DEF WorkerStep
<1>3. ASSUME TaskStep PROVE IInv'
  BY Zenon, <1>1, <1>3, WaitActions, SuspendActions, EnqueueTaskActions, EnqueueFiberActions
     DEF TaskStep
<1>4. ASSUME NEW c \in Clients, ClientStep(c) \/ ClientStarts(c) PROVE IInv'
  BY Zenon, <1>1, <1>4, FrameActions, EnqueueTaskActions, EnqueueFiberActions, ClientStealsStep
     DEF ClientStep, ClientStarts
<1>5. CASE RunWakesSpuriously \/ WorkWakesSpuriously
  BY <1>1, <1>5, ControlActions
<1>6. CASE \E t \in Tasks : SpinSteals(t)
  BY <1>1, <1>6, EnqueueTaskActions
<1>7. CASE Tick \/ UNCHANGED vars
  BY <1>1, <1>7, FrameActions
<1> QED BY Zenon, <1>2, <1>3, <1>4, <1>5, <1>6, <1>7 DEF Next, Terminated, Quiescent
=============================================================================
